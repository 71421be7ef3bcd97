------------------------------ MODULE MCSuAccess ------------------------------
(***************************************************************************)
(* Two uids of one app, in two users, and root.                            *)
(***************************************************************************)
EXTENDS SuAccess

MCUids == {10001, 110001}
MCCfgs == {DefaultCfg, [root_access |-> "AppsAndAdb", multiuser_mode |-> "OwnerManaged"]}
MCRows == {DefaultRow, [policy |-> "Deny", loud |-> TRUE]}
=============================================================================
