------------------------------- MODULE SuAccess -------------------------------
(***************************************************************************)
(* Superuser requests in magiskd: su_daemon_handler and get_su_info of     *)
(* core/su/daemon.rs, app_request of core/su/connect.rs and the settings   *)
(* they read.  Every request is handled by a thread of its own.  The info  *)
(* of the last uid is kept in cached_su_info, shared between the threads;  *)
(* its mutex is held for as long as the user is asked.                     *)
(*                                                                         *)
(* Requests are numbered in the order they come.  An SuInfo has the number *)
(* of the request that built it; NoInfo is the one the daemon starts with. *)
(* age is the time since an info's timestamp, no further than it matters.  *)
(* A handler's locals are reset when it is done with them.                 *)
(***************************************************************************)
EXTENDS Integers

CONSTANTS MaxRequests,    \* bound on requests
          FreshFor,       \* 3 seconds, in ticks of the clock
          Uids,           \* of the clients, other than root
          Cfgs, Rows,     \* what is written to the tables settings and policies
          MgrApp,         \* app id of the manager
          MaxEdits        \* bound on changes of the settings

VARIABLES
    cfg, policies, installed,               \* the database; is there a manager?
    cached_su_info, infos, holder, age,     \* infos, who locks them, timestamps
    pc, uid, info, seen,                    \* the handlers
    edits,
    quiet, clean                            \* history

settings == <<cfg, policies, installed>>
cache == <<cached_su_info, infos, holder, age>>
handlers == <<pc, uid, info, seen>>
history == <<quiet, clean>>
vars == <<settings, cache, handlers, edits, history>>

AID_ROOT == 0
AID_SHELL == 2000
AID_USER_OFFSET == 100000
to_app_id(u) == u % AID_USER_OFFSET
to_user_id(u) == u \div AID_USER_OFFSET

\* Restrict is like Allow here: the shell it grants has fewer capabilities.
SuPolicy == {"Query", "Deny", "Allow"}
RootAccess == {"Disabled", "AppsOnly", "AdbOnly", "AppsAndAdb"}
MultiuserMode == {"OwnerOnly", "OwnerManaged", "User"}
DbSettings == [root_access : RootAccess, multiuser_mode : MultiuserMode]
\* A row of the table policies; loud is log or notify.
RootSettings == [policy : SuPolicy, loud : BOOLEAN]
DefaultRow == [policy |-> "Query", loud |-> TRUE]
DefaultCfg == [root_access |-> "AppsAndAdb", multiuser_mode |-> "OwnerOnly"]

ASSUME SuAssumption ==
    /\ MaxRequests \in Nat /\ FreshFor \in Nat \ {0}
    /\ Uids \subseteq Nat \ {AID_ROOT} /\ MgrApp \in Nat /\ MaxEdits \in Nat
    /\ Rows \subseteq RootSettings /\ Cfgs \subseteq DbSettings

\* A uid that nobody has; where it is compared, the uid's app id is not negative.
NoUid == -1
Clients == Uids \cup {AID_ROOT}
Requests == 1..MaxRequests
NoInfo == 0
NoOne == 0
Infos == Requests \cup {NoInfo}
EvalUids == Uids \cup {to_app_id(u) : u \in Uids}

Unread == [cfg |-> DefaultCfg, row |-> DefaultRow]

SuInfo(u, policy) == [uid |-> u, policy |-> policy]
allow(u) == SuInfo(u, "Allow")
deny(u) == SuInfo(u, "Deny")

Older(n) == IF n < FreshFor THEN n + 1 ELSE n
is_fresh_Always(i) == TRUE
is_fresh(i) == age[i] < FreshFor

Init ==
    /\ cfg = DefaultCfg /\ policies = [u \in EvalUids |-> DefaultRow] /\ installed = TRUE
    /\ cached_su_info = NoInfo
    /\ infos = [i \in Infos |-> SuInfo(NoUid, "Query")]
    /\ holder = [i \in Infos |-> NoOne] /\ age = [i \in Infos |-> 0]
    /\ pc = [r \in Requests |-> "idle"] /\ uid = [r \in Requests |-> NoUid]
    /\ info = [r \in Requests |-> NoInfo]
    /\ seen = [r \in Requests |-> Unread]
    /\ edits = 0
    /\ quiet = [u \in Uids |-> FreshFor] /\ clean = [r \in Requests |-> FALSE]

-----------------------------------------------------------------------------
(* build_su_info: what the settings c and the row of eval_uid make of u. *)

eval_uid(u, c) == IF c.multiuser_mode = "OwnerManaged" THEN to_app_id(u) ELSE u

\* The manager's uid for a user, or NoUid.
get_manager(user) == IF installed THEN user * AID_USER_OFFSET + MgrApp ELSE NoUid

AccessOff(u, c) ==
    \/ c.root_access = "Disabled"
    \/ c.root_access = "AdbOnly" /\ u # AID_SHELL
    \/ c.root_access = "AppsOnly" /\ u = AID_SHELL

build_su_info(u, c, row) ==
    LET mgr_uid == IF row.policy = "Query" \/ row.loud
                   THEN get_manager(to_user_id(eval_uid(u, c))) ELSE NoUid
    IN  IF c.multiuser_mode = "OwnerOnly" /\ to_user_id(u) # 0 THEN deny(u)
        ELSE IF mgr_uid # NoUid /\ to_app_id(u) = to_app_id(mgr_uid) THEN allow(u)
        ELSE IF AccessOff(u, c) \/ (row.policy = "Query" /\ mgr_uid = NoUid) THEN deny(u)
        ELSE SuInfo(u, row.policy)

\* What is left of the infos f: those that the cache or a handler refers to.
Refs == {cached_su_info'} \cup {info'[r] : r \in Requests}
Referenced(f) == [i \in Infos |-> IF i \in Refs THEN f[i] ELSE SuInfo(NoUid, "Query")]
Timestamps(f) == [i \in Infos |-> IF i \in Refs THEN f[i] ELSE 0]

Goto(r, l) == pc' = [pc EXCEPT ![r] = l]

-----------------------------------------------------------------------------
(* su_daemon_handler and get_su_info. *)

Begin(r, u) ==
    /\ pc[r] = "idle" /\ \A q \in Requests : q < r => pc[q] # "idle"
    /\ uid' = [uid EXCEPT ![r] = u]
    /\ clean' = [clean EXCEPT ![r] = u \in Uids /\ quiet[u] = FreshFor]
    /\ UNCHANGED <<settings, cached_su_info, holder, seen, edits, quiet>>

\* root gets an info of its own.
StartRoot(r) ==
    /\ Begin(r, AID_ROOT)
    /\ infos' = [infos EXCEPT ![r] = allow(AID_ROOT)]
    /\ age' = [age EXCEPT ![r] = 0]
    /\ info' = [info EXCEPT ![r] = r]
    /\ Goto(r, "lock")

\* cached_su_info.load(), and the comparison with uid.
Start(r, u) ==
    /\ Begin(r, u)
    /\ \/ /\ infos[cached_su_info].uid = u
          /\ info' = [info EXCEPT ![r] = cached_su_info]
          /\ Goto(r, "fresh")
       \/ infos[cached_su_info].uid # u /\ Goto(r, "settings") /\ UNCHANGED info
    /\ UNCHANGED <<infos, age>>

\* A client that dies before its request is read is denied.
StartFails(r) ==
    /\ pc[r] = "idle" /\ \A q \in Requests : q < r => pc[q] # "idle"
    /\ Goto(r, "closed")
    /\ UNCHANGED <<settings, cache, uid, info, seen, edits, history>>

\* cached.access.lock().is_fresh(): waits for the mutex and lets go of it.
CheckFresh_Kept(r) ==
    /\ pc[r] = "fresh" /\ holder[info[r]] = NoOne
    /\ Goto(r, IF is_fresh(info[r]) THEN "lock" ELSE "settings")
    /\ holder' = [holder EXCEPT ![info[r]] = r]
    /\ UNCHANGED <<settings, cached_su_info, infos, age, uid, info, seen, edits, history>>

CheckFresh(r) ==
    /\ pc[r] = "fresh" /\ holder[info[r]] = NoOne
    /\ Goto(r, IF is_fresh(info[r]) THEN "lock" ELSE "settings")
    /\ UNCHANGED <<settings, cache, uid, info, seen, edits, history>>

\* get_db_settings, then get_root_settings: two queries.
ReadSettings(r) ==
    /\ pc[r] = "settings"
    /\ seen' = [seen EXCEPT ![r].cfg = cfg]
    /\ Goto(r, "policy")
    /\ UNCHANGED <<settings, cache, uid, info, edits, history>>

ReadPolicy(r) ==
    /\ pc[r] = "policy"
    /\ seen' = [seen EXCEPT ![r].row = policies[eval_uid(uid[r], seen[r].cfg)]]
    /\ Goto(r, "store")
    /\ UNCHANGED <<settings, cache, uid, info, edits, history>>

Store(r, new) ==
    /\ cached_su_info' = r
    /\ info' = [info EXCEPT ![r] = r]
    /\ infos' = Referenced([infos EXCEPT ![r] = new])
    /\ age' = Timestamps([age EXCEPT ![r] = 0])
    /\ seen' = [seen EXCEPT ![r] = Unread]
    /\ Goto(r, "lock")
    /\ UNCHANGED <<settings, holder, uid, edits, history>>

StoreInfo(r) == pc[r] = "store" /\ Store(r, build_su_info(uid[r], seen[r].cfg, seen[r].row))

\* A query fails: result.unwrap_or(deny).
StoreDeny(r) == pc[r] \in {"settings", "policy"} /\ Store(r, deny(uid[r]))

\* After connect_app: refresh, unlock, and the verdict.
Decide(r, policy) ==
    /\ UNCHANGED cached_su_info
    /\ info' = [info EXCEPT ![r] = NoInfo]
    /\ infos' = Referenced([infos EXCEPT ![info[r]].policy = policy])
    /\ age' = Timestamps([age EXCEPT ![info[r]] = 0])
    /\ holder' = [holder EXCEPT ![info[r]] = NoOne]
    /\ quiet' = [u \in Uids |-> IF u = uid[r] THEN 0 ELSE quiet[u]]
    /\ Goto(r, IF policy = "Deny" THEN "closed" ELSE "granted")
    /\ uid' = [uid EXCEPT ![r] = IF policy = "Deny" THEN NoUid ELSE @]
    /\ clean' = [clean EXCEPT ![r] = @ /\ policy # "Deny"]

MayLock(r) == holder[info[r]] = NoOne

\* connect_app asks if the policy is not known yet.
Undecided_Unchecked(r) == TRUE
Undecided(r) == infos[info[r]].policy = "Query"

\* access.lock(), and the verdict if there is nothing to ask.
LockDecided(r) ==
    /\ pc[r] = "lock" /\ MayLock(r)
    /\ ~ Undecided(r)
    /\ Decide(r, infos[info[r]].policy)
    /\ UNCHANGED <<settings, seen, edits>>

\* access.lock(), then app_request: a FIFO, and a dialog of the manager.
LockAsk(r) ==
    /\ pc[r] = "lock" /\ MayLock(r)
    /\ Undecided(r)
    /\ holder' = [holder EXCEPT ![info[r]] = r]
    /\ Goto(r, "poll")
    /\ UNCHANGED <<settings, cached_su_info, infos, age, uid, info, seen, edits, history>>

\* poll times out, which check_os_err does not tell from data; the FIFO is
\* removed, and read_decodable blocks: the daemon has it open for writing itself.
PollTimeout(r) ==
    /\ pc[r] = "poll"
    /\ Goto(r, "read")
    /\ UNCHANGED <<settings, cache, uid, info, seen, edits, history>>

\* mkfifo, open or poll fails.
PollFails(r) ==
    /\ pc[r] = "poll"
    /\ Decide(r, "Deny")
    /\ UNCHANGED <<settings, seen, edits>>

\* The manager writes to the FIFO, which it may have opened before the timeout,
\* and the handler reads it.
ReadAnswer(r, policy) ==
    /\ pc[r] \in {"poll", "read"}
    /\ Decide(r, policy)
    /\ UNCHANGED <<settings, seen, edits>>

\* A granted request forks a root shell and waits for it, if it can.
Fork(r) ==
    /\ pc[r] = "granted"
    /\ Goto(r, "closed")
    /\ uid' = [uid EXCEPT ![r] = NoUid] /\ clean' = [clean EXCEPT ![r] = FALSE]
    /\ UNCHANGED <<settings, cache, info, seen, edits, quiet>>

-----------------------------------------------------------------------------
(* External: changes of the settings and time. *)

\* Any change makes every answer so far an old one.
EditSettings ==
    /\ edits < MaxEdits
    /\ edits' = edits + 1
    /\ \/ cfg' \in Cfgs \ {cfg} /\ UNCHANGED <<policies, installed>>
       \/ /\ \E u \in EvalUids, row \in Rows :
                row # policies[u] /\ policies' = [policies EXCEPT ![u] = row]
          /\ UNCHANGED <<cfg, installed>>
       \/ installed' = ~ installed /\ UNCHANGED <<cfg, policies>>
    /\ quiet' = [u \in Uids |-> 0]
    /\ clean' = [r \in Requests |-> FALSE]
    /\ UNCHANGED <<cache, handlers>>

Ended == {"granted", "closed"}
Active(u) == \E r \in Requests : uid[r] = u /\ pc[r] \notin Ended

Tick ==
    /\ age' = [i \in Infos |-> IF infos[i].uid # NoUid THEN Older(age[i]) ELSE 0]
    /\ quiet' = [u \in Uids |-> IF Active(u) THEN 0 ELSE Older(quiet[u])]
    /\ UNCHANGED <<settings, cached_su_info, infos, holder, handlers, edits, clean>>

-----------------------------------------------------------------------------
Step(r) ==
    \/ CheckFresh(r)
    \/ ReadSettings(r) \/ ReadPolicy(r) \/ StoreInfo(r) \/ StoreDeny(r)
    \/ LockDecided(r) \/ LockAsk(r) \/ PollTimeout(r) \/ PollFails(r)
    \/ Fork(r)

Next ==
    \/ \E r \in Requests : \/ StartRoot(r) \/ StartFails(r) \/ \E u \in Uids : Start(r, u)
                           \/ Step(r)
                           \/ \E p \in SuPolicy \ {"Query"} : ReadAnswer(r, p)
    \/ EditSettings \/ Tick

Spec == Init /\ [][Next]_vars

\* A thread runs on unless it waits for a mutex or for data.
FairSpec == Spec /\ \A r \in Requests : WF_vars(Step(r))

-----------------------------------------------------------------------------
\* A request is decided by an info of its own uid, though others replace the
\* cached one at any moment of get_su_info.
OwnInfo == \A r \in Requests :
    pc[r] \in {"fresh", "lock", "poll", "read"} => infos[info[r]].uid = uid[r]

\* is_fresh: a request that comes when neither the settings were changed nor its
\* uid was served for three seconds is granted only if the settings at its verdict
\* do not deny it, unless they change while it is handled.
NoStaleGrant == \A r \in Requests :
    pc[r] = "granted" /\ clean[r] =>
        build_su_info(uid[r], cfg, policies[eval_uid(uid[r], cfg)]).policy # "Deny"

\* Both: get_su_info hands out the info of the right app, and one that is not stale.
GrantsSound == OwnInfo /\ NoStaleGrant

\* What the user, or the database, decided for an info is not decided again by
\* another request that shares it: it waits for the mutex, then finds the answer.
DecisionStands ==
    [][\A i \in Infos : infos[i].policy # "Query" /\ infos[i].uid # NoUid =>
            infos'[i] \in {infos[i], SuInfo(NoUid, "Query")}]_vars

AskedFor(u) == \E r \in Requests : uid[r] = u /\ pc[r] \in {"poll", "read"}

\* Every request that came ends, or waits for ever for the answer to a dialog about its
\* own uid: no other uid, and no mutex, keeps it from it.
OnlyOwnDialogBlocks ==
    <>[]\A r \in Requests : pc[r] \in Ended \cup {"idle"} \/ AskedFor(uid[r])

\* "Wait for data input for at most 70 seconds": app_request ends even if the
\* manager never answers.
DialogEnds == \A r \in Requests : pc[r] = "poll" ~> pc[r] \in Ended
=============================================================================
