----------------------------- MODULE MCDenyList -----------------------------
(***************************************************************************)
(* One app that may be removed, or installed again under a second app ID,  *)
(* two handler threads and two logcat threads, an entry for isolated       *)
(* processes, and files of six versions of the database.                   *)
(***************************************************************************)
EXTENDS DenyList, TLC

OneApp == {"a.a"}
OneOrTwoIds == {10001, 10002}
Legal == {"a.a", "a.a:x", "isolated", "webview_zygote"}
Heads == Legal
Prefixes == {<<n, n>> : n \in Legal} \cup {<<"a.a:x", "a.a">>}
Sym == Permutations(Threads) \cup Permutations(Watchers)
SomeVersions == {0, 8, 9, 10, 12, 13}
StoredRows == {{<<"a.a", "a.a">>, <<"isolated", "a.a">>}}
=============================================================================
