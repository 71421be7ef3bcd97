---------------------------- MODULE SuAccessProofs ----------------------------
(***************************************************************************)
(* Proofs about SuAccess, for any number of requests, any uids and any     *)
(* settings.                                                               *)
(***************************************************************************)
EXTENDS SuAccess, TLAPS

Labels == {"idle", "fresh", "settings", "policy", "store", "lock", "poll", "read", "granted", "closed"}
Asking == {"poll", "read"}
InfoRec == [uid : Clients \cup {NoUid}, policy : SuPolicy]
SeenRec == [cfg : DbSettings, row : RootSettings]

Types ==
    /\ cfg \in DbSettings /\ policies \in [EvalUids -> RootSettings]
    /\ cached_su_info \in Infos
    /\ infos \in [Infos -> InfoRec]
    /\ holder \in [Infos -> Requests \cup {NoOne}]
    /\ pc \in [Requests -> Labels] /\ uid \in [Requests -> Clients \cup {NoUid}]
    /\ info \in [Requests -> Infos] /\ seen \in [Requests -> SeenRec]

\* A handler that looks up or builds an info has a client other than root.
Looking == \A r \in Requests :
    /\ pc[r] \in {"fresh", "settings", "policy", "store"} => uid[r] \in Uids
    /\ pc[r] \in {"lock", "poll", "read"} => uid[r] \in Clients

\* The info a request will build is not there before.
Unbuilt == \A r \in Requests :
    pc[r] \in {"idle", "fresh", "settings", "policy", "store"} => infos[r].uid = NoUid

\* Who asks the user holds the mutex of an info that is not decided.
Locked == \A r \in Requests :
    pc[r] \in Asking => holder[info[r]] = r /\ infos[info[r]].policy = "Query"

SuInv == Types /\ Looking /\ Unbuilt /\ Locked /\ OwnInfo

\* 0 names no request.
LEMMA Zero == NoInfo \notin Requests /\ NoOne \notin Requests /\ Requests \subseteq Infos /\ NoInfo \in Infos
BY DEF NoInfo, NoOne, Requests, Infos

\* -1 is no client.
LEMMA Nobody == NoUid \notin Clients /\ Uids \subseteq Clients /\ AID_ROOT \in Clients
BY SuAssumption DEF NoUid, Clients, AID_ROOT

\* build_su_info makes an info of the uid it is asked about.
LEMMA Built ==
    ASSUME NEW u \in Clients, NEW c, NEW row \in RootSettings
    PROVE  build_su_info(u, c, row) \in InfoRec /\ build_su_info(u, c, row).uid = u
<1>1. build_su_info(u, c, row) \in {SuInfo(u, "Deny"), SuInfo(u, "Allow"), SuInfo(u, row.policy)}
  BY DEF build_su_info, deny, allow
<1>2. row.policy \in SuPolicy
  BY DEF RootSettings
<1> QED
  BY <1>1, <1>2 DEF SuInfo, InfoRec, SuPolicy

\* A new daemon satisfies the invariant.
LEMMA SuStart == Init => SuInv
<1> SUFFICES ASSUME Init PROVE SuInv
  OBVIOUS
<1>1. DefaultRow \in RootSettings /\ DefaultCfg \in DbSettings
  BY DEF DefaultRow, DefaultCfg, RootSettings, DbSettings, SuPolicy, RootAccess, MultiuserMode
<1>2. Types
  BY <1>1, Zero DEF Init, Types, InfoRec, SuInfo, SuPolicy, Labels, SeenRec, Unread
<1> QED
  BY <1>2, Zero DEF Init, SuInv, Looking, Unbuilt, Locked, OwnInfo, Asking, SuInfo

\* cached_su_info.store keeps the invariant: nobody has the new info yet.
LEMMA StoreKeeps ==
    ASSUME SuInv, NEW r \in Requests, NEW new \in InfoRec, new.uid = uid[r],
           pc[r] \in {"settings", "policy", "store"}, Store(r, new)
    PROVE  SuInv'
<1>1. \A i \in Infos : infos'[i] \in {IF i = r THEN new ELSE infos[i], SuInfo(NoUid, "Query")}
  BY Zero DEF Store, Referenced, SuInv, Types
<1>2. \A q \in Requests : infos'[info'[q]] = IF info'[q] = r THEN new ELSE infos[info'[q]]
  BY Zero DEF Store, Referenced, Refs, SuInv, Types
<1>3. Types'
  <2>1. infos' \in [Infos -> InfoRec]
    BY <1>1, Zero DEF Store, Referenced, SuInv, Types, InfoRec, SuInfo, SuPolicy
  <2>2. Unread \in SeenRec
    BY DEF Unread, SeenRec, DefaultRow, DefaultCfg, RootSettings, DbSettings, SuPolicy, RootAccess,
           MultiuserMode
  <2> QED
    BY <2>1, <2>2, Zero DEF Store, Goto, SuInv, Types, settings, Labels
<1>4. \A q \in Requests : q # r => pc'[q] = pc[q] /\ info'[q] = info[q] /\ uid'[q] = uid[q]
  BY DEF Store, Goto, SuInv, Types
<1>5. pc'[r] = "lock" /\ info'[r] = r /\ uid'[r] = uid[r] /\ uid[r] \in Uids /\ infos[r].uid = NoUid
  BY DEF Store, Goto, SuInv, Types, Looking, Unbuilt
<1>6. \A q \in Requests : q # r /\ pc[q] \in {"fresh", "lock", "poll", "read"} => info[q] # r
  BY <1>5, Nobody DEF SuInv, OwnInfo, Looking
<1>7. Looking'
  BY <1>4, <1>5, Nobody DEF SuInv, Looking
<1>8. Unbuilt'
  BY <1>1, <1>4, <1>5, Zero DEF SuInv, Unbuilt, SuInfo
<1>9. Locked'
  <2>1. holder' = holder
    BY DEF Store
  <2>2. \A q \in Requests : pc'[q] \in Asking => q # r /\ pc[q] \in Asking /\ info'[q] = info[q] /\ info[q] # r
    BY <1>4, <1>5, <1>6 DEF Asking
  <2> QED
    BY <1>2, <2>1, <2>2 DEF SuInv, Locked
<1>10. OwnInfo'
  BY <1>2, <1>4, <1>5, <1>6 DEF SuInv, OwnInfo
<1> QED
  BY <1>3, <1>7, <1>8, <1>9, <1>10 DEF SuInv

\* A verdict keeps the invariant: nobody else asks about the same info.
LEMMA DecideKeeps ==
    ASSUME SuInv, NEW r \in Requests, NEW policy \in SuPolicy, pc[r] \in {"lock", "poll", "read"},
           holder[info[r]] \in {NoOne, r}, Decide(r, policy), UNCHANGED <<settings, seen, edits>>
    PROVE  SuInv'
<1>1. /\ \A i \in Infos : \/ infos'[i] = SuInfo(NoUid, "Query")
                          \/ infos'[i] = [infos[i] EXCEPT !.policy = IF i = info[r] THEN policy ELSE @]
      /\ infos' = [i \in Infos |-> infos'[i]]
  BY Zero DEF Decide, Referenced, SuInv, Types, InfoRec
<1>2. \A i \in Infos : infos[i] \in InfoRec /\ infos'[i] \in InfoRec
  BY <1>1 DEF SuInv, Types, InfoRec, SuInfo, SuPolicy
<1>3. \A q \in Requests : q # r => pc'[q] = pc[q] /\ info'[q] = info[q] /\ uid'[q] = uid[q]
  BY DEF Decide, Goto, SuInv, Types
<1>4. pc'[r] \in Ended /\ info'[r] = NoInfo
  BY DEF Decide, Goto, SuInv, Types, Ended
<1>5. \A q \in Requests : q # r /\ pc[q] \in Asking => info[q] # info[r]
  BY Zero DEF SuInv, Locked
<1>6. \A q \in Requests : q # r =>
        infos'[info[q]] = [infos[info[q]] EXCEPT !.policy = IF info[q] = info[r] THEN policy ELSE @]
  BY <1>3 DEF Decide, Referenced, Refs, SuInv, Types, InfoRec
<1>7. Types'
  BY <1>1, <1>2, Zero DEF Decide, Goto, SuInv, Types, Labels, settings
<1>8. Looking'
  BY <1>3, <1>4 DEF SuInv, Looking, Ended
<1>9. Unbuilt'
  BY <1>1, <1>2, <1>3, <1>4, Zero DEF SuInv, Unbuilt, Ended, InfoRec, SuInfo
<1>10. Locked'
  <2> SUFFICES ASSUME NEW q \in Requests, pc'[q] \in Asking
               PROVE  holder'[info'[q]] = q /\ infos'[info'[q]].policy = "Query"
    BY DEF Locked
  <2>1. q # r /\ pc[q] \in Asking /\ info'[q] = info[q] /\ info[q] # info[r]
    BY <1>3, <1>4, <1>5 DEF Asking, Ended
  <2>2. holder'[info[q]] = q
    BY <2>1 DEF Decide, SuInv, Types, Locked
  <2>3. infos[info[q]] \in InfoRec /\ infos[info[q]].policy = "Query"
    BY <1>2, <2>1 DEF SuInv, Types, Locked
  <2> QED
    BY <1>6, <2>1, <2>2, <2>3 DEF InfoRec
<1>11. OwnInfo'
  <2> SUFFICES ASSUME NEW q \in Requests, pc'[q] \in {"fresh", "lock", "poll", "read"}
               PROVE  infos'[info'[q]].uid = uid'[q]
    BY DEF OwnInfo
  <2>1. q # r /\ pc[q] = pc'[q] /\ info'[q] = info[q] /\ uid'[q] = uid[q]
    BY <1>3, <1>4 DEF Ended
  <2>2. infos[info[q]] \in InfoRec /\ infos[info[q]].uid = uid[q]
    BY <1>2, <2>1 DEF SuInv, Types, OwnInfo
  <2> QED
    BY <1>6, <2>1, <2>2 DEF InfoRec
<1> QED
  BY <1>7, <1>8, <1>9, <1>10, <1>11 DEF SuInv

\* A handler's verdict is given under the mutex.
LEMMA VerdictHeld ==
    ASSUME SuInv, NEW r \in Requests,
           LockDecided(r) \/ PollFails(r) \/ \E p \in SuPolicy \ {"Query"} : ReadAnswer(r, p)
    PROVE  \E policy \in SuPolicy :
                /\ Decide(r, policy) /\ UNCHANGED <<settings, seen, edits>>
                /\ pc[r] \in {"lock", "poll", "read"} /\ holder[info[r]] \in {NoOne, r}
                /\ policy # infos[info[r]].policy => infos[info[r]].policy = "Query"
<1>1. infos[info[r]].policy \in SuPolicy /\ "Deny" \in SuPolicy
  BY DEF SuInv, Types, InfoRec, SuPolicy
<1>2. CASE LockDecided(r)
  BY <1>1, <1>2 DEF LockDecided, MayLock
<1>3. CASE PollFails(r)
  BY <1>1, <1>3 DEF PollFails, SuInv, Locked, Asking
<1>4. ASSUME NEW p \in SuPolicy \ {"Query"}, ReadAnswer(r, p)
      PROVE  /\ Decide(r, p) /\ UNCHANGED <<settings, seen, edits>>
             /\ pc[r] \in {"lock", "poll", "read"} /\ holder[info[r]] \in {NoOne, r}
             /\ p # infos[info[r]].policy => infos[info[r]].policy = "Query"
  BY <1>4 DEF ReadAnswer, SuInv, Locked, Asking
<1> QED
  BY <1>2, <1>3, <1>4

\* The verdicts of a step.
Verdict(r) == LockDecided(r) \/ PollFails(r) \/ \E p \in SuPolicy \ {"Query"} : ReadAnswer(r, p)

\* Every step keeps the invariant.
LEMMA SuStep == SuInv /\ [Next]_vars => SuInv'
<1> SUFFICES ASSUME SuInv, [Next]_vars PROVE SuInv'
  OBVIOUS
<1>1. ASSUME NEW r \in Requests, StartRoot(r) PROVE SuInv'
  <2>1. /\ infos[r].uid = NoUid /\ allow(AID_ROOT) \in InfoRec /\ allow(AID_ROOT).uid = AID_ROOT
        /\ pc[r] = "idle"
    BY <1>1, Nobody DEF StartRoot, Begin, SuInv, Unbuilt, allow, SuInfo, InfoRec, SuPolicy
  <2>2. \A q \in Requests : pc[q] \in {"fresh", "lock", "poll", "read"} => q # r /\ info[q] # r
    BY <2>1, Nobody DEF SuInv, OwnInfo, Looking
  <2>3. /\ Types'
        /\ \A q \in Requests : q # r => pc'[q] = pc[q] /\ info'[q] = info[q] /\ uid'[q] = uid[q]
        /\ pc'[r] = "lock" /\ info'[r] = r /\ uid'[r] = AID_ROOT
        /\ \A i \in Infos : infos'[i] = IF i = r THEN allow(AID_ROOT) ELSE infos[i]
        /\ holder' = holder
    BY <1>1, <2>1, Zero, Nobody DEF StartRoot, Begin, Goto, SuInv, Types, settings, Labels
  <2>4. Looking' /\ Unbuilt'
    BY <2>3, Zero, Nobody DEF SuInv, Looking, Unbuilt
  <2>5. Locked' /\ OwnInfo'
    BY <2>1, <2>2, <2>3, Zero DEF SuInv, Types, Locked, OwnInfo, Asking
  <2> QED
    BY <2>3, <2>4, <2>5 DEF SuInv
<1>2. ASSUME NEW r \in Requests, NEW u \in Uids, Start(r, u) PROVE SuInv'
  <2>1. /\ Types' /\ infos' = infos /\ holder' = holder
        /\ pc[r] = "idle" /\ pc'[r] \in {"fresh", "settings"} /\ uid'[r] = u
        /\ pc'[r] = "fresh" => infos[info'[r]].uid = u
        /\ \A q \in Requests : q # r => pc'[q] = pc[q] /\ info'[q] = info[q] /\ uid'[q] = uid[q]
    BY <1>2, Nobody DEF Start, Begin, Goto, SuInv, Types, settings, Labels
  <2> QED
    BY <2>1 DEF SuInv, Looking, Unbuilt, Locked, OwnInfo, Asking
<1>3. ASSUME NEW r \in Requests,
             StartFails(r) \/ CheckFresh(r) \/ ReadSettings(r) \/ ReadPolicy(r) \/ PollTimeout(r) \/ Fork(r)
      PROVE  SuInv'
  <2>1. UNCHANGED <<cfg, policies, cached_su_info, infos, holder, info>>
    BY <1>3 DEF StartFails, CheckFresh, ReadSettings, ReadPolicy, PollTimeout, Fork, settings, cache
  <2>2. /\ pc' \in [Requests -> Labels]
        /\ \A q \in Requests : q # r => pc'[q] = pc[q] /\ uid'[q] = uid[q]
    BY <1>3 DEF StartFails, CheckFresh, ReadSettings, ReadPolicy, PollTimeout, Fork, Goto, SuInv,
                Types, Labels
  <2>3. /\ uid' \in [Requests -> Clients \cup {NoUid}]
        /\ \/ pc'[r] = "closed"
           \/ uid'[r] = uid[r] /\ pc[r] = "fresh" /\ pc'[r] \in {"lock", "settings"}
           \/ uid'[r] = uid[r] /\ pc[r] = "settings" /\ pc'[r] = "policy"
           \/ uid'[r] = uid[r] /\ pc[r] = "policy" /\ pc'[r] = "store"
           \/ uid'[r] = uid[r] /\ pc[r] = "poll" /\ pc'[r] = "read"
    BY <1>3 DEF StartFails, CheckFresh, ReadSettings, ReadPolicy, PollTimeout, Fork, Goto, SuInv, Types
  <2>4. seen' \in [Requests -> SeenRec]
    <3>1. CASE ReadSettings(r)
      BY <3>1 DEF ReadSettings, SuInv, Types, SeenRec
    <3>2. CASE ReadPolicy(r)
      <4>1. eval_uid(uid[r], seen[r].cfg) \in EvalUids
        BY <3>2 DEF ReadPolicy, SuInv, Looking, eval_uid, EvalUids
      <4> QED
        BY <3>2, <4>1 DEF ReadPolicy, SuInv, Types, SeenRec
    <3> QED
      BY <1>3, <3>1, <3>2 DEF StartFails, CheckFresh, PollTimeout, Fork, SuInv, Types
  <2>5. Types'
    BY <2>1, <2>2, <2>3, <2>4 DEF SuInv, Types
  <2>6. Looking' /\ Unbuilt'
    BY <2>1, <2>2, <2>3, Nobody DEF SuInv, Looking, Unbuilt
  <2>7. Locked' /\ OwnInfo'
    BY <2>1, <2>2, <2>3 DEF SuInv, Locked, OwnInfo, Asking
  <2> QED
    BY <2>5, <2>6, <2>7 DEF SuInv
<1>4. ASSUME NEW r \in Requests, StoreInfo(r) PROVE SuInv'
  <2>1. uid[r] \in Clients /\ seen[r].row \in RootSettings
    BY <1>4, Nobody DEF StoreInfo, SuInv, Looking, Types, SeenRec
  <2> QED
    BY <1>4, <2>1, Built, StoreKeeps DEF StoreInfo
<1>5. ASSUME NEW r \in Requests, StoreDeny(r) PROVE SuInv'
  <2>1. deny(uid[r]) \in InfoRec /\ deny(uid[r]).uid = uid[r]
    BY <1>5 DEF SuInv, Types, deny, SuInfo, InfoRec, SuPolicy
  <2> QED
    BY <1>5, <2>1, StoreKeeps DEF StoreDeny
<1>6. ASSUME NEW r \in Requests, Verdict(r) PROVE SuInv'
  BY <1>6, VerdictHeld, DecideKeeps DEF Verdict
<1>7. ASSUME NEW r \in Requests, LockAsk(r) PROVE SuInv'
  <2>1. /\ Types' /\ UNCHANGED <<infos, info, uid>>
        /\ pc[r] = "lock" /\ pc'[r] = "poll" /\ infos[info[r]].policy = "Query"
        /\ holder'[info[r]] = r /\ holder[info[r]] = NoOne
        /\ \A i \in Infos : i # info[r] => holder'[i] = holder[i]
        /\ \A q \in Requests : q # r => pc'[q] = pc[q]
    BY <1>7 DEF LockAsk, MayLock, Undecided, Goto, SuInv, Types, settings, Labels
  <2>2. \A q \in Requests : pc[q] \in Asking => info[q] # info[r]
    BY <2>1, Zero DEF SuInv, Locked
  <2>3. Looking' /\ Unbuilt' /\ OwnInfo'
    BY <2>1 DEF SuInv, Looking, Unbuilt, OwnInfo
  <2>4. Locked'
    BY <2>1, <2>2 DEF SuInv, Types, Locked, Asking
  <2> QED
    BY <2>1, <2>3, <2>4 DEF SuInv
<1>8. CASE EditSettings
  <2>1. cfg' \in DbSettings /\ policies' \in [EvalUids -> RootSettings]
    BY <1>8, SuAssumption DEF EditSettings, SuInv, Types
  <2>2. UNCHANGED <<cached_su_info, infos, holder, pc, uid, info, seen>>
    BY <1>8 DEF EditSettings, cache, handlers
  <2> QED
    BY <2>1, <2>2 DEF SuInv, Types, Looking, Unbuilt, Locked, OwnInfo
<1>9. CASE Tick \/ UNCHANGED vars
  <2>1. UNCHANGED <<cfg, policies, cached_su_info, infos, holder, pc, uid, info, seen>>
    BY <1>9 DEF Tick, vars, settings, cache, handlers
  <2> QED
    BY <2>1 DEF SuInv, Types, Looking, Unbuilt, Locked, OwnInfo
<1> QED
  BY <1>1, <1>2, <1>3, <1>4, <1>5, <1>6, <1>7, <1>8, <1>9 DEF Next, Step, Verdict

\* OwnInfo always holds: whatever uids the requests have and however the handlers
\* replace cached_su_info, get_su_info returns an info of the client's uid.
THEOREM OwnInfoAlways == Spec => []OwnInfo
<1>1. SuInv => OwnInfo
  BY DEF SuInv
<1> QED
  BY SuStart, SuStep, <1>1, PTL DEF Spec

\* DecisionStands holds: app_request is only reached with the mutex of an info
\* that is not decided, so that no answer replaces another.
THEOREM DecisionsStand == Spec => DecisionStands
<1> DEFINE Stands == \A i \in Infos : infos[i].policy # "Query" /\ infos[i].uid # NoUid =>
                        infos'[i] \in {infos[i], SuInfo(NoUid, "Query")}
<1>1. SuInv /\ [Next]_vars => [Stands]_vars
  <2> SUFFICES ASSUME SuInv, [Next]_vars PROVE Stands
    OBVIOUS
  <2>1. ASSUME NEW r \in Requests, StartRoot(r) PROVE Stands
    BY <2>1, Zero DEF StartRoot, Begin, SuInv, Types, Unbuilt
  <2>2. ASSUME NEW r \in Requests, NEW new, Store(r, new), pc[r] \in {"settings", "policy", "store"}
        PROVE  Stands
    <3>1. infos[r].uid = NoUid
      BY <2>2 DEF SuInv, Unbuilt
    <3> QED
      BY <2>2, <3>1, Zero DEF Store, Referenced, SuInv, Types
  <2>3. ASSUME NEW r \in Requests, Verdict(r) PROVE Stands
    <3>1. PICK policy \in SuPolicy :
            Decide(r, policy) /\ (policy # infos[info[r]].policy => infos[info[r]].policy = "Query")
      BY <2>3, VerdictHeld DEF Verdict
    <3>2. \A i \in Infos : infos[i].policy # "Query" =>
            [infos EXCEPT ![info[r]].policy = policy][i] = infos[i]
      BY <3>1 DEF SuInv, Types, InfoRec
    <3> QED
      BY <3>1, <3>2 DEF Decide, Referenced
  <2>4. CASE infos' = infos
    BY <2>4
  <2> QED
    BY <2>1, <2>2, <2>3, <2>4
       DEF Next, Step, Verdict, Start, StartFails, CheckFresh, ReadSettings, ReadPolicy, StoreInfo,
           StoreDeny, LockAsk, PollTimeout, Fork, EditSettings, Tick, vars, cache
<1> QED
  BY SuStart, SuStep, <1>1, PTL DEF Spec, DecisionStands

-----------------------------------------------------------------------------
(* For NoStaleGrant. *)

\* The uids that the settings deny.
DeniedSet == {u \in Clients : build_su_info(u, cfg, policies[eval_uid(u, cfg)]).policy = "Deny"}
\* An info that is no better than the settings.
Current(i) == infos[i].policy = "Deny" \/ infos[i].uid \notin DeniedSet
Busy(r) == pc[r] \in {"fresh", "settings", "policy", "store", "lock", "poll", "read"}

\* What a handler has read so far is current, or will not be used.
Good(q) ==
    /\ pc[q] \in {"lock", "poll", "read"} => Current(info[q])
    /\ pc[q] = "fresh" => Current(info[q]) \/ age[info[q]] = FreshFor
    /\ pc[q] \in {"policy", "store"} => seen[q].cfg = cfg
    /\ pc[q] = "store" => seen[q].row = policies[eval_uid(uid[q], cfg)]

FreshTypes ==
    /\ age \in [Infos -> 0..FreshFor] /\ quiet \in [Uids -> 0..FreshFor]
    /\ clean \in [Requests -> BOOLEAN]
    /\ \A r \in Requests : clean[r] => uid[r] \in Uids

\* While a clean request of a uid is handled, so it is with all of that uid.
AllGood == \A r, q \in Requests : clean[r] /\ Busy(r) /\ uid[q] = uid[r] => Good(q)

\* And the cached info is current, or too old.
CacheGood == \A r \in Requests :
    clean[r] /\ Busy(r) /\ infos[cached_su_info].uid = uid[r]
        => Current(cached_su_info) \/ age[cached_su_info] = FreshFor

\* A request that is not clean keeps its uid from being quiet.
NotQuiet == \A r \in Requests :
    Busy(r) /\ uid[r] \in Uids /\ ~ clean[r] => quiet[uid[r]] < FreshFor

\* A cached info that is not current is older than its uid has been quiet.
Dirty(u) == \E r \in Requests : Busy(r) /\ uid[r] = u /\ ~ clean[r]
OldEnough ==
    infos[cached_su_info].uid \in Uids /\ ~ Current(cached_su_info) =>
        \/ quiet[infos[cached_su_info].uid] <= age[cached_su_info]
        \/ Dirty(infos[cached_su_info].uid)

GrantGood == \A r \in Requests : pc[r] = "granted" /\ clean[r] => uid[r] \notin DeniedSet

FreshInv == FreshTypes /\ AllGood /\ CacheGood /\ NotQuiet /\ OldEnough /\ GrantGood

\* The stronger invariant gives the one that is checked.
LEMMA GrantGoodEnough == FreshInv => NoStaleGrant
BY Nobody DEF FreshInv, FreshTypes, GrantGood, NoStaleGrant, DeniedSet

\* Without a change of the settings the same uids are denied.
LEMMA SameDenied == UNCHANGED settings => DeniedSet' = DeniedSet
BY DEF settings, DeniedSet, build_su_info, get_manager

\* A new daemon has served nobody.
LEMMA FreshStart == Init => FreshInv
<1> SUFFICES ASSUME Init PROVE FreshInv
  OBVIOUS
<1>1. FreshTypes
  BY SuAssumption DEF Init, FreshTypes
<1>2. infos[cached_su_info].uid = NoUid
  BY Zero DEF Init, SuInfo
<1> QED
  BY <1>1, <1>2, Nobody DEF Init, FreshInv, AllGood, CacheGood, NotQuiet, OldEnough, GrantGood, Busy

\* The steps of a handler that change neither the infos nor what it refers to.
LEMMA FreshHandler ==
    ASSUME SuInv, FreshInv, NEW r \in Requests,
           \/ StartFails(r) \/ CheckFresh(r) \/ ReadSettings(r) \/ ReadPolicy(r) \/ PollTimeout(r)
           \/ LockAsk(r) \/ Fork(r)
    PROVE  FreshInv'
<1>1. UNCHANGED <<settings, cached_su_info, infos, age, info, quiet>>
  BY DEF StartFails, CheckFresh, ReadSettings, ReadPolicy, PollTimeout, LockAsk, Fork, cache, history
<1>2. DeniedSet' = DeniedSet /\ cfg' = cfg /\ policies' = policies
  BY <1>1, SameDenied DEF settings
<1>3. \A q \in Requests : q # r => /\ pc'[q] = pc[q] /\ uid'[q] = uid[q] /\ seen'[q] = seen[q]
                                   /\ clean'[q] = clean[q]
  BY DEF StartFails, CheckFresh, ReadSettings, ReadPolicy, PollTimeout, LockAsk, Fork, Goto, history,
         SuInv, Types, FreshInv, FreshTypes
<1>4. \/ pc'[r] = "closed"
      \/ Busy(r) /\ pc'[r] # "granted" /\ uid'[r] = uid[r] /\ clean'[r] = clean[r]
  BY DEF StartFails, CheckFresh, ReadSettings, ReadPolicy, PollTimeout, LockAsk, Fork, Goto, history,
         SuInv, Types, Busy
<1>5. FreshTypes'
  <2>1. clean' \in [Requests -> BOOLEAN]
    BY DEF StartFails, CheckFresh, ReadSettings, ReadPolicy, PollTimeout, LockAsk, Fork, history,
           FreshInv, FreshTypes
  <2>2. clean'[r] => uid'[r] = uid[r] /\ clean[r]
    BY DEF StartFails, CheckFresh, ReadSettings, ReadPolicy, PollTimeout, LockAsk, Fork, history,
           FreshInv, FreshTypes
  <2> QED
    BY <1>1, <1>3, <2>1, <2>2 DEF FreshInv, FreshTypes
<1>6. ASSUME Good(r) PROVE Good(r)'
  <2>1. CASE CheckFresh(r)
    <3>1. pc[r] = "fresh" /\ pc'[r] \in {"lock", "settings"}
      BY <2>1 DEF CheckFresh, Goto, SuInv, Types
    <3>2. pc'[r] = "lock" => age[info[r]] < FreshFor
      BY <2>1 DEF CheckFresh, is_fresh, Goto, SuInv, Types
    <3>3. age[info[r]] < FreshFor => age[info[r]] # FreshFor
      BY SuAssumption DEF FreshInv, FreshTypes, SuInv, Types
    <3>4. pc'[r] = "lock" => Current(info[r])
      BY <1>6, <3>1, <3>2, <3>3 DEF Good
    <3> QED
      BY <1>1, <1>2, <3>1, <3>4 DEF Good, Current
  <2>2. CASE ReadSettings(r) \/ ReadPolicy(r)
    BY <1>1, <1>2, <1>6, <2>2 DEF ReadSettings, ReadPolicy, Goto, Good, SuInv, Types, SeenRec
  <2>3. CASE PollTimeout(r) \/ LockAsk(r)
    BY <1>1, <1>2, <1>6, <2>3 DEF PollTimeout, LockAsk, Goto, Good, Current, SuInv, Types
  <2>4. CASE pc'[r] = "closed"
    BY <2>4 DEF Good
  <2> QED
    BY <2>1, <2>2, <2>3, <2>4 DEF StartFails, Fork, Goto, SuInv, Types
<1>7. \A q \in Requests : q # r /\ Good(q) => Good(q)'
  BY <1>1, <1>2, <1>3 DEF Good, Current
<1>8. \A q \in Requests : Busy(q)' => Busy(q) /\ uid'[q] = uid[q] /\ clean'[q] = clean[q]
  BY <1>3, <1>4 DEF Busy
<1>9. AllGood'
  <2> SUFFICES ASSUME NEW p \in Requests, NEW q \in Requests, clean'[p], Busy(p)', uid'[q] = uid'[p]
               PROVE  Good(q)'
    BY DEF AllGood
  <2>1. CASE q = r /\ pc'[r] = "closed"
    BY <2>1 DEF Good
  <2>2. CASE uid'[q] = uid[q]
    BY <1>6, <1>7, <1>8, <2>2 DEF FreshInv, AllGood
  <2> QED
    BY <1>3, <1>4, <2>1, <2>2
<1>10. CacheGood' /\ NotQuiet'
  BY <1>1, <1>2, <1>8 DEF FreshInv, CacheGood, NotQuiet, Current
<1>11. \A u \in Uids : Dirty(u) => Dirty(u)'
  <2>1. Busy(r) => Busy(r)'
    BY DEF StartFails, CheckFresh, ReadSettings, ReadPolicy, PollTimeout, LockAsk, Fork, Goto, SuInv,
           Types, Busy
  <2>2. \A q \in Requests : Busy(q) => Busy(q)'
    BY <1>3, <2>1 DEF Busy
  <2> QED
    BY <1>8, <2>2 DEF Dirty
<1>12. OldEnough'
  BY <1>1, <1>2, <1>11 DEF FreshInv, OldEnough, Current
<1>13. GrantGood'
  BY <1>2, <1>3, <1>4 DEF FreshInv, GrantGood
<1> QED
  BY <1>5, <1>9, <1>10, <1>12, <1>13 DEF FreshInv

\* A request comes.  If its uid has been quiet, a cached info that is not current
\* is too old, and all that are handled are clean.
LEMMA FreshBegin ==
    ASSUME SuInv, FreshInv, NEW r \in Requests, NEW u \in Uids, Start(r, u)
    PROVE  FreshInv'
<1>1. UNCHANGED <<settings, cached_su_info, infos, age, seen, quiet>>
  BY DEF Start, Begin
<1>2. DeniedSet' = DeniedSet /\ cfg' = cfg /\ policies' = policies
  BY <1>1, SameDenied DEF settings
<1>3. \A q \in Requests : q # r => /\ pc'[q] = pc[q] /\ uid'[q] = uid[q] /\ info'[q] = info[q]
                                   /\ clean'[q] = clean[q]
  BY DEF Start, Begin, Goto, SuInv, Types, FreshInv, FreshTypes
<1>4. /\ pc[r] = "idle" /\ pc'[r] \in {"fresh", "settings"} /\ uid'[r] = u
      /\ pc'[r] = "fresh" => info'[r] = cached_su_info /\ infos[cached_su_info].uid = u
      /\ clean'[r] <=> quiet[u] = FreshFor
  BY DEF Start, Begin, Goto, SuInv, Types, FreshInv, FreshTypes
<1>5. FreshTypes'
  <2>1. clean' \in [Requests -> BOOLEAN]
    BY DEF Start, Begin, FreshInv, FreshTypes
  <2> QED
    BY <1>1, <1>3, <1>4, <2>1 DEF FreshInv, FreshTypes
<1>6. \A q \in Requests : q # r /\ Good(q) => Good(q)'
  BY <1>1, <1>2, <1>3 DEF Good, Current
<1>7. \A q \in Requests : q # r => (Busy(q)' <=> Busy(q))
  BY <1>3 DEF Busy
<1>8. quiet[u] = FreshFor => ~ Dirty(u)
  BY SuAssumption DEF FreshInv, NotQuiet, Dirty
<1>9. quiet[u] = FreshFor /\ infos[cached_su_info].uid = u
        => Current(cached_su_info) \/ age[cached_su_info] = FreshFor
  BY <1>8, SuAssumption DEF FreshInv, FreshTypes, OldEnough, SuInv, Types
<1>10. CacheGood'
  BY <1>1, <1>2, <1>3, <1>4, <1>7, <1>9 DEF FreshInv, CacheGood, Current
<1>11. AllGood'
  <2> SUFFICES ASSUME NEW p \in Requests, NEW q \in Requests, clean'[p], Busy(p)', uid'[q] = uid'[p]
               PROVE  Good(q)'
    BY DEF AllGood
  <2>1. CASE q = r
    <3>1. infos[cached_su_info].uid = u => Current(cached_su_info) \/ age[cached_su_info] = FreshFor
      BY <1>3, <1>4, <1>7, <1>9, <2>1 DEF FreshInv, CacheGood
    <3> QED
      BY <1>1, <1>2, <1>4, <2>1, <3>1 DEF Good, Current
  <2>2. CASE q # r /\ p # r
    BY <1>3, <1>6, <1>7, <2>2 DEF FreshInv, AllGood
  <2>3. CASE q # r /\ p = r
    <3>1. uid[q] = u /\ quiet[u] = FreshFor
      BY <1>3, <1>4, <2>3
    <3>2. CASE Busy(q)
      <4>1. clean[q]
        BY <1>8, <3>1, <3>2 DEF Dirty
      <4> QED
        BY <1>6, <2>3, <3>2, <4>1 DEF FreshInv, AllGood
    <3>3. CASE ~ Busy(q)
      BY <1>3, <2>3, <3>3 DEF Good, Busy
    <3> QED
      BY <3>2, <3>3
  <2> QED
    BY <2>1, <2>2, <2>3
<1>12. NotQuiet'
  <2>1. ~ clean'[r] => quiet[u] < FreshFor
    BY <1>4, SuAssumption DEF FreshInv, FreshTypes
  <2> QED
    BY <1>1, <1>3, <1>4, <1>7, <2>1 DEF FreshInv, NotQuiet
<1>13. \A v \in Uids : Dirty(v) => Dirty(v)'
  <2>1. ~ Busy(r)
    BY <1>4 DEF Busy
  <2> QED
    BY <1>3, <1>7, <2>1 DEF Dirty
<1>14. OldEnough'
  BY <1>1, <1>2, <1>13 DEF FreshInv, OldEnough, Current
<1>15. GrantGood'
  BY <1>2, <1>3, <1>4 DEF FreshInv, GrantGood
<1> QED
  BY <1>5, <1>10, <1>11, <1>12, <1>14, <1>15 DEF FreshInv

\* root does not use the cache.
LEMMA FreshRoot ==
    ASSUME SuInv, FreshInv, NEW r \in Requests, StartRoot(r)
    PROVE  FreshInv'
<1>1. UNCHANGED <<settings, cached_su_info, seen, quiet>>
  BY DEF StartRoot, Begin
<1>2. DeniedSet' = DeniedSet /\ cfg' = cfg /\ policies' = policies
  BY <1>1, SameDenied DEF settings
<1>3. \A q \in Requests : q # r => /\ pc'[q] = pc[q] /\ uid'[q] = uid[q] /\ info'[q] = info[q]
                                   /\ clean'[q] = clean[q]
  BY DEF StartRoot, Begin, Goto, SuInv, Types, FreshInv, FreshTypes
<1>4. /\ pc[r] = "idle" /\ pc'[r] = "lock" /\ uid'[r] = AID_ROOT /\ ~ clean'[r]
      /\ AID_ROOT \notin Uids /\ infos[r].uid = NoUid /\ infos'[r].uid = AID_ROOT
  BY SuAssumption, Zero DEF StartRoot, Begin, Goto, SuInv, Types, Unbuilt, FreshInv, FreshTypes, allow,
                            SuInfo, AID_ROOT
<1>5. \A i \in Infos : i # r => infos'[i] = infos[i] /\ age'[i] = age[i]
  BY DEF StartRoot, SuInv, Types, FreshInv, FreshTypes
<1>6. FreshTypes'
  <2>1. clean' \in [Requests -> BOOLEAN] /\ age' \in [Infos -> 0..FreshFor]
    BY SuAssumption, Zero DEF StartRoot, Begin, FreshInv, FreshTypes
  <2> QED
    BY <1>1, <1>3, <1>4, <2>1 DEF FreshInv, FreshTypes
<1>7. \A q \in Requests : q # r => (Busy(q)' <=> Busy(q))
  BY <1>3 DEF Busy
<1>8. \A q \in Requests : pc[q] \in {"fresh", "lock", "poll", "read"} => info[q] # r
  BY <1>4, Nobody DEF SuInv, OwnInfo, Looking
<1>9. \A q \in Requests : q # r /\ Good(q) => Good(q)'
  <2> SUFFICES ASSUME NEW q \in Requests, q # r, Good(q) PROVE Good(q)'
    OBVIOUS
  <2>1. /\ pc'[q] = pc[q] /\ seen'[q] = seen[q] /\ info'[q] = info[q] /\ uid'[q] = uid[q]
        /\ DeniedSet' = DeniedSet /\ cfg' = cfg /\ policies' = policies
    BY <1>1, <1>2, <1>3
  <2>2. CASE pc[q] \in {"fresh", "lock", "poll", "read"}
    <3>1. info[q] \in Infos
      BY DEF SuInv, Types
    <3>2. infos'[info[q]] = infos[info[q]] /\ age'[info[q]] = age[info[q]]
      BY <1>5, <1>8, <2>2, <3>1
    <3> QED
      BY <2>1, <2>2, <3>2 DEF Good, Current
  <2>3. CASE pc[q] \notin {"fresh", "lock", "poll", "read"}
    BY <2>1, <2>3 DEF Good
  <2> QED
    BY <2>2, <2>3
<1>10. AllGood'
  BY <1>3, <1>4, <1>6, <1>7, <1>9 DEF FreshInv, FreshTypes, AllGood
<1>11. \A v \in Uids : Dirty(v) => Dirty(v)'
  <2>1. ~ Busy(r)
    BY <1>4 DEF Busy
  <2> QED
    BY <1>3, <1>7, <2>1 DEF Dirty
<1>12. infos'[cached_su_info].uid \in Uids => cached_su_info # r
  BY <1>4
<1>13. CacheGood' /\ OldEnough'
  BY <1>1, <1>2, <1>3, <1>4, <1>5, <1>6, <1>7, <1>11, <1>12
     DEF FreshInv, FreshTypes, CacheGood, OldEnough, Current, SuInv, Types
<1>14. NotQuiet' /\ GrantGood'
  BY <1>1, <1>2, <1>3, <1>4, <1>7 DEF FreshInv, NotQuiet, GrantGood
<1> QED
  BY <1>6, <1>10, <1>13, <1>14 DEF FreshInv

\* A new info in the cache is current, or built by a request that is not clean.
LEMMA FreshStore ==
    ASSUME SuInv, FreshInv, NEW r \in Requests, NEW new \in InfoRec, new.uid = uid[r],
           pc[r] \in {"settings", "policy", "store"}, Store(r, new),
           Good(r) => new.policy = "Deny" \/ uid[r] \notin DeniedSet
    PROVE  FreshInv'
<1>1. UNCHANGED <<settings, uid, quiet, clean>> /\ cached_su_info' = r
  BY DEF Store, history
<1>2. DeniedSet' = DeniedSet /\ cfg' = cfg /\ policies' = policies
  BY <1>1, SameDenied DEF settings
<1>3. \A q \in Requests : q # r => pc'[q] = pc[q] /\ seen'[q] = seen[q] /\ info'[q] = info[q]
  BY DEF Store, Goto, SuInv, Types
<1>4. pc'[r] = "lock" /\ info'[r] = r /\ uid[r] \in Uids /\ infos[r].uid = NoUid
  BY DEF Store, Goto, SuInv, Types, Looking, Unbuilt
<1>5. infos'[r] = new /\ age'[r] = 0
  BY Zero DEF Store, Referenced, Timestamps, Refs, SuInv, Types, FreshInv, FreshTypes
<1>6. \A q \in Requests : q # r /\ info[q] # r =>
        infos'[info[q]] = infos[info[q]] /\ age'[info[q]] = age[info[q]]
  <2> SUFFICES ASSUME NEW q \in Requests, q # r, info[q] # r
               PROVE  infos'[info[q]] = infos[info[q]] /\ age'[info[q]] = age[info[q]]
    OBVIOUS
  <2>1. info'[q] = info[q] /\ info[q] \in Refs /\ info[q] \in Infos
    BY <1>3 DEF Refs, SuInv, Types
  <2> QED
    BY <2>1 DEF Store, Referenced, Timestamps, SuInv, Types, FreshInv, FreshTypes
<1>7. \A q \in Requests : q # r /\ pc[q] \in {"fresh", "lock", "poll", "read"} => info[q] # r
  BY <1>4, Nobody DEF SuInv, OwnInfo, Looking
<1>8. FreshTypes'
  <2>1. age' \in [Infos -> 0..FreshFor]
    BY SuAssumption, Zero DEF Store, Timestamps, FreshInv, FreshTypes
  <2> QED
    BY <1>1, <2>1 DEF FreshInv, FreshTypes
<1>9. \A q \in Requests : Busy(q)' <=> Busy(q)
  BY <1>3, <1>4 DEF Busy
<1>10. Good(r) => Current(r)' /\ Good(r)'
  BY <1>1, <1>2, <1>4, <1>5 DEF Good, Current
<1>11. \A q \in Requests : q # r /\ Good(q) => Good(q)'
  <2> SUFFICES ASSUME NEW q \in Requests, q # r, Good(q) PROVE Good(q)'
    OBVIOUS
  <2>1. /\ pc'[q] = pc[q] /\ seen'[q] = seen[q] /\ info'[q] = info[q] /\ uid'[q] = uid[q]
        /\ DeniedSet' = DeniedSet /\ cfg' = cfg /\ policies' = policies
    BY <1>1, <1>2, <1>3
  <2>2. CASE pc[q] \in {"fresh", "lock", "poll", "read"}
    <3>1. infos'[info[q]] = infos[info[q]] /\ age'[info[q]] = age[info[q]]
      BY <1>6, <1>7, <2>2
    <3> QED
      BY <2>1, <2>2, <3>1 DEF Good, Current
  <2>3. CASE pc[q] \notin {"fresh", "lock", "poll", "read"}
    BY <2>1, <2>3 DEF Good
  <2> QED
    BY <2>2, <2>3
<1>12. AllGood'
  BY <1>1, <1>9, <1>10, <1>11 DEF FreshInv, AllGood
<1>13. CacheGood'
  <2>1. infos'[cached_su_info'].uid = uid[r]
    BY <1>1, <1>5
  <2>2. \A p \in Requests : clean[p] /\ Busy(p) /\ uid[p] = uid[r] => Current(r)'
    BY <1>10 DEF FreshInv, AllGood
  <2> QED
    BY <1>1, <1>9, <2>1, <2>2 DEF CacheGood, Current
<1>14. OldEnough'
  <2>1. Busy(r) /\ Busy(r)'
    BY <1>4 DEF Busy
  <2>2. clean[r] => Current(r)'
    BY <1>10, <2>1 DEF FreshInv, AllGood
  <2>3. ~ clean[r] => Dirty(uid[r])'
    BY <1>1, <2>1 DEF Dirty
  <2>4. ~ Current(r)' => Dirty(infos[cached_su_info].uid)'
    <3>1. infos'[cached_su_info'].uid = uid[r]
      BY <1>1, <1>5
    <3> QED
      BY <1>1, <2>1, <2>2, <3>1 DEF Dirty
  <2> QED
    BY <1>1, <2>4 DEF OldEnough, Current
<1>15. NotQuiet' /\ GrantGood'
  BY <1>1, <1>2, <1>3, <1>4, <1>9 DEF FreshInv, NotQuiet, GrantGood
<1> QED
  BY <1>8, <1>12, <1>13, <1>14, <1>15 DEF FreshInv

\* A verdict refreshes the info, and ends the quiet of its uid.
LEMMA FreshDecide ==
    ASSUME SuInv, FreshInv, NEW r \in Requests, NEW policy \in SuPolicy,
           pc[r] \in {"lock", "poll", "read"}, Decide(r, policy), UNCHANGED <<settings, seen, edits>>,
           policy # infos[info[r]].policy => infos[info[r]].policy = "Query"
    PROVE  FreshInv'
<1> DEFINE i0 == info[r]
<1>1. DeniedSet' = DeniedSet /\ cfg' = cfg /\ policies' = policies /\ cached_su_info' = cached_su_info
  BY SameDenied DEF settings, Decide
<1>2. \A q \in Requests : q # r => /\ pc'[q] = pc[q] /\ uid'[q] = uid[q] /\ info'[q] = info[q]
                                   /\ clean'[q] = clean[q]
  BY DEF Decide, Goto, SuInv, Types, FreshInv, FreshTypes
<1>3. /\ pc'[r] = IF policy = "Deny" THEN "closed" ELSE "granted"
      /\ uid'[r] = IF policy = "Deny" THEN NoUid ELSE uid[r]
      /\ clean'[r] <=> clean[r] /\ policy # "Deny"
  BY DEF Decide, Goto, SuInv, Types, FreshInv, FreshTypes
<1>4. ~ Busy(r)' /\ Busy(r) /\ uid[r] \in Clients /\ i0 \in Infos /\ infos[i0].uid = uid[r]
  BY <1>3 DEF Busy, SuInv, Types, Looking, OwnInfo
<1>5. \A q \in Requests : q # r => (Busy(q)' <=> Busy(q))
  BY <1>2 DEF Busy
<1>6. \A i \in Infos : i \in Refs =>
        /\ infos'[i].uid = infos[i].uid
        /\ i # i0 => infos'[i].policy = infos[i].policy /\ age'[i] = age[i]
        /\ i = i0 => infos'[i].policy = policy /\ age'[i] = 0
  BY <1>4 DEF Decide, Referenced, Timestamps, SuInv, Types, InfoRec, FreshInv, FreshTypes
<1>7. cached_su_info \in Refs /\ \A q \in Requests : q # r => info[q] \in Refs
  BY <1>1, <1>2 DEF Refs
<1>8. \A i \in Infos : i \in Refs /\ Current(i) => Current(i)'
  <2> SUFFICES ASSUME NEW i \in Infos, i \in Refs, Current(i) PROVE Current(i)'
    OBVIOUS
  <2>1. CASE i # i0
    BY <1>1, <1>6, <2>1 DEF Current
  <2>2. CASE i = i0
    BY <1>1, <1>6, <2>2 DEF Current
  <2> QED
    BY <2>1, <2>2
<1>9. FreshTypes'
  <2>1. age' \in [Infos -> 0..FreshFor]
    BY <1>4, SuAssumption DEF Decide, Timestamps, FreshInv, FreshTypes
  <2>2. quiet' \in [Uids -> 0..FreshFor] /\ clean' \in [Requests -> BOOLEAN]
    BY SuAssumption DEF Decide, FreshInv, FreshTypes
  <2> QED
    BY <1>2, <1>3, <2>1, <2>2 DEF FreshInv, FreshTypes
\* Another handler of a good uid stays good: if it shares the info, r was good.
<1>10. ASSUME NEW p \in Requests, NEW q \in Requests, p # r, q # r, clean[p], Busy(p),
              uid[q] = uid[p], Good(q)
       PROVE  Good(q)'
  <2>1. CASE info[q] # i0
    <3>1. info[q] \in Infos /\ info[q] \in Refs
      BY <1>7, <1>10 DEF SuInv, Types
    <3>2. age'[info[q]] = age[info[q]] /\ (Current(info[q]) => Current(info[q])')
      <4>1. infos'[info[q]].uid = infos[info[q]].uid /\ infos'[info[q]].policy = infos[info[q]].policy
        BY <1>6, <2>1, <3>1
      <4>2. info'[q] = info[q]
        BY <1>2, <1>10
      <4> QED
        BY <1>1, <1>6, <2>1, <3>1, <4>1, <4>2 DEF Current
    <3>3. pc'[q] = pc[q] /\ uid'[q] = uid[q] /\ info'[q] = info[q] /\ seen' = seen
      BY <1>2, <1>10
    <3> QED
      BY <1>1, <1>10, <3>2, <3>3 DEF Good
  <2>2. CASE info[q] = i0 /\ pc[q] \in {"fresh", "lock", "poll", "read"}
    <3>1. uid[q] = uid[r]
      BY <1>4, <1>10, <2>2 DEF SuInv, OwnInfo
    <3>2. Current(i0)
      BY <1>10, <3>1 DEF FreshInv, AllGood, Good
    <3> QED
      BY <1>1, <1>2, <1>4, <1>7, <1>8, <1>10, <2>2, <3>2 DEF Good
  <2>3. CASE pc[q] \notin {"fresh", "lock", "poll", "read"}
    BY <1>1, <1>2, <1>10, <2>3 DEF Good
  <2> QED
    BY <2>1, <2>2, <2>3
<1>11. AllGood'
  <2> SUFFICES ASSUME NEW p \in Requests, NEW q \in Requests, clean'[p], Busy(p)', uid'[q] = uid'[p]
               PROVE  Good(q)'
    BY DEF AllGood
  <2>1. p # r /\ clean[p] /\ Busy(p) /\ uid'[p] = uid[p]
    BY <1>2, <1>4, <1>5
  <2>2. CASE q = r
    BY <1>3, <2>2 DEF Good
  <2>3. CASE q # r
    BY <1>2, <1>10, <2>1, <2>3 DEF FreshInv, AllGood
  <2> QED
    BY <2>2, <2>3
<1>12. CacheGood'
  <2> SUFFICES ASSUME NEW p \in Requests, clean'[p], Busy(p)', infos'[cached_su_info].uid = uid'[p]
               PROVE  Current(cached_su_info)' \/ age'[cached_su_info] = FreshFor
    BY <1>1 DEF CacheGood
  <2>1. p # r /\ clean[p] /\ Busy(p) /\ uid'[p] = uid[p] /\ cached_su_info \in Infos
    BY <1>2, <1>4, <1>5 DEF SuInv, Types
  <2>2. infos[cached_su_info].uid = uid[p]
    BY <1>6, <1>7, <2>1
  <2>3. Current(cached_su_info) => Current(cached_su_info)'
    BY <1>1, <1>7, <1>8, <2>1
  <2>4. CASE cached_su_info = i0
    <3>1. Current(i0)
      BY <1>4, <2>1, <2>2, <2>4 DEF FreshInv, AllGood, Good
    <3> QED
      BY <2>3, <2>4, <3>1
  <2>5. CASE cached_su_info # i0
    BY <1>6, <1>7, <2>1, <2>2, <2>3, <2>5 DEF FreshInv, CacheGood
  <2> QED
    BY <2>4, <2>5
<1>13. \A u \in Uids : quiet'[u] = IF u = uid[r] THEN 0 ELSE quiet[u]
  BY DEF Decide
<1>14. NotQuiet'
  <2> SUFFICES ASSUME NEW q \in Requests, Busy(q)', uid'[q] \in Uids, ~ clean'[q]
               PROVE  quiet'[uid'[q]] < FreshFor
    BY DEF NotQuiet
  <2>1. Busy(q) /\ uid'[q] = uid[q] /\ ~ clean[q]
    BY <1>2, <1>4, <1>5
  <2>2. quiet[uid[q]] < FreshFor
    BY <2>1 DEF FreshInv, NotQuiet
  <2>3. 0 < FreshFor
    BY SuAssumption
  <2> QED
    BY <1>13, <2>1, <2>2, <2>3
<1>15. OldEnough'
  <2> SUFFICES ASSUME infos'[cached_su_info].uid \in Uids, ~ Current(cached_su_info)'
               PROVE  \/ quiet'[infos'[cached_su_info].uid] <= age'[cached_su_info]
                      \/ Dirty(infos[cached_su_info].uid)'
    BY <1>1 DEF OldEnough
  <2>0. cached_su_info \in Infos /\ cached_su_info \in Refs
    BY <1>7 DEF SuInv, Types
  <2>1. /\ cached_su_info \in Infos /\ infos'[cached_su_info].uid = infos[cached_su_info].uid
        /\ ~ Current(cached_su_info)
    <3>1. infos'[cached_su_info].uid = infos[cached_su_info].uid
      BY <1>6, <2>0
    <3>2. Current(cached_su_info) => Current(cached_su_info)'
      <4> DEFINE c == cached_su_info
      <4>1. c # i0 => infos'[c].policy = infos[c].policy
        BY <1>6, <2>0
      <4>2. c = i0 => infos'[c].policy = policy
        BY <1>6, <2>0
      <4> QED
        BY <1>1, <2>0, <3>1, <4>1, <4>2 DEF Current
    <3> QED
      BY <2>0, <3>1, <3>2
  <2>2. CASE infos[cached_su_info].uid = uid[r]
    <3>1. quiet'[infos'[cached_su_info].uid] = 0
      BY <1>13, <2>1, <2>2
    <3>2. age'[cached_su_info] \in 0..FreshFor
      BY <1>9, <2>1 DEF FreshTypes
    <3> QED
      BY <3>1, <3>2, SuAssumption
  <2>3. CASE infos[cached_su_info].uid # uid[r]
    <3>1. quiet'[infos'[cached_su_info].uid] = quiet[infos[cached_su_info].uid]
      BY <1>13, <2>1, <2>3
    <3>2. age'[cached_su_info] = age[cached_su_info]
      BY <1>4, <1>6, <1>7, <2>1, <2>3
    <3>3. Dirty(infos[cached_su_info].uid) => Dirty(infos[cached_su_info].uid)'
      BY <1>1, <1>2, <1>5, <2>1, <2>3 DEF Dirty
    <3> QED
      BY <2>1, <3>1, <3>2, <3>3 DEF FreshInv, OldEnough
  <2> QED
    BY <2>2, <2>3
<1>16. GrantGood'
  <2>1. ASSUME clean[r], policy # "Deny" PROVE uid[r] \notin DeniedSet
    <3>1. Current(i0)
      BY <1>4, <2>1 DEF FreshInv, AllGood, Good
    <3> QED
      BY <1>4, <2>1, <3>1 DEF Current
  <2> QED
    BY <1>1, <1>2, <1>3, <2>1 DEF FreshInv, GrantGood
<1> QED
  BY <1>9, <1>11, <1>12, <1>14, <1>15, <1>16 DEF FreshInv

\* The clock: an info of a uid that nobody asks for grows old as its uid is quiet.
LEMMA FreshTick == ASSUME SuInv, FreshInv, Tick PROVE FreshInv'
<1>1. UNCHANGED <<settings, cached_su_info, infos, pc, uid, info, seen, clean>>
  BY DEF Tick, handlers
<1>2. DeniedSet' = DeniedSet /\ cfg' = cfg /\ policies' = policies
  BY <1>1, SameDenied DEF settings
<1>3. \A n \in 0..FreshFor : Older(n) \in 0..FreshFor /\ n <= Older(n) /\ (n = FreshFor => Older(n) = n)
  BY SuAssumption DEF Older
<1>4. \A m, n \in 0..FreshFor : m <= n => Older(m) <= Older(n)
  BY SuAssumption DEF Older
<1>5. /\ \A i \in Infos : infos[i].uid # NoUid => age'[i] = Older(age[i])
      /\ \A u \in Uids : quiet'[u] = IF Active(u) THEN 0 ELSE Older(quiet[u])
  BY DEF Tick
<1>6. FreshTypes'
  <2>1. age' \in [Infos -> 0..FreshFor]
    BY <1>3, SuAssumption DEF Tick, FreshInv, FreshTypes
  <2>2. quiet' \in [Uids -> 0..FreshFor]
    BY <1>3, SuAssumption DEF Tick, FreshInv, FreshTypes
  <2> QED
    BY <1>1, <2>1, <2>2 DEF FreshInv, FreshTypes
<1>7. \A i \in Infos : infos[i].uid # NoUid /\ age[i] = FreshFor => age'[i] = FreshFor
  BY <1>3, <1>5 DEF FreshInv, FreshTypes
<1>8. \A r \in Requests : Busy(r) => Active(uid[r])
  BY DEF Busy, Active, Ended
<1>9. \A q \in Requests : Good(q) => Good(q)'
  <2>1. \A q \in Requests : pc[q] = "fresh" => info[q] \in Infos /\ infos[info[q]].uid # NoUid
    BY Nobody DEF SuInv, Types, OwnInfo, Looking
  <2> QED
    BY <1>1, <1>2, <1>7, <2>1 DEF Good, Current
<1>10. AllGood'
  BY <1>1, <1>9 DEF FreshInv, AllGood, Busy
<1>11. CacheGood'
  <2>1. \A r \in Requests : clean[r] => uid[r] # NoUid
    BY Nobody DEF FreshInv, FreshTypes
  <2> QED
    BY <1>1, <1>2, <1>7, <2>1 DEF FreshInv, CacheGood, Busy, Current, SuInv, Types
<1>12. NotQuiet'
  <2> SUFFICES ASSUME NEW r \in Requests, Busy(r)', uid'[r] \in Uids PROVE quiet'[uid'[r]] < FreshFor
    BY DEF NotQuiet
  <2>1. uid' = uid /\ Active(uid[r])
    BY <1>1, <1>8 DEF Busy
  <2>2. quiet'[uid[r]] = 0
    BY <1>5, <2>1
  <2> QED
    BY <2>1, <2>2, SuAssumption
<1>13. OldEnough'
  <2> DEFINE c == cached_su_info
             u == infos[c].uid
  <2> SUFFICES ASSUME u \in Uids, ~ Current(c) PROVE quiet'[u] <= age'[c]
    BY <1>1, <1>2 DEF OldEnough, Current
  <2>1. c \in Infos /\ u # NoUid /\ age[c] \in 0..FreshFor /\ quiet[u] \in 0..FreshFor
    BY Nobody DEF SuInv, Types, FreshInv, FreshTypes
  <2>2. CASE Active(u)
    <3>1. quiet'[u] = 0
      BY <1>5, <2>2
    <3>2. age'[c] \in 0..FreshFor
      BY <1>6, <2>1 DEF FreshTypes
    <3> QED
      BY <3>1, <3>2, SuAssumption
  <2>3. CASE ~ Active(u)
    <3>1. ~ Dirty(u)
      BY <1>8, <2>3 DEF Dirty
    <3>2. quiet[u] <= age[c]
      BY <3>1 DEF FreshInv, OldEnough
    <3> QED
      BY <1>4, <1>5, <2>1, <2>3, <3>2
  <2> QED
    BY <2>2, <2>3
<1>14. GrantGood'
  BY <1>1, <1>2 DEF FreshInv, GrantGood
<1> QED
  BY <1>6, <1>10, <1>11, <1>12, <1>13, <1>14 DEF FreshInv

\* Every step keeps the invariant.
LEMMA FreshStep == SuInv /\ FreshInv /\ [Next]_vars => FreshInv'
<1> SUFFICES ASSUME SuInv, FreshInv, [Next]_vars PROVE FreshInv'
  OBVIOUS
<1>1. ASSUME NEW r \in Requests, StoreInfo(r) PROVE FreshInv'
  <2>1. uid[r] \in Clients /\ seen[r].row \in RootSettings
    BY <1>1, Nobody DEF StoreInfo, SuInv, Looking, Types, SeenRec
  <2> DEFINE new == build_su_info(uid[r], seen[r].cfg, seen[r].row)
  <2>2. new \in InfoRec /\ new.uid = uid[r]
    BY <2>1, Built
  <2>3. Good(r) => new.policy = "Deny" \/ uid[r] \notin DeniedSet
    BY <1>1 DEF StoreInfo, Good, DeniedSet
  <2>4. pc[r] \in {"settings", "policy", "store"} /\ Store(r, new)
    BY <1>1 DEF StoreInfo
  <2> HIDE DEF new
  <2> QED
    BY <2>2, <2>3, <2>4, FreshStore
<1>2. ASSUME NEW r \in Requests, StoreDeny(r) PROVE FreshInv'
  <2>1. deny(uid[r]) \in InfoRec /\ deny(uid[r]).uid = uid[r] /\ deny(uid[r]).policy = "Deny"
    BY <1>2 DEF SuInv, Types, deny, SuInfo, InfoRec, SuPolicy
  <2> QED
    BY <1>2, <2>1, FreshStore DEF StoreDeny
<1>3. ASSUME NEW r \in Requests, Verdict(r) PROVE FreshInv'
  BY <1>3, VerdictHeld, FreshDecide DEF Verdict
<1>4. CASE EditSettings
  <2>1. /\ UNCHANGED <<cached_su_info, infos, age, pc, uid, info, seen>>
        /\ \A r \in Requests : ~ clean'[r]
        /\ \A u \in Uids : quiet'[u] = 0
        /\ clean' \in [Requests -> BOOLEAN] /\ quiet' \in [Uids -> 0..FreshFor]
    BY <1>4, SuAssumption DEF EditSettings, cache, handlers
  <2>2. FreshTypes'
    BY <2>1 DEF FreshInv, FreshTypes
  <2>3. AllGood' /\ CacheGood' /\ GrantGood'
    BY <2>1 DEF AllGood, CacheGood, GrantGood
  <2>4. NotQuiet'
    <3> SUFFICES ASSUME NEW r \in Requests, uid'[r] \in Uids PROVE quiet'[uid'[r]] < FreshFor
      BY DEF NotQuiet
    <3>1. quiet'[uid'[r]] = 0
      BY <2>1
    <3> QED
      BY <3>1, SuAssumption
  <2>5. OldEnough'
    <3> DEFINE c == cached_su_info
               u == infos[c].uid
    <3> SUFFICES ASSUME u \in Uids PROVE quiet'[u] <= age'[c]
      BY <2>1 DEF OldEnough
    <3>1. quiet'[u] = 0 /\ age'[c] \in 0..FreshFor
      BY <2>1 DEF FreshInv, FreshTypes, SuInv, Types
    <3> QED
      BY <3>1, SuAssumption
  <2> QED
    BY <2>2, <2>3, <2>4, <2>5 DEF FreshInv
<1>5. CASE UNCHANGED vars
  <2>1. DeniedSet' = DeniedSet
    BY <1>5, SameDenied DEF vars
  <2>2. UNCHANGED <<cfg, policies, cached_su_info, infos, age, pc, uid, info, seen, quiet, clean>>
    BY <1>5 DEF vars, settings, cache, handlers, history
  <2> QED
    BY <2>1, <2>2 DEF FreshInv, FreshTypes, AllGood, CacheGood, NotQuiet, OldEnough, GrantGood, Good,
                      Current, Busy, Dirty
<1> QED
  BY <1>1, <1>2, <1>3, <1>4, <1>5, FreshHandler, FreshBegin, FreshRoot, FreshTick
     DEF Next, Step, Verdict

\* NoStaleGrant always holds: with is_fresh and refresh as they are, for any uids,
\* any number of requests and any changes of the settings, a request whose uid was
\* not served for as long as an info is fresh is granted by current settings only.
THEOREM NeverStale == Spec => []NoStaleGrant
<1>1. SuInv /\ FreshInv /\ [Next]_vars => SuInv' /\ FreshInv'
  BY SuStep, FreshStep
<1> QED
  BY SuStart, FreshStart, GrantGoodEnough, <1>1, PTL DEF Spec

\* GrantsSound always holds: the info that get_su_info hands out is the client's own
\* and not stale.
THEOREM GrantsAreSound == Spec => []GrantsSound
<1>1. OwnInfo /\ NoStaleGrant => GrantsSound
  BY DEF GrantsSound
<1> QED
  BY OwnInfoAlways, NeverStale, <1>1, PTL
=============================================================================
