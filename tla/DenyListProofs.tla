--------------------------- MODULE DenyListProofs ---------------------------
(***************************************************************************)
(* The denylist of a daemon with any number of threads: the table follows  *)
(* the maps, and the setting and the logcat threads follow the flag.       *)
(***************************************************************************)
EXTENDS DenyMapsProofs

-----------------------------------------------------------------------------
\* The DELETE of the rescan, and the rows that ensure_data reads.
LEMMA RowsDeleted ==
    ASSUME NEW T, NEW p, NEW gone, NEW S, S = {r \in T : r[1] \notin gone}
    PROVE  RowsIn(S, p) = IF p \in gone THEN {} ELSE RowsIn(T, p)
BY DEF RowsIn

\* Loading a table gives every package the processes its rows name.
LEMMA RowsRead ==
    ASSUME NEW T, NEW p
    PROVE  ProcsOf(FromRows(T), p) = RowsIn(T, p)
BY DEF RowsIn, FromRows, ProcsOf

\* A step that changes neither the rows nor the processes of a package, and no
\* statement on it, keeps the two together.
SamePending(p) ==
    \A u \in Threads :
        /\ Pending(u, p)' <=> Pending(u, p)
        /\ Pending(u, p) => th'[u].op = th[u].op /\ th'[u].proc = th[u].proc

SameFor(p) ==
    /\ Rows(p)' = Rows(p) /\ ProcsOf(maps', p) = ProcsOf(maps, p)
    /\ SamePending(p)

\* A step that leaves a package, its rows and its writers alone keeps its mirror.
LEMMA SameKeepsMirror ==
    ASSUME NEW p, Mirror(p), SameFor(p)
    PROVE  Mirror(p)'
<1>1. ASSUME NEW u \in Threads, Pending(u, p)'
      PROVE  RowsAfter(u, p)' = ProcsOf(maps', p)
  BY <1>1 DEF Mirror, SameFor, SamePending, RowsAfter
<1>2. ASSUME \A u \in Threads : ~ Pending(u, p)'
      PROVE  Rows(p)' = ProcsOf(maps', p)
  BY <1>2 DEF Mirror, SameFor, SamePending
<1>. QED
  BY <1>1, <1>2 DEF Mirror

\* The statement of a thread that is not at a statement on p is none after a step either.
LEMMA PendingSame ==
    ASSUME JobInv, NEW p, NEW t \in Threads, th[t].pc # "db" \/ ~ Writes(t, p),
           \/ UNCHANGED th
           \/ Return(t)
           \/ \E pc \in {"locked", "spawn", "db"} : Goto(t, pc) /\ (pc # "db" \/ th[t].op \notin {"add", "rm"} \/ th[t].pkg # p)
           \/ \E j \in Jobs : th' = [th EXCEPT ![t] = j] /\ (j.pc # "db" \/ j.op \notin {"add", "rm"})
    PROVE  SamePending(p)
<1>1. CASE UNCHANGED th
  BY <1>1 DEF Pending, Writes, SamePending
<1>2. CASE Return(t)
  BY <1>2, Moves DEF Pending, Writes, SamePending
<1>3. CASE \E pc \in {"locked", "spawn", "db"} :
             Goto(t, pc) /\ (pc # "db" \/ th[t].op \notin {"add", "rm"} \/ th[t].pkg # p)
  BY <1>3, Moves DEF Pending, Writes, SamePending
<1>4. CASE \E j \in Jobs : th' = [th EXCEPT ![t] = j] /\ (j.pc # "db" \/ j.op \notin {"add", "rm"})
  BY <1>4, Moves DEF Pending, Writes, SamePending
<1>. QED
  BY <1>1, <1>2, <1>3, <1>4

\* scan_deny_apps and its DELETEs: a package that goes has its rows deleted, unless
\* somebody is at it or the DELETE fails, and then it is blurred.
LEMMA ScanKeepsRows ==
    ASSUME DbInv, NEW gone, DeleteGone(gone), NEW p, p \notin blurred'
    PROVE  /\ Rows(p)' = IF p \in gone THEN {} ELSE Rows(p)
           /\ p \in gone => ~ Busy(p)
<1>1. CASE gone = {}
  BY <1>1 DEF DeleteGone, dbVars, file, Rows, DenyTable, DbExec
<1>2. CASE gone # {} /\ DbError /\ blurred' = blurred \cup gone
  <2>1. tables' = tables /\ p \notin gone
    BY <1>2, DbFaultKeeps
  <2>. QED
    BY <2>1 DEF Rows, DenyTable
<1>3. CASE /\ gone # {} /\ DbExec("denylist", {r \in DenyTable : r[1] \notin gone})
           /\ blurred' = blurred \cup {q \in gone : Busy(q)}
  <2>1. tables'["denylist"].rows = {r \in DenyTable : r[1] \notin gone}
    BY <1>3, DbExecKeeps
  <2>2. Rows(p)' = IF p \in gone THEN {} ELSE Rows(p)
    BY <2>1, RowsDeleted DEF Rows, DenyTable
  <2>3. p \in gone => ~ Busy(p)
    BY <1>3
  <2>. QED
    BY <2>2, <2>3
<1>. QED
  BY <1>1, <1>2, <1>3 DEF DeleteGone

\* The rescans: of ls, of ZYGOTE_RESTART, and of the maps just read.
LEMMA ScanKeepsMirror ==
    ASSUME DbInv, JobInv, NEW t \in Threads, LsLocked(t) \/ ScanDone(t), maps.loaded, MapInv,
           NEW p \in Keys, p \notin blurred', Mirror(p)
    PROVE  Mirror(p)'
<1>1. maps' = scan_deny_apps(maps, installed) /\ DeleteGone(Gone(maps, installed)) /\ Return(t)
  BY DEF LsLocked, ScanDone
<1>2. th[t].op \in {"ls", "scan"}
  BY DEF LsLocked, ScanDone, InSection, At
<1>3. SamePending(p)
  BY <1>1, <1>2, PendingSame DEF Writes
<1>4. ProcsOf(maps', p) = IF p \in Gone(maps, installed) THEN {} ELSE ProcsOf(maps, p)
  <2>1. /\ installed \in Installations
        /\ maps = [procs |-> maps.procs, views |-> maps.views, stale |-> maps.stale, loaded |-> maps.loaded]
    BY DEF MapInv, MapsType
  <2>2. /\ \A q \in Keys \ Gone(maps, installed) : ProcsOf(maps', q) = ProcsOf(maps, q)
        /\ \A q \in Gone(maps, installed) : ProcsOf(maps', q) = {}
    BY <1>1, <2>1, RescanAll
  <2>. QED
    BY <2>2
<1>5. CASE p \notin Gone(maps, installed)
  <2>1. Rows(p)' = Rows(p)
    BY <1>1, <1>5, ScanKeepsRows
  <2>2. SameFor(p)
    BY <1>3, <1>4, <1>5, <2>1 DEF SameFor
  <2>. QED
    BY <2>2, SameKeepsMirror
<1>6. CASE p \in Gone(maps, installed)
  <2>1. Rows(p)' = {} /\ ~ Busy(p)
    BY <1>1, <1>6, ScanKeepsRows
  <2>2. \A u \in Threads : ~ Pending(u, p)
    BY <2>1 DEF Busy, Pending, Writes, Subject, Switches
  <2>3. \A u \in Threads : ~ Pending(u, p)'
    BY <1>3, <2>2 DEF SamePending
  <2>4. Rows(p)' = ProcsOf(maps', p)
    BY <1>4, <1>6, <2>1
  <2>. QED
    BY <2>3, <2>4 DEF Mirror
<1>. QED
  BY <1>5, <1>6

\* ensure_data starts from what the table holds.
LEMMA LoadMakesMirror ==
    ASSUME DbInv, JobInv, LoadedInv, MapInv, NEW t \in Threads, EnsureData(t),
           NEW p \in Keys, p \notin blurred'
    PROVE  Mirror(p)'
<1>. DEFINE M == FromRows(DenyTable)
<1>1. /\ maps' = scan_deny_apps(M, installed) /\ DeleteGone(Gone(M, installed))
      /\ th' = th /\ ~ maps.loaded
  BY DEF EnsureData
<1>2. \A u \in Threads : ~ Pending(u, p)'
  BY <1>1 DEF LoadedInv, Pending, Writes
<1>3. M = [procs |-> M.procs, views |-> M.views, stale |-> M.stale, loaded |-> M.loaded] /\ M.loaded
  BY DEF FromRows
<1>4. ProcsOf(M, p) = Rows(p)
  BY RowsRead DEF Rows
<1>. HIDE DEF M
<1>5. ProcsOf(maps', p) = IF p \in Gone(M, installed) THEN {} ELSE ProcsOf(M, p)
  BY <1>1, <1>3, RescanAll DEF MapInv
<1>6. Rows(p)' = IF p \in Gone(M, installed) THEN {} ELSE Rows(p)
  BY <1>1, ScanKeepsRows
<1>. QED
  BY <1>2, <1>4, <1>5, <1>6 DEF Mirror

\* The one command on p that is under way has no statement yet, and gets one.
LEMMA ChangeKeepsMirror ==
    ASSUME JobInv, MapInv, WriterInv, NEW t \in Threads, AddLocked(t) \/ RmLocked(t),
           NEW p \in Keys, p \notin blurred, Mirror(p)
    PROVE  Mirror(p)'
<1>0. installed \in Installations /\ MapsType(maps)
  BY DEF MapInv
<1>1. /\ Rows(p)' = Rows(p) /\ th[t].op \in {"add", "rm"} /\ th[t].pc = "locked" /\ maps.loaded
      /\ AddLocked(t) => th[t].op = "add"
      /\ RmLocked(t) => th[t].op = "rm"
  BY DEF AddLocked, RmLocked, InSection, At, Rows, DenyTable, dbVars, file
<1>2. CASE maps' = maps /\ Return(t)
  <2>1. SamePending(p)
    BY <1>1, <1>2, PendingSame
  <2>2. SameFor(p)
    BY <1>1, <1>2, <2>1 DEF SameFor
  <2>. QED
    BY <2>2, SameKeepsMirror
<1>3. CASE Goto(t, "db") /\ th[t].pkg # p
  <2>1. ProcsOf(maps', p) = ProcsOf(maps, p)
    <3>1. CASE AddLocked(t) /\ maps' # maps
      <4>1. /\ get_app_id(installed, th[t].pkg) # 0
            /\ maps' \in AddEntry(maps, installed, th[t].pkg, th[t].proc)
        BY <3>1 DEF AddLocked
      <4>. QED
        BY <1>0, <1>1, <1>3, <4>1, AddOne
    <3>2. CASE RmLocked(t) /\ maps' # maps
      <4>1. th[t].pkg \in DOMAIN maps.procs /\ maps' = RemoveEntry(maps, installed, th[t].pkg, th[t].proc)
        BY <3>2 DEF RmLocked
      <4>2. maps.loaded
        BY <1>1
      <4>3. RemoveEffect(maps, maps', installed, th[t].pkg, th[t].proc)
        BY <1>0, <4>1, <4>2, RemoveOne
      <4>. QED
        BY <1>3, <4>3 DEF RemoveEffect
    <3>. QED
      BY <3>1, <3>2
  <2>. QED
    <3>1. SamePending(p)
      BY <1>1, <1>3, PendingSame
    <3>2. SameFor(p)
      BY <1>1, <2>1, <3>1 DEF SameFor
    <3>. QED
      BY <3>2, SameKeepsMirror
<1>4. CASE Goto(t, "db") /\ th[t].pkg = p /\ ~ (maps' = maps /\ Return(t))
  <2>1. \A u \in Threads : ~ Pending(u, p)
    BY <1>1, <1>4 DEF Pending, WriterInv, Writes
  <2>2. Rows(p) = ProcsOf(maps, p)
    BY <2>1 DEF Mirror
  <2>3. /\ th'[t].op = th[t].op /\ th'[t].pkg = p /\ th'[t].pc = "db" /\ th'[t].proc = th[t].proc
        /\ \A u \in Threads \ {t} : th'[u] = th[u]
    BY <1>4, Moves
  <2>4. Pending(t, p)' /\ \A u \in Threads \ {t} : ~ Pending(u, p)'
    BY <1>1, <2>1, <2>3 DEF Pending, Writes
  <2>5. RowsAfter(t, p)' = ProcsOf(maps', p)
    <3>1. CASE AddLocked(t)
      <4>1. /\ get_app_id(installed, th[t].pkg) # 0
            /\ maps' \in AddEntry(maps, installed, th[t].pkg, th[t].proc)
        BY <1>4, <3>1 DEF AddLocked
      <4>2. ProcsOf(maps', p) = ProcsOf(maps, p) \cup {th[t].proc}
        BY <1>0, <1>1, <1>4, <4>1, AddOne
      <4>. QED
        BY <1>1, <2>2, <2>3, <3>1, <4>2 DEF RowsAfter
    <3>2. CASE RmLocked(t)
      <4>1. th[t].pkg \in DOMAIN maps.procs /\ maps' = RemoveEntry(maps, installed, th[t].pkg, th[t].proc)
        BY <1>4, <3>2 DEF RmLocked
      <4>2. maps.loaded
        BY <1>1
      <4>3. RemoveEffect(maps, maps', installed, th[t].pkg, th[t].proc)
        BY <1>0, <4>1, <4>2, RemoveOne
      <4>4. ProcsOf(maps', p) = IF th[t].proc = "" THEN {} ELSE ProcsOf(maps, p) \ {th[t].proc}
        BY <1>4, <4>3 DEF RemoveEffect
      <4>. QED
        BY <1>1, <2>2, <2>3, <3>2, <4>4 DEF RowsAfter
    <3>. QED
      BY <3>1, <3>2
  <2>. QED
    BY <2>4, <2>5 DEF Mirror
<1>. QED
  BY <1>2, <1>3, <1>4 DEF AddLocked, RmLocked

\* The statement after the lock: it makes the rows what the maps say already, or it
\* fails, and then the package is blurred.
LEMMA StoreKeepsMirror ==
    ASSUME DbInv, JobInv, WriterInv, NEW t \in Threads, DbStep(t),
           NEW p \in Keys, p \notin blurred', Mirror(p)
    PROVE  Mirror(p)'
<1>1. /\ Return(t) /\ maps' = maps /\ blurred \subseteq blurred' /\ p \notin blurred
      /\ ~ Stored(t) => NotStored(t) /\ Subject(th[t].op, th[t].pkg) \in blurred'
  BY DEF DbStep
<1>2. ASSUME Rows(p)' = Rows(p), ~ Writes(t, p)
      PROVE  Mirror(p)'
  <2>1. SamePending(p)
    BY <1>1, <1>2, PendingSame
  <2>2. SameFor(p)
    BY <1>1, <1>2, <2>1 DEF SameFor
  <2>. QED
    BY <2>2, SameKeepsMirror
<1>3. ASSUME Pending(t, p), Rows(p)' = RowsAfter(t, p)
      PROVE  Mirror(p)'
  <2>1. th'[t].op = "none" /\ \A u \in Threads \ {t} : th'[u] = th[u]
    BY <1>1, Moves
  <2>2. \A u \in Threads : ~ Pending(u, p)'
    BY <1>1, <1>3, <2>1 DEF WriterInv, Pending, Writes
  <2>3. Rows(p)' = ProcsOf(maps', p)
    BY <1>1, <1>3 DEF Mirror
  <2>. QED
    BY <2>2, <2>3 DEF Mirror
<1>4. CASE Stored(t)
  <2>. DEFINE pkg == th[t].pkg
              proc == th[t].proc
  <2>1. CASE At(t, "add", "db") /\ DbExec("denylist", DenyTable \cup {<<pkg, proc>>})
    <3>1. DenyTable' = DenyTable \cup {<<pkg, proc>>}
      BY <2>1, DbExecKeeps DEF DenyTable
    <3>2. /\ p = pkg => Rows(p)' = Rows(p) \cup {proc}
          /\ p # pkg => Rows(p)' = Rows(p)
      <4>. DEFINE new == <<pkg, proc>>
      <4>1. new[1] = pkg /\ new[2] = proc /\ DenyTable' = DenyTable \cup {new}
        BY <3>1
      <4>. HIDE DEF new
      <4>. QED
        BY <4>1 DEF Rows, RowsIn
    <3>3. CASE p = pkg
      BY <1>3, <2>1, <3>2, <3>3 DEF At, Pending, Writes, RowsAfter
    <3>4. CASE p # pkg
      BY <1>2, <3>2, <3>4 DEF Writes
    <3>. QED
      BY <3>3, <3>4
  <2>2. CASE /\ At(t, "rm", "db")
             /\ DbExec("denylist", {r \in DenyTable : ~ (r[1] = pkg /\ proc \in {"", r[2]})})
    <3>1. DenyTable' = {r \in DenyTable : ~ (r[1] = pkg /\ proc \in {"", r[2]})}
      BY <2>2, DbExecKeeps DEF DenyTable
    <3>2. /\ p # pkg => Rows(p)' = Rows(p)
          /\ p = pkg /\ proc = "" => Rows(p)' = {}
          /\ p = pkg /\ proc # "" => Rows(p)' = Rows(p) \ {proc}
      BY <3>1 DEF Rows, RowsIn
    <3>3. CASE p = pkg
      BY <1>3, <2>2, <3>2, <3>3 DEF At, Pending, Writes, RowsAfter
    <3>4. CASE p # pkg
      BY <1>2, <3>2, <3>4 DEF Writes
    <3>. QED
      BY <3>3, <3>4
  <2>3. ASSUME th[t].op \in Switches, NEW rows, DbExec("settings", rows)
        PROVE  Mirror(p)'
    <3>1. "denylist" \in DOMAIN tables
      BY <2>3 DEF DbExec, DbInv, OpenInv, FileInv, CurrentTables
    <3>2. tables'["denylist"] = tables["denylist"]
      BY <2>3, <3>1, DbExecKeeps
    <3>3. Rows(p)' = Rows(p)
      BY <3>2 DEF Rows, DenyTable
    <3>. QED
      BY <1>2, <2>3, <3>3 DEF Writes, Switches
  <2>. QED
    BY <1>4, <2>1, <2>2, <2>3 DEF Stored, At, Switches
<1>5. CASE NotStored(t) /\ Subject(th[t].op, th[t].pkg) \in blurred'
  <2>1. tables' = tables
    BY <1>5, DbFaultKeeps DEF NotStored, dbVars, file
  <2>2. Rows(p)' = Rows(p)
    BY <2>1 DEF Rows, DenyTable
  <2>3. ~ Writes(t, p)
    BY <1>5 DEF Writes, Subject, Switches
  <2>. QED
    BY <1>2, <2>2, <2>3
<1>. QED
  BY <1>1, <1>4, <1>5

\* The steps that change neither the table nor the maps.
LEMMA OthersKeepMirror ==
    ASSUME JobInv, NEW p \in Keys, Mirror(p), DenyTable' = DenyTable, maps' = maps, NEW t \in Threads,
           \/ UNCHANGED th \/ Lock(t) \/ EnsureFails(t) \/ QueryLocked(t) \/ EnableRefused(t)
           \/ EnableLocked(t) \/ EnableSpawn(t) \/ Answer(t) \/ \E j \in Jobs : Begins(t, j)
    PROVE  Mirror(p)'
<1>1. SamePending(p)
  <2>1. CASE UNCHANGED th
    BY <2>1 DEF SamePending, Pending, Writes
  <2>2. CASE Lock(t)
    BY <2>2, PendingSame DEF Lock
  <2>3. CASE EnsureFails(t) \/ EnableRefused(t)
    BY <2>3, PendingSame DEF EnsureFails, EnableRefused, At
  <2>4. CASE EnableLocked(t) \/ EnableSpawn(t)
    BY <2>4, PendingSame DEF EnableLocked, EnableSpawn, InSection, At
  <2>5. CASE Answer(t)
    BY <2>5, PendingSame DEF Answer, At
  <2>6. CASE QueryLocked(t)
    <3>1. /\ th[t].op = "query" /\ th'[t].op = "query"
          /\ \A u \in Threads \ {t} : th'[u] = th[u]
      BY <2>6 DEF QueryLocked, InSection, At, JobInv, Jobs
    <3>. QED
      BY <3>1 DEF SamePending, Pending, Writes
  <2>7. CASE \E j \in Jobs : Begins(t, j)
    <3>1. PICK j \in Jobs : Begins(t, j)
      BY <2>7
    <3>2. /\ th[t].pc # "db" /\ th' = [th EXCEPT ![t] = j]
          /\ j.pc # "db" \/ j.op \notin {"add", "rm"}
      BY <3>1 DEF Begins
    <3>. QED
      BY <3>2, PendingSame, Zenon
  <2>. QED
    BY <2>1, <2>2, <2>3, <2>4, <2>5, <2>6, <2>7
<1>2. SameFor(p)
  BY <1>1 DEF SameFor, Rows
<1>. QED
  BY <1>2, SameKeepsMirror

\* The table keeps following the maps.
LEMMA MirrorInvKept == DbInv /\ JobInv /\ MapInv /\ LoadedInv /\ WriterInv /\ MirrorInv /\ [Next]_vars => MirrorInv'
<1>. SUFFICES ASSUME DbInv, JobInv, MapInv, LoadedInv, WriterInv, MirrorInv, [Next]_vars,
                     maps'.loaded, ~ raced', NEW p \in Keys, p \notin blurred'
              PROVE  Mirror(p)'
  BY DEF MirrorInv
<1>1. CASE Restart
  BY <1>1 DEF Restart, NoMaps
<1>. DEFINE Quiet(t) == \/ UNCHANGED th \/ Lock(t) \/ EnsureFails(t) \/ QueryLocked(t) \/ EnableRefused(t)
                        \/ EnableLocked(t) \/ EnableSpawn(t) \/ Answer(t) \/ \E j \in Jobs : Begins(t, j)
<1>2. ASSUME NEW t \in Threads, Quiet(t), maps' = maps, DenyTable' = DenyTable, raced => raced', blurred \subseteq blurred'
      PROVE  Mirror(p)'
  <2>1. Mirror(p)
    BY <1>2 DEF MirrorInv
  <2>. QED
    BY <1>2, <2>1, OthersKeepMirror
<1>3. ASSUME NEW t \in Threads, Request(t)
      PROVE  Mirror(p)'
  <2>1. PICK j \in Jobs : Begins(t, j)
    BY <1>3, RequestsBegin
  <2>2. maps' = maps /\ DenyTable' = DenyTable /\ blurred \subseteq blurred' /\ (raced => raced')
    BY <2>1 DEF Begins, dbVars, file, DenyTable
  <2>. QED
    BY <1>2, <2>1, <2>2
<1>4. ASSUME NEW t \in Threads, Section(t)
      PROVE  Mirror(p)'
  <2>1. CASE Lock(t) \/ QueryLocked(t) \/ EnableRefused(t) \/ EnableLocked(t) \/ EnableSpawn(t)
    <3>0. raced => raced'
      <4>1. CASE Lock(t)
        BY <4>1, Zenon DEF Lock
      <4>2. CASE QueryLocked(t) \/ EnableRefused(t) \/ EnableLocked(t) \/ EnableSpawn(t)
        BY <4>2, Zenon DEF QueryLocked, EnableRefused, EnableLocked, EnableSpawn, ghosts
      <4>. QED
        BY <2>1, <4>1, <4>2
    <3>1. maps' = maps /\ UNCHANGED dbVars /\ blurred \subseteq blurred'
      BY <2>1 DEF Lock, QueryLocked, EnableRefused, EnableLocked, EnableSpawn, ghosts
    <3>2. DenyTable' = DenyTable
      BY <3>1 DEF dbVars, file, DenyTable
    <3>. QED
      BY <1>2, <2>1, <3>0, <3>1, <3>2
  <2>2. CASE EnsureFails(t)
    <3>1. maps' = maps /\ DbError /\ blurred \subseteq blurred' /\ raced' = raced
      BY <2>2 DEF EnsureFails
    <3>2. DenyTable' = DenyTable
      BY <3>1, DbFaultKeeps DEF DenyTable
    <3>. QED
      BY <1>2, <2>2, <3>1, <3>2
  <2>3. CASE EnsureData(t)
    BY <2>3, LoadMakesMirror
  <2>4. CASE AddLocked(t) \/ RmLocked(t)
    <3>1. maps.loaded /\ UNCHANGED ghosts
      BY <2>4 DEF AddLocked, RmLocked, InSection
    <3>2. Mirror(p) /\ p \notin blurred
      BY <3>1 DEF ghosts, MirrorInv
    <3>. QED
      BY <2>4, <3>2, ChangeKeepsMirror
  <2>5. CASE LsLocked(t)
    <3>1. maps.loaded /\ raced' = raced /\ blurred \subseteq blurred'
      BY <2>5 DEF LsLocked, InSection, DeleteGone
    <3>2. Mirror(p)
      BY <3>1 DEF MirrorInv
    <3>. QED
      BY <2>5, <3>1, <3>2, ScanKeepsMirror
  <2>. QED
    BY <1>4, <2>1, <2>2, <2>3, <2>4, <2>5 DEF Section
<1>5. ASSUME NEW t \in Threads, Answer(t)
      PROVE  Mirror(p)'
  <2>1. maps' = maps /\ UNCHANGED dbVars /\ UNCHANGED ghosts
    BY <1>5 DEF Answer
  <2>2. DenyTable' = DenyTable /\ blurred' = blurred /\ raced' = raced
    BY <2>1 DEF dbVars, file, DenyTable, ghosts
  <2>. QED
    BY <1>2, <1>5, <2>1, <2>2
<1>6. ASSUME NEW t \in Threads, ScanDone(t)
      PROVE  Mirror(p)'
  <2>1. raced' = raced /\ blurred \subseteq blurred' /\ maps' = scan_deny_apps(maps, installed)
    BY <1>6 DEF ScanDone, DeleteGone
  <2>2. maps.loaded
    <3>1. CASE ~ maps.loaded
      BY <2>1, <3>1 DEF scan_deny_apps
    <3>. QED
      BY <3>1
  <2>3. Mirror(p)
    BY <2>1, <2>2 DEF MirrorInv
  <2>. QED
    BY <1>6, <2>2, <2>3, ScanKeepsMirror
<1>7. ASSUME NEW t \in Threads, DbStep(t)
      PROVE  Mirror(p)'
  <2>1. raced' = raced /\ blurred \subseteq blurred' /\ maps' = maps
    BY <1>7 DEF DbStep
  <2>2. Mirror(p)
    BY <2>1 DEF MirrorInv
  <2>. QED
    BY <1>7, <2>2, StoreKeepsMirror
<1>8. ASSUME th' = th, maps' = maps, DenyTable' = DenyTable, raced => raced', blurred' = blurred
      PROVE  Mirror(p)'
  <2>1. Mirror(p)
    BY <1>8 DEF MirrorInv
  <2>2. SameFor(p)
    BY <1>8 DEF SameFor, SamePending, Rows, Pending, Writes
  <2>. QED
    BY <2>1, <2>2, SameKeepsMirror
<1>9. ASSUME NEW w \in Watchers, Watch(w)
      PROVE  Mirror(p)'
  BY <1>8, <1>9, Zenon DEF Watch, LoopTop, ReadFails, Retry, ReadMessage, LogcatGoto, ghosts, dbVars, file, DenyTable
<1>10. ASSUME NEW app, NEW id, Move(app, id)
       PROVE  Mirror(p)'
  BY <1>8, <1>10 DEF Move, daemon, dbVars, file, DenyTable
<1>11. CASE DbOpen /\ UNCHANGED denyVars
  <2>1. maps' = maps /\ conn # "open"
    BY <1>11 DEF denyVars, daemon, DbOpen, LoadSqlite, OpenDb, RunStatement, Opened, StatementFails
  <2>. QED
    BY <2>1 DEF LoadedInv
<1>12. CASE UNCHANGED vars
  BY <1>8, <1>12 DEF vars, denyVars, daemon, ghosts, dbVars, file, DenyTable
<1>. QED
  BY <1>1, <1>3, <1>4, <1>5, <1>6, <1>7, <1>9, <1>10, <1>11, <1>12 DEF Next

-----------------------------------------------------------------------------
\* initialize_denylist runs on the open database.
LEMMA BootedInvKept == BootedInv /\ JobInv /\ MapInv /\ [Next]_vars => BootedInv'
<1>. SUFFICES ASSUME BootedInv, JobInv, MapInv, [Next]_vars, booted'
              PROVE  conn' = "open"
  BY DEF BootedInv
<1>1. ~ Restart
  BY DEF Restart
<1>2. booted \/ conn = "open"
  <2>1. ASSUME NEW t \in Threads, Request(t)
        PROVE  booted \/ conn = "open"
    BY <2>1, RequestsBegin, Zenon DEF Begins
  <2>2. ASSUME NEW t \in Threads, Section(t) \/ Answer(t) \/ ScanDone(t) \/ DbStep(t)
        PROVE  booted
    BY <2>2 DEF Section, Lock, EnsureData, EnsureFails, AddLocked, RmLocked, LsLocked, QueryLocked, EnableRefused,
      EnableLocked, EnableSpawn, Answer, ScanDone, DbStep
  <2>3. ASSUME NEW w \in Watchers, Watch(w)
        PROVE  booted
    BY <2>3, Zenon DEF Watch, LoopTop, ReadFails, Retry, ReadMessage, LogcatGoto
  <2>4. ASSUME NEW app, NEW id, Move(app, id)
        PROVE  booted
    BY <2>4 DEF Move, daemon
  <2>5. UNCHANGED denyVars => booted
    BY DEF denyVars, daemon
  <2>. QED
    BY <1>1, <2>1, <2>2, <2>3, <2>4, <2>5 DEF Next, vars
<1>. QED
  BY <1>1, <1>2, LoadedStays DEF BootedInv

\* A step that changes neither the flag nor the setting, and no switch.
SwitchesSame ==
    \A u \in Threads :
        /\ Switching(u)' <=> Switching(u)
        /\ Switching(u) => /\ th'[u].op = th[u].op
                           /\ th'[u].pc \in {"spawn", "db"} <=> th[u].pc \in {"spawn", "db"}

\* A step that leaves the switches and the setting alone keeps the flag right.
LEMMA SameKeepsFlag ==
    ASSUME FlagInv, SwitchesSame, enforced' = enforced, booted' = booted, blurred \subseteq blurred',
           conn' = conn, conn = "open" => Settings' = Settings
    PROVE  FlagInv'
<1>. SUFFICES ASSUME "enforce" \notin blurred'
              PROVE  FlagInv'
  BY DEF FlagInv
<1>1. \A t, u \in Threads : Switching(t)' /\ Switching(u)' => t = u
  BY DEF SwitchesSame, FlagInv
<1>2. \A t \in Threads :
        Switching(t)' => (enforced' <=> th'[t].op = "enable" /\ th'[t].pc \in {"spawn", "db"})
  BY DEF SwitchesSame, FlagInv
<1>3. conn' = "open" /\ (\A t \in Threads : ~ Switching(t)') =>
        /\ enforced' => "denylist" \in Settings'
        /\ booted' /\ "denylist" \in Settings' => enforced'
  BY DEF SwitchesSame, FlagInv
<1>. QED
  BY <1>1, <1>2, <1>3 DEF FlagInv

\* A step of a thread that is at no switch is no step of a switch.
LEMMA NoSwitchStep ==
    ASSUME NEW t \in Threads, ~ Switching(t), ~ Switching(t)', \A u \in Threads \ {t} : th'[u] = th[u]
    PROVE  SwitchesSame
BY DEF SwitchesSame, Switching

\* What the steps of the database leave alone: the settings, but for the two
\* statements of enable and disable.
LEMMA DeletesKeepSettings ==
    ASSUME DbInv, NEW gone, DeleteGone(gone)
    PROVE  /\ conn' = conn /\ blurred \subseteq blurred'
           /\ conn = "open" => Settings' = Settings
<1>1. CASE gone = {}
  BY <1>1 DEF DeleteGone, dbVars, file, Settings
<1>2. CASE gone # {} /\ DbError /\ blurred' = blurred \cup gone
  BY <1>2, DbFaultKeeps DEF Settings
<1>3. CASE /\ gone # {} /\ DbExec("denylist", {r \in DenyTable : r[1] \notin gone})
           /\ blurred' = blurred \cup {q \in gone : Busy(q)}
  <2>1. conn' = conn /\ conn = "open"
    BY <1>3 DEF DbExec
  <2>2. "settings" \in DOMAIN tables
    BY <2>1 DEF DbInv, OpenInv, FileInv, CurrentTables
  <2>3. tables'["settings"] = tables["settings"]
    BY <1>3, <2>2, DbExecKeeps
  <2>. QED
    BY <1>3, <2>1, <2>3 DEF Settings
<1>. QED
  BY <1>1, <1>2, <1>3 DEF DeleteGone

\* A request to switch comes when no other switch is on its way, or "enforce" is blurred.
LEMMA RequestsKeepFlag ==
    ASSUME JobInv, FlagInv, NEW t \in Threads, NEW j \in Jobs, Begins(t, j)
    PROVE  FlagInv'
<1>. SUFFICES ASSUME "enforce" \notin blurred'
              PROVE  FlagInv'
  BY DEF FlagInv
<1>1. /\ th'[t] = j /\ \A u \in Threads \ {t} : th'[u] = th[u]
      /\ blurred \subseteq blurred' /\ conn' = conn /\ Settings' = Settings
  BY Moves, Zenon DEF Begins, dbVars, file, Settings
<1>2. ~ Switching(t)
  BY DEF Begins, JobInv, Switching, Switches
<1>3. CASE j.op \in Switches
  <2>1. ~ Busy("enforce") /\ ~ enforced' /\ (j.op = "enable" => j.pc = "lock")
    BY <1>3, Zenon DEF Begins, Switches
  <2>2. \A u \in Threads : ~ Switching(u)
    BY <2>1 DEF Busy, Subject, Switching, JobInv, Switches
  <2>3. \A u \in Threads : Switching(u)' <=> u = t
    BY <1>1, <1>3, <2>2 DEF Switching
  <2>4. \A u \in Threads :
          Switching(u)' => (enforced' <=> th'[u].op = "enable" /\ th'[u].pc \in {"spawn", "db"})
    BY <1>1, <2>1, <2>3
  <2>5. \A u, v \in Threads : Switching(u)' /\ Switching(v)' => u = v
    BY <2>3
  <2>. QED
    BY <2>3, <2>4, <2>5 DEF FlagInv
<1>4. CASE j.op \notin Switches
  <2>1. SwitchesSame
    BY <1>1, <1>2, <1>4, NoSwitchStep DEF Switching
  <2>2. enforced' = enforced
    BY <1>4 DEF Begins, Switches, JobInv
  <2>3. CASE booted' = booted
    BY <1>1, <2>1, <2>2, <2>3, SameKeepsFlag
  <2>4. CASE booted' # booted
    <3>1. enforced \/ "denylist" \notin Settings
      BY <1>4, <2>4 DEF Begins, Switches
    <3>2. \A u, v \in Threads : Switching(u)' /\ Switching(v)' => u = v
      BY <1>1, <2>1 DEF SwitchesSame, FlagInv
    <3>3. \A u \in Threads :
            Switching(u)' => (enforced' <=> th'[u].op = "enable" /\ th'[u].pc \in {"spawn", "db"})
      BY <1>1, <2>1, <2>2 DEF SwitchesSame, FlagInv
    <3>4. conn' = "open" /\ (\A u \in Threads : ~ Switching(u)') =>
            /\ enforced' => "denylist" \in Settings'
            /\ booted' /\ "denylist" \in Settings' => enforced'
      BY <1>1, <2>1, <2>2, <3>1 DEF SwitchesSame, FlagInv
    <3>. QED
      BY <3>2, <3>3, <3>4 DEF FlagInv
  <2>. QED
    BY <2>3, <2>4
<1>. QED
  BY <1>3, <1>4

\* The statement of a switch makes the setting what the flag is.
LEMMA StoreKeepsFlag ==
    ASSUME DbInv, JobInv, FlagInv, NEW t \in Threads, DbStep(t)
    PROVE  FlagInv'
<1>. SUFFICES ASSUME "enforce" \notin blurred'
              PROVE  FlagInv'
  BY DEF FlagInv
<1>1. /\ th'[t].op = "none" /\ \A u \in Threads \ {t} : th'[u] = th[u]
      /\ enforced' = enforced /\ booted' = booted /\ blurred \subseteq blurred'
      /\ ~ Stored(t) => NotStored(t) /\ Subject(th[t].op, th[t].pkg) \in blurred'
  BY Moves DEF DbStep
<1>2. ~ Switching(t)'
  BY <1>1 DEF Switching, Switches
<1>3. ASSUME ~ Switching(t), conn' = conn, conn = "open" => Settings' = Settings
      PROVE  FlagInv'
  BY <1>1, <1>2, <1>3, NoSwitchStep, SameKeepsFlag
<1>4. CASE ~ Stored(t)
  <2>1. ~ Switching(t)
    BY <1>1, <1>4 DEF Subject, Switching
  <2>2. conn' = conn /\ tables' = tables
    BY <1>1, <1>4, DbFaultKeeps DEF NotStored, dbVars, file
  <2>. QED
    BY <1>3, <2>1, <2>2 DEF Settings
<1>5. ASSUME th[t].op \in {"add", "rm"}, NEW rows, DbExec("denylist", rows)
      PROVE  FlagInv'
  <2>1. conn' = conn /\ conn = "open"
    BY <1>5 DEF DbExec
  <2>2. "settings" \in DOMAIN tables
    BY <2>1 DEF DbInv, OpenInv, FileInv, CurrentTables
  <2>3. tables'["settings"] = tables["settings"]
    BY <1>5, <2>2, DbExecKeeps
  <2>. QED
    BY <1>3, <1>5, <2>1, <2>3 DEF Settings, Switching, Switches
<1>6. ASSUME Switching(t), th[t].pc = "db", "denylist" \in Settings' <=> th[t].op = "enable"
      PROVE  FlagInv'
  <2>1. \A u \in Threads : ~ Switching(u)'
    BY <1>1, <1>2, <1>6 DEF FlagInv, Switching
  <2>2. enforced' <=> th[t].op = "enable"
    BY <1>1, <1>6 DEF FlagInv
  <2>. QED
    BY <1>6, <2>1, <2>2 DEF FlagInv
<1>7. CASE At(t, "enable", "db") /\ DbExec("settings", Settings \cup {"denylist"})
  <2>1. Settings' = Settings \cup {"denylist"}
    BY <1>7, DbExecKeeps DEF Settings
  <2>. QED
    BY <1>6, <1>7, <2>1 DEF At, Switching, Switches
<1>8. CASE At(t, "disable", "db") /\ DbExec("settings", Settings \ {"denylist"})
  <2>1. Settings' = Settings \ {"denylist"}
    BY <1>8, DbExecKeeps DEF Settings
  <2>. QED
    BY <1>6, <1>8, <2>1 DEF At, Switching, Switches
<1>. QED
  BY <1>4, <1>5, <1>7, <1>8 DEF Stored, At

\* Every step keeps the flag, the setting and the threads that differ in order.
LEMMA FlagInvKept == DbInv /\ JobInv /\ LoadedInv /\ BootedInv /\ FlagInv /\ [Next]_vars => FlagInv'
<1>. SUFFICES ASSUME DbInv, JobInv, LoadedInv, BootedInv, FlagInv, [Next]_vars, "enforce" \notin blurred'
              PROVE  FlagInv'
  BY DEF FlagInv
<1>1. CASE Restart
  <2>1. (\A u \in Threads : ~ Switching(u)') /\ conn' # "open"
    BY <1>1 DEF Restart, DbRestart, Idle, Switching, Switches
  <2>. QED
    BY <2>1 DEF FlagInv
<1>2. ASSUME UNCHANGED th, UNCHANGED <<enforced, booted, blurred, conn>>, conn = "open" => Settings' = Settings
      PROVE  FlagInv'
  <2>1. SwitchesSame
    BY <1>2 DEF SwitchesSame, Switching
  <2>. QED
    BY <1>2, <2>1, SameKeepsFlag
<1>3. ASSUME NEW t \in Threads, Request(t)
      PROVE  FlagInv'
  BY <1>3, RequestsBegin, RequestsKeepFlag
<1>4. ASSUME NEW t \in Threads, Return(t), ~ Switching(t), UNCHANGED <<enforced, booted, conn>>,
             blurred \subseteq blurred', conn = "open" => Settings' = Settings
      PROVE  FlagInv'
  <2>1. ~ Switching(t)' /\ \A u \in Threads \ {t} : th'[u] = th[u]
    BY <1>4, Moves DEF Switching, Switches
  <2>2. SwitchesSame
    BY <1>4, <2>1, NoSwitchStep
  <2>. QED
    BY <1>4, <2>2, SameKeepsFlag
<1>5. ASSUME NEW t \in Threads, Section(t)
      PROVE  FlagInv'
  <2>1. CASE Lock(t)
    <3>1. /\ UNCHANGED <<enforced, booted, blurred, conn>> /\ Settings' = Settings
          /\ th[t].pc = "lock" /\ Goto(t, "locked")
      BY <2>1 DEF Lock, dbVars, file, Settings
    <3>2. SwitchesSame
      BY <3>1, Moves DEF SwitchesSame, Switching
    <3>. QED
      BY <3>1, <3>2, SameKeepsFlag
  <2>2. CASE EnsureData(t)
    <3>1. /\ UNCHANGED <<th, enforced, booted, conn>> /\ blurred \subseteq blurred'
          /\ conn = "open" => Settings' = Settings
      BY <2>2, DeletesKeepSettings DEF EnsureData
    <3>2. SwitchesSame
      BY <3>1 DEF SwitchesSame, Switching
    <3>. QED
      BY <3>1, <3>2, SameKeepsFlag
  <2>3. CASE EnsureFails(t)
    <3>1. /\ Return(t) /\ UNCHANGED <<enforced, booted>> /\ DbError /\ th[t].pc = "locked"
          /\ blurred \subseteq blurred' /\ th[t].op # "enable"
      BY <2>3 DEF EnsureFails
    <3>2. ~ Switching(t)
      BY <3>1 DEF Switching, Switches, JobInv
    <3>3. conn' = conn /\ Settings' = Settings
      BY <3>1, DbFaultKeeps DEF Settings
    <3>. QED
      BY <1>4, <3>1, <3>2, <3>3
  <2>4. CASE AddLocked(t) \/ RmLocked(t)
    <3>1. /\ Return(t) \/ Goto(t, "db")
          /\ th[t].op \in {"add", "rm"} /\ UNCHANGED <<enforced, booted, blurred, conn>> /\ Settings' = Settings
      BY <2>4 DEF AddLocked, RmLocked, InSection, At, dbVars, file, Settings, ghosts
    <3>2. ~ Switching(t) /\ ~ Switching(t)' /\ \A u \in Threads \ {t} : th'[u] = th[u]
      BY <3>1, Moves DEF Switching, Switches
    <3>3. SwitchesSame
      BY <3>2, NoSwitchStep
    <3>. QED
      BY <3>1, <3>3, SameKeepsFlag
  <2>5. CASE LsLocked(t)
    <3>1. Return(t) /\ UNCHANGED <<enforced, booted>> /\ ~ Switching(t) /\ DeleteGone(Gone(maps, installed))
      BY <2>5 DEF LsLocked, InSection, At, Switching, Switches
    <3>. QED
      BY <1>4, <3>1, DeletesKeepSettings
  <2>6. CASE QueryLocked(t)
    <3>1. /\ ~ Switching(t) /\ ~ Switching(t)' /\ \A u \in Threads \ {t} : th'[u] = th[u]
      BY <2>6 DEF QueryLocked, InSection, At, JobInv, Jobs, Switching, Switches
    <3>2. UNCHANGED <<enforced, booted, blurred, conn>> /\ Settings' = Settings
      BY <2>6 DEF QueryLocked, dbVars, file, Settings, ghosts
    <3>3. SwitchesSame
      BY <3>1, NoSwitchStep
    <3>. QED
      BY <3>2, <3>3, SameKeepsFlag
  <2>7. CASE EnableRefused(t)
    BY <2>7 DEF EnableRefused
  <2>8. CASE EnableLocked(t)
    <3>1. /\ th'[t].op = "enable" /\ th'[t].pc = "spawn" /\ enforced' /\ Switching(t) /\ blurred' = blurred
          /\ \A u \in Threads \ {t} : th'[u] = th[u]
      BY <2>8, Moves DEF EnableLocked, InSection, At, Switching, Switches, ghosts
    <3>2. \A u \in Threads : Switching(u)' <=> u = t
      <4>1. \A u \in Threads \ {t} : ~ Switching(u)
        BY <3>1 DEF FlagInv
      <4>2. Switching(t)'
        BY <3>1 DEF Switching, Switches
      <4>. QED
        BY <3>1, <4>1, <4>2 DEF Switching
    <3>3. \A u \in Threads :
            Switching(u)' => (enforced' <=> th'[u].op = "enable" /\ th'[u].pc \in {"spawn", "db"})
      BY <3>1, <3>2
    <3>4. \A u, v \in Threads : Switching(u)' /\ Switching(v)' => u = v
      BY <3>2
    <3>. QED
      BY <3>2, <3>3, <3>4 DEF FlagInv
  <2>9. CASE EnableSpawn(t)
    <3>1. /\ Goto(t, "db") /\ th[t].pc = "spawn" /\ UNCHANGED <<enforced, booted, blurred, conn>>
          /\ Settings' = Settings
      BY <2>9 DEF EnableSpawn, At, dbVars, file, Settings
    <3>2. SwitchesSame
      BY <3>1, Moves DEF SwitchesSame, Switching
    <3>. QED
      BY <3>1, <3>2, SameKeepsFlag
  <2>. QED
    BY <1>5, <2>1, <2>2, <2>3, <2>4, <2>5, <2>6, <2>7, <2>8, <2>9 DEF Section
<1>6. ASSUME NEW t \in Threads, Answer(t)
      PROVE  FlagInv'
  BY <1>4, <1>6 DEF Answer, At, Switching, Switches, dbVars, file, Settings, ghosts
<1>7. ASSUME NEW t \in Threads, ScanDone(t)
      PROVE  FlagInv'
  <2>1. Return(t) /\ UNCHANGED <<enforced, booted>> /\ ~ Switching(t) /\ DeleteGone(Gone(maps, installed))
    BY <1>7 DEF ScanDone, At, Switching, Switches
  <2>. QED
    BY <1>4, <2>1, DeletesKeepSettings
<1>8. ASSUME NEW t \in Threads, DbStep(t)
      PROVE  FlagInv'
  BY <1>8, StoreKeepsFlag
<1>9. ASSUME NEW w \in Watchers, Watch(w)
      PROVE  FlagInv'
  BY <1>2, <1>9 DEF Watch, LoopTop, ReadFails, Retry, ReadMessage, LogcatGoto, ghosts, dbVars, file, Settings
<1>10. ASSUME NEW app, NEW id, Move(app, id)
       PROVE  FlagInv'
  BY <1>2, <1>10 DEF Move, daemon, dbVars, file, Settings
<1>11. CASE DbOpen /\ UNCHANGED denyVars
  <2>1. UNCHANGED <<th, enforced, booted, blurred>> /\ conn # "open"
    BY <1>11 DEF denyVars, daemon, ghosts, DbOpen, LoadSqlite, OpenDb, RunStatement, Opened, StatementFails
  <2>2. ~ enforced /\ ~ booted
    BY <2>1 DEF LoadedInv, BootedInv
  <2>. QED
    BY <2>1, <2>2 DEF FlagInv, Switching
<1>12. CASE UNCHANGED vars
  BY <1>2, <1>12 DEF vars, denyVars, daemon, ghosts, dbVars, file, Settings
<1>. QED
  BY <1>1, <1>3, <1>5, <1>6, <1>7, <1>8, <1>9, <1>10, <1>11, <1>12 DEF Next

\* A logcat thread ends only when it sees the flag off, and the flag is on only when
\* the thread that turned it on has started another, or is about to.
LEMMA WatchersKept == SomeoneWatches /\ JobInv /\ [Next]_vars => SomeoneWatches'
<1>. SUFFICES ASSUME SomeoneWatches, JobInv, [Next]_vars
              PROVE  SomeoneWatches'
  OBVIOUS
<1>. DEFINE Watched == \/ \E w \in Watchers : logcat[w] # "none"
                       \/ \E t \in Threads : At(t, "enable", "spawn")
            Kept == /\ zygisk' = zygisk /\ (enforced' => enforced) /\ logcat' = logcat
                    /\ \A u \in Threads : At(u, "enable", "spawn") => At(u, "enable", "spawn")'
<1>1. ASSUME Kept
      PROVE  SomeoneWatches'
  BY <1>1 DEF SomeoneWatches
<1>2. ASSUME NEW t \in Threads, Request(t)
      PROVE  Kept
  <2>1. PICK j \in Jobs : Begins(t, j)
    BY <1>2, RequestsBegin
  <2>2. th'[t] = j /\ \A u \in Threads \ {t} : th'[u] = th[u]
    BY <2>1, Moves, Zenon DEF Begins
  <2>. QED
    BY <2>1, <2>2, Zenon DEF Begins, At
<1>3. ASSUME NEW t \in Threads, ~ At(t, "enable", "spawn"), logcat' = logcat, zygisk' = zygisk, enforced' = enforced,
             Return(t) \/ (\E pc \in {"locked", "spawn", "db"} : Goto(t, pc)) \/ UNCHANGED th
      PROVE  Kept
  BY <1>3, Moves DEF At
<1>4. ASSUME NEW t \in Threads, Section(t)
      PROVE  SomeoneWatches'
  <2>1. CASE Lock(t) \/ EnsureData(t) \/ EnsureFails(t) \/ AddLocked(t) \/ RmLocked(t) \/ LsLocked(t) \/ EnableRefused(t)
    <3>1. /\ ~ At(t, "enable", "spawn") /\ logcat' = logcat /\ zygisk' = zygisk /\ enforced' = enforced
          /\ Return(t) \/ (\E pc \in {"locked", "spawn", "db"} : Goto(t, pc)) \/ UNCHANGED th
      BY <2>1 DEF Lock, EnsureData, EnsureFails, AddLocked, RmLocked, LsLocked, EnableRefused, InSection, At, world
    <3>. QED
      BY <1>1, <1>3, <3>1
  <2>2. CASE QueryLocked(t)
    <3>1. th[t].op = "query" /\ \A u \in Threads \ {t} : th'[u] = th[u]
      BY <2>2 DEF QueryLocked, InSection, At, JobInv
    <3>. QED
      BY <1>1, <2>2, <3>1, Zenon DEF QueryLocked, At, world
  <2>3. CASE EnableLocked(t)
    <3>1. At(t, "enable", "spawn")'
      BY <2>3, Moves DEF EnableLocked, InSection, At
    <3>. QED
      BY <3>1 DEF SomeoneWatches
  <2>4. CASE EnableSpawn(t)
    <3>1. CASE zygisk \/ ~ enforced'
      BY <2>4, <3>1 DEF EnableSpawn, world, SomeoneWatches
    <3>2. CASE \E w \in Watchers : logcat[w] = "none" /\ logcat' = [logcat EXCEPT ![w] = "loop"]
      BY <3>2 DEF SomeoneWatches, JobInv
    <3>. QED
      BY <2>4, <3>1, <3>2 DEF EnableSpawn
  <2>. QED
    BY <1>4, <2>1, <2>2, <2>3, <2>4 DEF Section
<1>5. ASSUME NEW t \in Threads, Answer(t) \/ ScanDone(t) \/ DbStep(t)
      PROVE  SomeoneWatches'
  <2>1. /\ ~ At(t, "enable", "spawn") /\ logcat' = logcat /\ zygisk' = zygisk /\ enforced' = enforced
        /\ Return(t)
    BY <1>5, Zenon DEF Answer, ScanDone, DbStep, Stored, NotStored, At, world
  <2>. QED
    BY <1>1, <1>3, <2>1
<1>6. ASSUME NEW w \in Watchers, Watch(w)
      PROVE  SomeoneWatches'
  <2>1. /\ zygisk' = zygisk /\ enforced' = enforced
        /\ \E pc \in {"none", "loop", "read", "retry"} :
              /\ logcat' = [logcat EXCEPT ![w] = pc]
              /\ enforced => pc # "none"
    BY <1>6 DEF Watch, LoopTop, ReadFails, Retry, ReadMessage, LogcatGoto, world
  <2>2. CASE enforced
    <3>1. logcat'[w] # "none"
      BY <2>1, <2>2 DEF JobInv
    <3>. QED
      BY <3>1 DEF SomeoneWatches
  <2>3. CASE ~ enforced
    BY <2>1, <2>3 DEF SomeoneWatches
  <2>. QED
    BY <2>2, <2>3
<1>7. ASSUME NEW app, NEW id, Move(app, id)
      PROVE  SomeoneWatches'
  BY <1>1, <1>7 DEF Move, daemon, At
<1>8. ASSUME UNCHANGED denyVars
      PROVE  SomeoneWatches'
  BY <1>1, <1>8 DEF denyVars, daemon, world, At
<1>9. CASE Restart
  BY <1>9 DEF Restart, SomeoneWatches
<1>. QED
  BY <1>1, <1>2, <1>4, <1>5, <1>6, <1>7, <1>8, <1>9 DEF Next, vars

-----------------------------------------------------------------------------
\* All of it together is inductive.
LEMMA InvInit == Init => Inv
<1>. SUFFICES ASSUME Init
              PROVE  Inv
  OBVIOUS
<1>1. DbInv /\ MapInv /\ JobInv
  BY DbInitInv, MapInvInit DEF Init
<1>2. /\ ~ maps.loaded /\ ~ enforced /\ ~ booted /\ conn = "none"
      /\ \A t \in Threads : th[t].op = "none" /\ th[t].pc = "idle"
  BY DEF Init, DbInit, NoMaps, Idle
<1>3. LoadedInv /\ MirrorInv /\ BootedInv /\ SomeoneWatches
  BY <1>2 DEF LoadedInv, MirrorInv, BootedInv, SomeoneWatches
<1>4. WriterInv
  BY <1>2 DEF WriterInv, Writes
<1>5. FlagInv
  BY <1>2 DEF FlagInv, Switching, Switches
<1>. QED
  BY <1>1, <1>3, <1>4, <1>5 DEF Inv

\* The invariants together are inductive.
LEMMA InvKept == Inv /\ [Next]_vars => Inv'
BY DbInvKept, JobInvKept, MapInvKept, LoadedInvKept, WriterInvKept, MirrorInvKept, BootedInvKept,
   FlagInvKept, WatchersKept DEF Inv

\* The table denylist says what the maps say, for every package that nobody is working
\* on and whose commands neither overlapped nor failed: with any number of threads and
\* apps, although add_list and rm_list write after they have released the lock.
THEOREM DbFollowsTheMaps == Spec => []DbFollowsMaps
<1>1. Inv => DbFollowsMaps
  <2>. SUFFICES ASSUME Inv, maps.loaded, ~ raced, NEW p \in Keys \ blurred, ~ Busy(p)
                PROVE  Rows(p) = ProcsOf(maps, p)
    BY DEF DbFollowsMaps, Rows, RowsIn
  <2>1. \A t \in Threads : ~ Pending(t, p)
    BY DEF Busy, Pending, Writes, Subject, Switches
  <2>. QED
    BY <2>1 DEF Inv, MirrorInv, Mirror
<1>. QED
  BY <1>1, InvInit, InvKept, PTL DEF Spec

\* The stored setting is the flag, unless switches overlapped or failed, and while the
\* list is enforced without zygisk some logcat thread watches: with any number of
\* threads, although disable_deny takes no lock and enable_deny looks at the flag
\* before it does.
THEOREM EnforcementFollowsTheSwitches == Spec => []EnforcementFollows
<1>1. Inv => EnforcementFollows
  <2>. SUFFICES ASSUME Inv, booted, conn = "open", "enforce" \notin blurred, ~ Busy("enforce")
                PROVE  enforced <=> "denylist" \in Settings
    BY DEF Inv, EnforcementFollows, SettingFollowsFlag
  <2>1. \A t \in Threads : ~ Switching(t)
    BY DEF Inv, JobInv, Busy, Subject, Switching, Switches
  <2>. QED
    BY <2>1 DEF Inv, FlagInv
<1>. QED
  BY <1>1, InvInit, InvKept, PTL DEF Spec
=============================================================================
