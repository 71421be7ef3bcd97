------------------------------ MODULE DenyList ------------------------------
(***************************************************************************)
(* The denylist of magiskd (core/deny): commands of the CLI, the start of  *)
(* the daemon, questions about starting processes, the rescan after a      *)
(* restart of zygote and the logcat threads, all running on the threads of *)
(* one daemon over the maps of DenyMaps, the flag denylist_enforced and    *)
(* the database.  data_lock guards the maps, but the statement that makes  *)
(* a change durable runs after it is released, and the rescan of           *)
(* ZYGOTE_RESTART does not take it.                                        *)
(***************************************************************************)
EXTENDS Database, DenyMaps, FiniteSets

CONSTANTS Threads, Watchers,   \* handler threads, slots for logcat threads
          PkgArgs, ProcArgs,   \* arguments of add and rm, "" for none
          FirstIds,            \* app IDs, or 0, at the start
          MaxOps, MaxMoves,    \* bounds on requests and on re-installations
          None

VARIABLES installed,   \* app ID of the data directories, 0 for none
          zygisk,      \* zygisk_enabled
          maps, enforced, lock, booted,
          th,          \* the request each thread works on
          logcat,      \* where each logcat thread is
          ops, moves,
          raced,       \* two threads were in the maps at once
          moved,       \* apps whose ID changed since the maps were scanned
          blurred      \* commands overlapped, or a statement failed, for these

ASSUME ThreadsAssumption ==
    /\ None \notin Threads
    /\ FirstIds \subseteq AppIds \cup {0}

daemon == <<maps, enforced, lock, booted, th, logcat>>
world == <<installed, zygisk, ops, moves>>
ghosts == <<raced, moved, blurred>>
denyVars == <<daemon, world, ghosts>>
vars == <<dbVars, denyVars>>

Idle == [op |-> "none", pkg |-> "", proc |-> "", pc |-> "idle", answer |-> FALSE]
Job(op, pkg, proc, pc) == [op |-> op, pkg |-> pkg, proc |-> proc, pc |-> pc, answer |-> FALSE]
Goto(t, pc) == th' = [th EXCEPT ![t].pc = pc]
Return(t) == th' = [th EXCEPT ![t] = Idle]
At(t, op, pc) == th[t].op = op /\ th[t].pc = pc

Scanning == \E t \in Threads : th[t].pc = "scan"
Switches == {"enable", "disable"}

\* What a request is about, and who else is at it.
Subject(op, pkg) == IF op \in Switches THEN "enforce" ELSE pkg
Busy(x) == \E t \in Threads : th[t].pc # "idle" /\ Subject(th[t].op, th[t].pkg) = x

Init ==
    /\ DbInit
    /\ installed \in [Apps -> FirstIds]
    /\ zygisk \in BOOLEAN
    /\ maps = NoMaps /\ enforced = FALSE /\ lock = None /\ booted = FALSE
    /\ th = [t \in Threads |-> Idle]
    /\ logcat = [w \in Watchers |-> "none"]
    /\ ops = 0 /\ moves = 0
    /\ raced = FALSE /\ moved = {} /\ blurred = {}

-----------------------------------------------------------------------------
(* db_exec: the statement runs on the open connection, or returns an error. *)

DenyTable == tables["denylist"].rows
Settings == tables["settings"].rows

DbExec(t, rows) ==
    /\ conn = "open"
    /\ tables' = [tables EXCEPT ![t].rows = rows]
    /\ UNCHANGED <<user_version, dl_init, conn, todo, faults>>

DbError ==
    /\ UNCHANGED <<file, dl_init, conn, todo>>
    /\ \/ conn = "none" /\ (dl_init = -1 \/ Wedged) /\ UNCHANGED faults
       \/ conn # "opening" /\ faults < MaxFaults /\ faults' = faults + 1

\* DELETE for every package in gone; the results are ignored.
DeleteGone(gone) ==
    \/ gone = {} /\ UNCHANGED <<dbVars, blurred>>
    \/ /\ gone # {}
       /\ DbExec("denylist", {r \in DenyTable : r[1] \notin gone})
       /\ blurred' = blurred \cup {p \in gone : Busy(p)}
    \/ gone # {} /\ DbError /\ blurred' = blurred \cup gone

-----------------------------------------------------------------------------
(* Requests: denylist_handler, update_deny_flags, ZYGOTE_RESTART. *)

\* The boot stages have used the database before anybody else does, so that it is open,
\* unless it cannot be opened.
Receive(t, job) ==
    /\ th[t].pc = "idle" /\ ops < MaxOps
    /\ conn = "none" => dl_init = -1 \/ Wedged
    /\ ops' = ops + 1
    /\ th' = [th EXCEPT ![t] = job]
    /\ UNCHANGED <<dbVars, installed, zygisk, maps, lock, booted, logcat, moves, moved>>

ReceiveAdd(t, pkg, arg) ==
    LET proc == IF arg = "" THEN pkg ELSE arg
    IN  /\ Receive(t, IF validate(pkg, proc) THEN Job("add", pkg, proc, "lock") ELSE Idle)
        /\ blurred' = IF Busy(pkg) THEN blurred \cup {pkg} ELSE blurred
        /\ UNCHANGED <<enforced, raced>>

ReceiveRm(t, pkg, arg) ==
    /\ Receive(t, Job("rm", pkg, arg, "lock"))
    /\ blurred' = IF Busy(pkg) THEN blurred \cup {pkg} ELSE blurred
    /\ UNCHANGED <<enforced, raced>>

\* ls, and the question about a process that starts.
ReceiveLs(t) == Receive(t, Job("ls", "", "", "lock")) /\ UNCHANGED <<enforced, raced, blurred>>
ReceiveQuery(t, app, proc) ==
    Receive(t, Job("query", app, proc, "lock")) /\ UNCHANGED <<enforced, raced, blurred>>

\* enable_deny looks at the flag before it takes the lock.
ReceiveEnable(t) ==
    /\ Receive(t, IF enforced THEN Idle ELSE Job("enable", "", "", "lock"))
    /\ blurred' = IF Busy("enforce") THEN blurred \cup {"enforce"} ELSE blurred
    /\ UNCHANGED <<enforced, raced>>

\* disable_deny takes no lock at all.
ReceiveDisable(t) ==
    /\ Receive(t, Job("disable", "", "", "db"))
    /\ enforced' = FALSE
    /\ blurred' = IF Busy("enforce") THEN blurred \cup {"enforce"} ELSE blurred
    /\ UNCHANGED raced

\* scan_deny_apps, called by the handler of ZYGOTE_RESTART without the lock.
ReceiveRestart(t) ==
    /\ Receive(t, IF maps.loaded THEN Job("scan", "", "", "scan") ELSE Idle)
    /\ raced' = (raced \/ (maps.loaded /\ (lock # None \/ Scanning)))
    /\ UNCHANGED <<enforced, blurred>>

\* initialize_denylist, once for each daemon.
Boot(t) ==
    /\ ~ booted /\ th[t].pc = "idle" /\ conn = "open"
    /\ booted' = TRUE
    /\ th' = [th EXCEPT ![t] = IF ~ enforced /\ "denylist" \in Settings
                               THEN Job("enable", "", "", "lock") ELSE Idle]
    /\ blurred' = IF Busy("enforce") THEN blurred \cup {"enforce"} ELSE blurred
    /\ UNCHANGED <<dbVars, world, maps, enforced, lock, logcat, raced, moved>>

-----------------------------------------------------------------------------
(* The sections under data_lock. *)

Lock(t) ==
    /\ th[t].pc = "lock" /\ lock = None
    /\ lock' = t
    /\ Goto(t, "locked")
    /\ raced' = (raced \/ Scanning)
    /\ UNCHANGED <<dbVars, world, maps, enforced, booted, logcat, moved, blurred>>

\* ensure_data when the maps are not there yet.
EnsureData(t) ==
    /\ th[t].pc = "locked" /\ ~ maps.loaded
    /\ conn = "open"
    /\ LET M == FromRows(DenyTable)
       IN  maps' = scan_deny_apps(M, installed) /\ DeleteGone(Gone(M, installed))
    /\ moved' = {}
    /\ UNCHANGED <<world, enforced, lock, booted, th, logcat, raced>>

\* The SELECT fails: clear_data, and the command ends with ERROR (for a question:
\* the process is no target).
EnsureFails(t) ==
    /\ th[t].pc = "locked" /\ ~ maps.loaded
    /\ DbError
    /\ lock' = None
    /\ Return(t)
    /\ blurred' = IF th[t].op = "enable" THEN blurred \cup {"enforce"} ELSE blurred
    /\ UNCHANGED <<world, maps, enforced, booted, logcat, raced, moved>>

InSection(t, op) == At(t, op, "locked") /\ maps.loaded

AddLocked(t) ==
    LET pkg == th[t].pkg
        proc == th[t].proc
        refused == get_app_id(installed, pkg) = 0 \/ proc \in ProcsOf(maps, pkg)
    IN  /\ InSection(t, "add")
        /\ IF refused
           THEN maps' = maps /\ Return(t)
           ELSE maps' \in AddEntry(maps, installed, pkg, proc) /\ Goto(t, "db")
        /\ lock' = None
        /\ UNCHANGED <<dbVars, world, enforced, booted, logcat, ghosts>>

RmLocked(t) ==
    LET pkg == th[t].pkg
        proc == th[t].proc
        found == pkg \in DOMAIN maps.procs /\ (proc = "" \/ proc \in maps.procs[pkg])
    IN  /\ InSection(t, "rm")
        /\ IF found
           THEN maps' = RemoveEntry(maps, installed, pkg, proc) /\ Goto(t, "db")
           ELSE maps' = maps /\ Return(t)
        /\ lock' = None
        /\ UNCHANGED <<dbVars, world, enforced, booted, logcat, ghosts>>

LsLocked(t) ==
    /\ InSection(t, "ls")
    /\ maps' = scan_deny_apps(maps, installed)
    /\ DeleteGone(Gone(maps, installed))
    /\ moved' = {}
    /\ lock' = None
    /\ Return(t)
    /\ UNCHANGED <<world, enforced, booted, logcat, raced>>

\* The app ID of the process that starts.
UidOf(app) == IF app = ISOLATED_MAGIC THEN FirstIsolatedId ELSE get_app_id(installed, app)

QueryLocked(t) ==
    /\ InSection(t, "query")
    /\ \E yes \in is_deny_target(maps, UidOf(th[t].pkg), th[t].proc) :
          th' = [th EXCEPT ![t].answer = yes, ![t].pc = "answer"]
    /\ lock' = None
    /\ UNCHANGED <<dbVars, world, maps, enforced, booted, logcat, ghosts>>

\* update_deny_flags adds the state of enforcement as it is now.
Answer(t) ==
    /\ At(t, "query", "answer")
    /\ Return(t)
    /\ UNCHANGED <<dbVars, world, maps, enforced, lock, booted, logcat, ghosts>>

\* No mount namespaces, or no /proc.
EnableRefused(t) ==
    /\ At(t, "enable", "locked")
    /\ lock' = None
    /\ Return(t)
    /\ blurred' = blurred \cup {"enforce"}
    /\ UNCHANGED <<dbVars, world, maps, enforced, booted, logcat, raced, moved>>

EnableLocked(t) ==
    /\ InSection(t, "enable")
    /\ enforced' = TRUE
    /\ Goto(t, "spawn")
    /\ UNCHANGED <<dbVars, world, maps, lock, booted, logcat, ghosts>>

\* Without zygisk a logcat thread is started; if that fails, the flag is taken back.
EnableSpawn_KeepsFlag(t) ==
    /\ At(t, "enable", "spawn")
    /\ lock' = None
    /\ \/ /\ zygisk
          /\ Goto(t, "db")
          /\ UNCHANGED <<enforced, logcat, blurred>>
       \/ /\ ~ zygisk
          /\ \E w \in Watchers : logcat[w] = "none" /\ logcat' = [logcat EXCEPT ![w] = "loop"]
          /\ Goto(t, "db")
          /\ UNCHANGED <<enforced, blurred>>
       \/ /\ ~ zygisk
          /\ Return(t)
          /\ blurred' = blurred \cup {"enforce"}
          /\ UNCHANGED <<enforced, logcat>>
    /\ UNCHANGED <<dbVars, world, maps, booted, raced, moved>>

EnableSpawn(t) ==
    /\ At(t, "enable", "spawn")
    /\ lock' = None
    /\ \/ /\ zygisk
          /\ Goto(t, "db")
          /\ UNCHANGED <<enforced, logcat, blurred>>
       \/ /\ ~ zygisk
          /\ \E w \in Watchers : logcat[w] = "none" /\ logcat' = [logcat EXCEPT ![w] = "loop"]
          /\ Goto(t, "db")
          /\ UNCHANGED <<enforced, blurred>>
       \/ /\ ~ zygisk
          /\ enforced' = FALSE
          /\ Return(t)
          /\ blurred' = blurred \cup {"enforce"}
          /\ UNCHANGED logcat
    /\ UNCHANGED <<dbVars, world, maps, booted, raced, moved>>

\* The rescan of ZYGOTE_RESTART, done.
ScanDone(t) ==
    /\ At(t, "scan", "scan")
    /\ maps' = scan_deny_apps(maps, installed)
    /\ DeleteGone(Gone(maps, installed))
    /\ moved' = {}
    /\ Return(t)
    /\ UNCHANGED <<world, enforced, lock, booted, logcat, raced>>

-----------------------------------------------------------------------------
(* The statement after the lock. *)

Stored_RmExact(t) ==
    LET pkg == th[t].pkg
        proc == th[t].proc
    IN  \/ /\ At(t, "add", "db")
           /\ <<pkg, proc>> \notin DenyTable
           /\ DbExec("denylist", DenyTable \cup {<<pkg, proc>>})
        \/ At(t, "rm", "db") /\ DbExec("denylist", DenyTable \ {<<pkg, proc>>})
        \/ At(t, "enable", "db") /\ DbExec("settings", Settings \cup {"denylist"})
        \/ At(t, "disable", "db") /\ DbExec("settings", Settings \ {"denylist"})

Stored(t) ==
    LET pkg == th[t].pkg
        proc == th[t].proc
    IN  \/ /\ At(t, "add", "db")
           /\ <<pkg, proc>> \notin DenyTable
           /\ DbExec("denylist", DenyTable \cup {<<pkg, proc>>})
        \/ /\ At(t, "rm", "db")
           /\ DbExec("denylist", {r \in DenyTable : ~ (r[1] = pkg /\ proc \in {"", r[2]})})
        \/ At(t, "enable", "db") /\ DbExec("settings", Settings \cup {"denylist"})
        \/ At(t, "disable", "db") /\ DbExec("settings", Settings \ {"denylist"})

\* INSERT of a row that is there already violates the primary key.
NotStored(t) ==
    /\ th[t].pc = "db"
    /\ \/ DbError
       \/ /\ th[t].op = "add" /\ conn = "open" /\ <<th[t].pkg, th[t].proc>> \in DenyTable
          /\ UNCHANGED dbVars

DbStep(t) ==
    /\ \/ Stored(t) /\ UNCHANGED blurred
       \/ NotStored(t) /\ blurred' = blurred \cup {Subject(th[t].op, th[t].pkg)}
    /\ Return(t)
    /\ UNCHANGED <<world, maps, enforced, lock, booted, logcat, raced, moved>>

-----------------------------------------------------------------------------
(* The logcat threads. *)

LogcatGoto(w, pc) ==
    /\ logcat' = [logcat EXCEPT ![w] = pc]
    /\ UNCHANGED <<dbVars, world, maps, enforced, lock, booted, th, ghosts>>

\* The inner loop: the flag, then a message; after an error or when the flag is off
\* the outer loop looks at the flag again, and ends or starts over.
LoopTop(w) == logcat[w] = "loop" /\ LogcatGoto(w, IF enforced THEN "read" ELSE "retry")
ReadFails(w) == logcat[w] = "read" /\ LogcatGoto(w, "retry")
Retry(w) == logcat[w] = "retry" /\ LogcatGoto(w, IF enforced THEN "loop" ELSE "none")

\* A message asks is_deny_target, which takes the lock; without maps it loads them.
ReadMessage(w) ==
    /\ logcat[w] = "read"
    /\ lock = None
    /\ maps.loaded
    /\ logcat' = [logcat EXCEPT ![w] = "loop"]
    /\ raced' = (raced \/ Scanning)
    /\ UNCHANGED <<dbVars, world, maps, enforced, lock, booted, th, moved, blurred>>

-----------------------------------------------------------------------------
(* An app is installed, removed, or installed again with another ID; the daemon *)
(* dies and starts again.                                                       *)

Move(app, id) ==
    /\ moves < MaxMoves
    /\ installed[app] # id
    /\ installed' = [installed EXCEPT ![app] = id]
    /\ moves' = moves + 1
    /\ moved' = moved \cup {app}
    /\ UNCHANGED <<dbVars, zygisk, daemon, ops, raced, blurred>>

Restart ==
    /\ DbRestart
    /\ maps' = NoMaps /\ enforced' = FALSE /\ lock' = None /\ booted' = FALSE
    /\ th' = [t \in Threads |-> Idle]
    /\ logcat' = [w \in Watchers |-> "none"]
    /\ raced' = FALSE /\ moved' = {} /\ blurred' = {}
    /\ UNCHANGED world

Request(t) ==
    \/ \E pkg \in PkgArgs, proc \in ProcArgs : ReceiveAdd(t, pkg, proc) \/ ReceiveRm(t, pkg, proc)
    \/ ReceiveLs(t)
    \/ \E app \in Apps \cup {ISOLATED_MAGIC}, proc \in ProcArgs \ {""} : ReceiveQuery(t, app, proc)
    \/ ReceiveEnable(t)
    \/ ReceiveDisable(t)
    \/ ReceiveRestart(t)
    \/ Boot(t)

Section(t) ==
    \/ Lock(t) \/ EnsureData(t) \/ EnsureFails(t)
    \/ AddLocked(t) \/ RmLocked(t) \/ LsLocked(t) \/ QueryLocked(t)
    \/ EnableRefused(t) \/ EnableLocked(t) \/ EnableSpawn(t)

Watch(w) == LoopTop(w) \/ ReadFails(w) \/ Retry(w) \/ ReadMessage(w)

\* with_db holds the mutex of the connection while it opens the database.  What the
\* other threads can do meanwhile does not touch the database, so that they might as
\* well do it before or after.  After a data race nothing more is known of the daemon
\* until it is restarted.
Next ==
    \/ /\ conn # "opening" /\ ~ raced
       /\ \/ \E t \in Threads : Request(t) \/ Section(t) \/ Answer(t) \/ ScanDone(t) \/ DbStep(t)
          \/ \E w \in Watchers : Watch(w)
    \/ \E app \in Apps, id \in AppIds \cup {0} : Move(app, id)
    \/ DbOpen /\ UNCHANGED denyVars
    \/ Restart

Spec == Init /\ [][Next]_vars

-----------------------------------------------------------------------------
\* What the maps, the threads and the lock of core/deny can be.
TypeOK ==
    /\ maps.views \subseteq Ids \X Keys
    /\ maps.stale \subseteq maps.views
    /\ maps.loaded \in BOOLEAN /\ enforced \in BOOLEAN /\ booted \in BOOLEAN
    /\ lock \in Threads \cup {None}
    /\ \A t \in Threads : lock = t <=> th[t].pc \in {"locked", "spawn"}
    /\ logcat \in [Watchers -> {"none", "loop", "read", "retry"}]

\* The views of a package.
ViewsOf(p) == {v \in maps.views : v[2] = p}

\* app_id_to_pkgs answers for exactly the listed packages, each under its own app ID,
\* and points to keys that are there: however commands, questions and rescans of the
\* daemon are interleaved, as long as the app was not installed anew or removed since
\* the last scan and no rescan of ZYGOTE_RESTART was in the maps together with
\* another thread.
ViewsExact ==
    /\ TypeOK
    /\ maps.loaded /\ ~ raced =>
          \A p \in Keys \ moved :
              /\ ViewsOf(p) = IF p \in DOMAIN maps.procs
                              THEN update_app_id(get_app_id(installed, p), p) ELSE {}
              /\ ViewsOf(p) \cap maps.stale = {}

\* The table denylist says what the maps say, for every package that no command is
\* working on, unless two commands on it overlapped (add_list and rm_list write to the
\* database after they have released the lock) or a statement on it failed: also when
\* the app was removed or installed anew in between.
DbFollowsMaps ==
    maps.loaded /\ ~ raced /\ conn = "open" =>
        \A p \in Keys \ blurred :
            ~ Busy(p) => {r[2] : r \in {q \in DenyTable : q[1] = p}} = ProcsOf(maps, p)

\* The stored setting is the state of enforcement, unless enable and disable overlapped
\* or one of them failed: the next boot does what the user asked for last.
SettingFollowsFlag ==
    booted /\ conn = "open" /\ "enforce" \notin blurred /\ ~ Busy("enforce") =>
        (enforced <=> "denylist" \in Settings)

\* While the denylist is enforced without zygisk, some logcat thread watches the
\* processes that start, or is about to be started: a thread that saw the flag off and
\* ends is never the last one, however disable and enable follow on each other.
SomeoneWatches ==
    enforced /\ ~ zygisk =>
        \/ \E w \in Watchers : logcat[w] # "none"
        \/ \E t \in Threads : At(t, "enable", "spawn")

\* Both: what the user asked for last is stored, and is what happens.
EnforcementFollows == SettingFollowsFlag /\ SomeoneWatches
=============================================================================
