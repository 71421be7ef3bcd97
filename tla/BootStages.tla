------------------------------ MODULE BootStages ------------------------------
(***************************************************************************)
(* The boot stages of magiskd: core/bootstages.rs, with the settings of    *)
(* core/db.rs, the module directories of core/module.rs, the native bridge *)
(* of core/zygisk/daemon.rs and the requests of core/daemon.rs that reach  *)
(* them.  A device boots, may be rebooted at any moment, and boots again.  *)
(*                                                                         *)
(* post_fs_data runs under boot_stage_lock for as long as pc is not        *)
(* "idle"; it is cut into steps where a reboot or a request that does not  *)
(* take that lock (ZYGOTE_RESTART, STOP_DAEMON) makes a difference.        *)
(***************************************************************************)
EXTENDS NativeBridge, FiniteSets

CONSTANTS Modules,        \* names under /data/adb/modules
          ZygiskModules,  \* those with a zygisk directory
          Installed,      \* the ones installed when the device first boots
          IsEmulator,     \* zygisk is on by default
          MaxBoots, MaxEdits

ASSUME StagesAssumption ==
    /\ Installed \subseteq Modules /\ ZygiskModules \subseteq Modules
    /\ IsEmulator \in BOOLEAN
    /\ MaxBoots \in Nat /\ MaxEdits \in Nat

VARIABLES
    boot_cnt, zygisk_cfg,     \* settings in the database
    root, pending,            \* /data/adb/modules and /data/adb/modules_update
    alive, state, zygisk_enabled,                    \* the daemon
    module_list,              \* {} before it is set, then {the list}
    pc, todo, cur, disable,                          \* post_fs_data
    db_ok,                    \* the database can be opened, in this boot
    zygote, restarts,         \* zygote, and requests ZYGOTE_RESTART on their way
    fired, injected,          \* what init has triggered; the name bind mounted
    boots, edits,
    strikes, off, zygiskOff   \* history

settings == <<boot_cnt, zygisk_cfg>>
dirs == <<root, pending>>
daemon == <<alive, state, zygisk_enabled, module_list, injected>>
stage == <<pc, todo, cur, disable>>
env == <<db_ok, zygote, restarts, fired>>
bounds == <<boots, edits>>
history == <<strikes, off, zygiskOff>>
vars == <<bridge, settings, dirs, daemon, stage, env, bounds, history>>

Flags == {"PostFsDataDone", "LateStartDone", "BootComplete", "SafeMode"}
NoModules == [m \in {} |-> m]
None == "none"
Fresh == [disable |-> FALSE, remove |-> FALSE]
With(f, m, r) == [n \in DOMAIN f \cup {m} |-> IF n = m THEN r ELSE f[n]]
Without(f, S) == [n \in DOMAIN f \ S |-> f[n]]

\* A new process has the state of MagiskD's Default.
NewDaemon ==
    /\ state' = {} /\ zygisk_enabled' = FALSE /\ module_list' = {}
    /\ pc' = "idle" /\ todo' = {} /\ cur' = None /\ disable' = FALSE
    /\ start_count' = 1 /\ lib_name' = <<>>

Init ==
    /\ BridgeInit
    /\ boot_cnt = 0 /\ zygisk_cfg \in {0, 1}
    /\ root = [m \in Installed |-> Fresh] /\ pending = {}
    /\ alive = TRUE /\ state = {} /\ zygisk_enabled = FALSE /\ module_list = {}
    /\ injected = <<>>
    /\ pc = "idle" /\ todo = {} /\ cur = None /\ disable = FALSE
    /\ db_ok \in BOOLEAN /\ zygote = "down" /\ restarts = 0 /\ fired = {}
    /\ boots = 1 /\ edits = 0
    /\ strikes = 0 /\ off = {} /\ zygiskOff = FALSE

-----------------------------------------------------------------------------
(* post_fs_data *)

\* check_data() holds and the request has boot_stage_lock; init triggers it once.
StartPostFsData ==
    /\ alive /\ pc = "idle"
    /\ "post-fs-data" \notin fired /\ "PostFsDataDone" \notin state
    /\ fired' = fired \cup {"post-fs-data"}
    /\ pc' = "env"
    /\ UNCHANGED <<bridge, settings, dirs, daemon, todo, cur, disable, db_ok, zygote, restarts,
                   bounds, history>>

\* post_fs_data returns true for abort and for safe mode.
Return(safe_mode) ==
    /\ pc' = "idle"
    /\ state' = state \cup {"PostFsDataDone"} \cup (IF safe_mode THEN {"SafeMode"} ELSE {})

\* The secure directory is missing, or setup_magisk_env finds no busybox.
Abort ==
    /\ pc = "env"
    /\ Return(TRUE)
    /\ UNCHANGED <<bridge, settings, dirs, alive, zygisk_enabled, module_list, injected, todo, cur,
                   disable, env, bounds, history>>

\* A setting that cannot be read has its default, one that cannot be written is
\* left as it was.
get_db_setting(value, default) == IF db_ok THEN value ELSE default
set_db_setting(value, new) == IF db_ok THEN new ELSE value

SafeCount_Three(cnt) == cnt >= 3
SafeCount(cnt) == cnt >= 2

\* "Check safe mode": the counter, or a property or the keys (combo).
CheckSafeMode(combo) ==
    /\ pc = "env"
    /\ LET cnt == get_db_setting(boot_cnt, 0)
           safe_mode == SafeCount(cnt) \/ combo
       IN  /\ boot_cnt' = set_db_setting(boot_cnt, cnt + 1)
           /\ pc' = IF safe_mode THEN "disable" ELSE "config"
           /\ todo' = IF safe_mode THEN DOMAIN root ELSE {}
           /\ strikes' = IF safe_mode \/ ~ db_ok THEN strikes ELSE strikes + 1
    /\ UNCHANGED <<bridge, zygisk_cfg, dirs, daemon, cur, disable, env, bounds, off, zygiskOff>>

\* disable_modules, one directory.
disable_modules(m) ==
    /\ pc = "disable" /\ m \in todo
    /\ root' = [root EXCEPT ![m].disable = TRUE]
    /\ todo' = todo \ {m}
    /\ off' = off \cup {m}
    /\ UNCHANGED <<bridge, settings, pending, daemon, pc, cur, disable, env, bounds, strikes, zygiskOff>>

DisableZygisk ==
    /\ pc = "disable" /\ todo = {}
    /\ zygisk_cfg' = set_db_setting(zygisk_cfg, 0)
    /\ zygiskOff' = (zygiskOff \/ db_ok)
    /\ Return(TRUE)
    /\ UNCHANGED <<bridge, boot_cnt, dirs, alive, zygisk_enabled, module_list, injected, todo, cur,
                   disable, env, bounds, strikes, off>>

\* exec_common_scripts, zygisk_enabled and initialize_denylist; then handle_modules.
ReadZygiskConfig ==
    /\ pc = "config"
    /\ zygisk_enabled' = (get_db_setting(zygisk_cfg, IF IsEmulator THEN 1 ELSE 0) # 0)
    /\ pc' = "upgrade"
    /\ todo' = pending
    /\ UNCHANGED <<bridge, settings, dirs, alive, state, module_list, injected, cur, disable, env,
                   bounds, history>>

-----------------------------------------------------------------------------
(* upgrade_modules: each directory in modules_update replaces its namesake. *)

\* An old module is deleted file by file, its disable among them.
RemoveOld(m) ==
    /\ pc = "upgrade" /\ m \in todo
    /\ cur' = m
    /\ disable' = (m \in DOMAIN root /\ root[m].disable)
    /\ root' = IF m \in DOMAIN root THEN [root EXCEPT ![m] = Fresh] ELSE root
    /\ pc' = "unlink"
    /\ UNCHANGED <<bridge, settings, pending, daemon, todo, env, bounds, history>>

UnlinkOld ==
    /\ pc = "unlink"
    /\ root' = Without(root, {cur})
    /\ pc' = "rename"
    /\ UNCHANGED <<bridge, settings, pending, daemon, todo, cur, disable, env, bounds, history>>

AfterRename_Enabled == "upgrade"
AfterRename == IF disable THEN "redisable" ELSE "upgrade"

RenameNew ==
    /\ pc = "rename"
    /\ root' = With(root, cur, Fresh)
    /\ pending' = pending \ {cur}
    /\ todo' = todo \ {cur}
    /\ pc' = AfterRename
    /\ UNCHANGED <<bridge, settings, daemon, cur, disable, env, bounds, history>>

\* "If the old module is disabled, we need to also disable the new one".
DisableNew ==
    /\ pc = "redisable"
    /\ root' = [root EXCEPT ![cur].disable = TRUE]
    /\ pc' = "upgrade"
    /\ UNCHANGED <<bridge, settings, pending, daemon, todo, cur, disable, env, bounds, history>>

-----------------------------------------------------------------------------
(* collect_modules, the scripts of the modules, and apply_modules. *)

Removed == {m \in DOMAIN root : root[m].remove}
Active ==
    {m \in DOMAIN root \ Removed : ~ root[m].disable /\ (m \in ZygiskModules => zygisk_enabled)}

Collect ==
    /\ pc = "upgrade" /\ todo = {}
    /\ root' = Without(root, Removed)
    /\ off' = off \ Removed
    /\ pc' = "scripts"
    /\ todo' = Active
    /\ UNCHANGED <<bridge, settings, pending, daemon, cur, disable, env, bounds, strikes, zygiskOff>>

\* "module scripts could remove itself", or disable.
ModuleScript(m) ==
    /\ pc = "scripts" /\ m \in todo
    /\ todo' = todo \ {m}
    /\ \E r \in {root[m], [root[m] EXCEPT !.remove = TRUE], [root[m] EXCEPT !.disable = TRUE]} :
        root' = [root EXCEPT ![m] = r]
    /\ UNCHANGED <<bridge, settings, pending, daemon, pc, cur, disable, env, bounds, history>>

\* inject_zygisk_bins(&zygisk.lib_name, ..), after set_prop.
InjectedName == lib_name'

\* Recollect, the loader under the name in lib_name, and post_fs_data is done.
ApplyModules ==
    /\ pc = "scripts" /\ todo = {}
    /\ module_list' = {Active}
    /\ root' = Without(root, Removed)
    /\ off' = off \ Removed
    /\ \/ zygisk_enabled /\ set_prop /\ injected' = InjectedName
       \/ ~ zygisk_enabled /\ UNCHANGED <<nbprop, lib_name, blind, late, injected>>
    /\ Return(FALSE)
    /\ UNCHANGED <<start_count, stopping, settings, pending, alive, zygisk_enabled, todo, cur, disable,
                   env, bounds, strikes, zygiskOff>>

-----------------------------------------------------------------------------
(* The other requests. *)

\* late_start changes nothing but the flag: it runs scripts.
MayLateStart == "PostFsDataDone" \in state /\ "SafeMode" \notin state
LateStart ==
    /\ alive /\ pc = "idle" /\ "service" \notin fired
    /\ fired' = fired \cup {"service"}
    /\ state' = IF MayLateStart THEN state \cup {"LateStartDone"} ELSE state
    /\ UNCHANGED <<bridge, settings, dirs, alive, zygisk_enabled, module_list, injected, stage,
                   db_ok, zygote, restarts, bounds, history>>

ResetCount(cnt) == set_db_setting(cnt, 0)

\* sys.boot_completed is set by a system that runs.
BootComplete ==
    /\ alive /\ pc = "idle" /\ "boot-complete" \notin fired /\ zygote # "down"
    /\ fired' = fired \cup {"boot-complete"}
    /\ IF "PostFsDataDone" \in state
       THEN /\ state' = state \cup {"BootComplete"}
            /\ boot_cnt' = ResetCount(boot_cnt)
            /\ strikes' = IF db_ok THEN 0 ELSE strikes
            /\ IF zygisk_enabled THEN reset_restore ELSE UNCHANGED bridge
       ELSE UNCHANGED <<state, boot_cnt, strikes, bridge>>
    /\ UNCHANGED <<zygisk_cfg, dirs, alive, zygisk_enabled, module_list, injected, stage, db_ok,
                   zygote, restarts, bounds, off, zygiskOff>>

\* ZYGOTE_RESTART, on a thread of the pool; lost when there is no daemon.
ZygoteRestart ==
    /\ restarts > 0
    /\ restarts' = restarts - 1
    /\ IF alive /\ zygisk_enabled THEN reset_crash ELSE UNCHANGED bridge
    /\ UNCHANGED <<settings, dirs, daemon, stage, db_ok, zygote, fired, bounds, history>>

\* A module whose upgrade is cut short may come back enabled.
Interrupted == IF pc \in {"unlink", "rename", "redisable"} THEN {cur} ELSE {}

\* STOP_DAEMON, on the main thread, whatever the others do: denylist_handler(-1) and
\* restore_prop.  Then it answers the client, while threads of the pool go on: what
\* is handled before ExitDaemon was given to the pool before.
StopDaemon ==
    /\ alive /\ ~ stopping /\ edits < MaxEdits
    /\ edits' = edits + 1
    /\ restore_prop
    /\ stopping' = TRUE
    /\ UNCHANGED <<start_count, settings, dirs, daemon, stage, env, boots, history>>

ExitDaemon ==
    /\ alive /\ stopping
    /\ alive' = FALSE /\ stopping' = FALSE
    /\ off' = off \ Interrupted
    /\ NewDaemon
    /\ UNCHANGED <<nbprop, blind, late, settings, dirs, injected, env, bounds, strikes, zygiskOff>>

\* connect_daemon(create) of a client that is root.
StartDaemon ==
    /\ ~ alive
    /\ alive' = TRUE
    /\ UNCHANGED <<bridge, settings, dirs, state, zygisk_enabled, module_list, injected, stage, env,
                   bounds, history>>

-----------------------------------------------------------------------------
(* Android (external): zygote, reboots, and the user of a booted device. *)

\* Not before init is past post-fs-data, which it waits for at most 40 seconds.
ZygoteStart ==
    /\ zygote = "down" /\ "post-fs-data" \in fired
    /\ zygote' = IF HasLoader(nbprop) THEN "injected" ELSE "plain"
    /\ UNCHANGED <<bridge, settings, dirs, daemon, stage, db_ok, restarts, fired, bounds, history>>

\* What is loaded into it may make it crash for ever, anything else at times.
\* At most MaxRequests are on their way.
MaxRequests == 2
ZygoteCrash ==
    /\ \/ zygote = "injected" /\ UNCHANGED edits
       \/ zygote = "plain" /\ edits < MaxEdits /\ edits' = edits + 1
    /\ zygote' = "down"
    /\ restarts' = IF restarts < MaxRequests THEN restarts + 1 ELSE restarts
    /\ UNCHANGED <<bridge, settings, dirs, daemon, stage, db_ok, fired, boots, history>>

Reboot ==
    /\ boots < MaxBoots
    /\ boots' = boots + 1
    /\ NewDaemon
    /\ alive' = TRUE /\ injected' = <<>>
    /\ nbprop' = Orig /\ stopping' = FALSE /\ blind' = FALSE /\ late' = FALSE
    /\ db_ok' \in BOOLEAN /\ zygote' = "down" /\ restarts' = 0 /\ fired' = {}
    /\ off' = off \ Interrupted
    /\ UNCHANGED <<settings, dirs, edits, strikes, zygiskOff>>

User ==
    /\ "boot-complete" \in fired /\ edits < MaxEdits
    /\ edits' = edits + 1
    /\ UNCHANGED <<bridge, boot_cnt, daemon, stage, env, boots, strikes>>

Toggle(m) ==
    /\ m \in DOMAIN root /\ pc = "idle"
    /\ root' = [root EXCEPT ![m].disable = ~ @]
    /\ off' = IF root'[m].disable THEN off \cup {m} ELSE off \ {m}
    /\ UNCHANGED <<pending, zygisk_cfg, zygiskOff>>

\* The module installer leaves a directory in modules_update.
Install(m) ==
    /\ m \notin pending /\ pc = "idle"
    /\ pending' = pending \cup {m}
    /\ UNCHANGED <<root, zygisk_cfg, off, zygiskOff>>

SetZygisk(value) ==
    /\ zygisk_cfg' = set_db_setting(zygisk_cfg, value)
    /\ zygiskOff' = (zygiskOff /\ zygisk_cfg' = 0)
    /\ UNCHANGED <<dirs, off>>

RemoveModules ==
    /\ pc = "idle"
    /\ root' = NoModules
    /\ off' = {}
    /\ UNCHANGED <<pending, zygisk_cfg, zygiskOff>>

UserStep ==
    /\ User
    /\ \/ \E m \in Modules : Toggle(m) \/ Install(m)
       \/ \E v \in {0, 1} : SetZygisk(v)
       \/ RemoveModules

-----------------------------------------------------------------------------
PostFsData ==
    \/ StartPostFsData \/ Abort
    \/ \E combo \in BOOLEAN : CheckSafeMode(combo)
    \/ \E m \in Modules : disable_modules(m) \/ RemoveOld(m) \/ ModuleScript(m)
    \/ DisableZygisk \/ ReadZygiskConfig \/ UnlinkOld \/ RenameNew \/ DisableNew
    \/ Collect \/ ApplyModules

Next ==
    \/ PostFsData
    \/ LateStart \/ BootComplete \/ ZygoteRestart \/ StopDaemon \/ ExitDaemon \/ StartDaemon
    \/ ZygoteStart \/ ZygoteCrash \/ Reboot \/ UserStep

Spec == Init /\ [][Next]_vars

\* Requests are handled and init restarts zygote, for as long as it crashes.
FairSpec == Spec /\ WF_vars(ZygoteRestart) /\ WF_vars(ZygoteStart)

-----------------------------------------------------------------------------
\* The values of the variables; no later stage is noted before post-fs-data.
TypeOK ==
    /\ boot_cnt \in Nat /\ zygisk_cfg \in {0, 1}
    /\ DOMAIN root \subseteq Modules /\ pending \subseteq Modules
    /\ root \in [DOMAIN root -> [disable : BOOLEAN, remove : BOOLEAN]]
    /\ state \subseteq Flags
    /\ state \cap {"LateStartDone", "BootComplete", "SafeMode"} # {} => "PostFsDataDone" \in state
    /\ module_list \subseteq SUBSET Modules
    /\ pc \in {"idle", "env", "disable", "config", "upgrade", "unlink", "rename", "redisable", "scripts"}
    /\ todo \subseteq Modules /\ (pc \in {"unlink", "rename", "redisable"} => cur \in Modules)
    /\ start_count \in 1..MaxStarts

\* Between two boots that complete, modules are started in at most two: a third
\* boot in a row is in safe mode.  Boots without a database do not count.
BootloopRescue == strikes <= 2 /\ strikes <= boot_cnt

\* "Disable all modules and zygisk so next boot will be clean": what safe mode,
\* or the user, turned off is not started in a later boot until the user turns
\* it on, through upgrades too, unless a reboot or the end of the
\* daemon cut its upgrade short.
StaysOff ==
    [][\A list \in module_list' \ module_list :
        /\ off \cap list = {}
        /\ zygiskOff /\ db_ok => ~ zygisk_enabled]_vars

\* The loader is bind mounted under the name that the property gives to zygote,
\* unless an original value was lost.
LoaderFound == ~ blind /\ injected # <<>> /\ HasLoader(nbprop) => nbprop = injected

\* Both, in states of the right types: what zygote is told to load is there, and
\* can be taken back.
BridgeSound == TypeOK /\ BridgeExact /\ LoaderFound

=============================================================================
