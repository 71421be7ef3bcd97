-------------------------------- MODULE Zygisk --------------------------------
(***************************************************************************)
(* Zygisk (core/zygisk/): how the library gets into the zygote, hooks it,  *)
(* runs modules around the specialization of a process and removes itself. *)
(* A fork copies all memory, so the model follows one process: at a fork   *)
(* it goes on as the parent or as the child.                               *)
(***************************************************************************)
EXTENDS Integers, Sequences, FiniteSets

CONSTANTS
    NModules,       \* installed modules, numbered as in magiskd's module_list
    Devices,        \* [has, known: Zygote methods there are and of a known signature,
                    \*  missing: hooks lsplt cannot place, callbacks: found on the
                    \*  stack, ignore: the fork has an fds_to_ignore argument]
    MaxStarts,      \* bound on the times ZygoteInit's name reaches strdup
    MaxCalls,       \* bound on the specializations one process goes through
    MaxFd           \* file descriptors are 1 .. MaxFd; 1 is open from the start

\* The other four symbols are imported by every libandroid_runtime.so and
\* libnativebridge.so that Zygisk supports.
MayMiss == {"selinux_android_setcontext", "strdup"}

ASSUME ZygiskAssumption ==
    /\ NModules \in Nat /\ MaxStarts \in Nat /\ MaxCalls \in Nat /\ MaxFd \in Nat \ {0}
    /\ \A d \in Devices : d.known \subseteq d.has /\ d.missing \subseteq MayMiss
                         /\ d.has \subseteq {"nativeForkAndSpecialize", "nativeForkSystemServer",
                                             "nativeSpecializeAppProcess"}
                         /\ d.callbacks \in BOOLEAN

VARIABLES
    device,     \* what the platform is like
    mapped,     \* the library is in memory
    g_hook,     \* HookContext: [alive, self_handle, callbacks, should_unmap, jni_hooked]
    plt,        \* the PLT slots that point into the library
    backup,     \* plt_backup: the slots that restore_plt_hook puts back
    natives,    \* the functions registered for the Zygote class: "orig" or "zygisk"
    table,      \* fnPtr of the matching entry of fork_app_methods, ...
    g_ctx,      \* ZygiskContext, or NoCtx
    mods,       \* the modules' libraries in this process
    fds,        \* open file descriptors
    logd,       \* the log pipe is open
    sigchld,    \* SIGCHLD is blocked
    mounts,     \* "magisk", or "clean" after revert_unmount
    who,        \* "zygote", "usap" or "child"
    pc,         \* where the process is
    starts, calls,
    forks,      \* real forks of the current call
    lost,       \* a fork of ours has failed in this process
    failed      \* module ids reported to magiskd

hookVars == <<mapped, g_hook, plt, backup, natives, table>>
procVars == <<fds, logd, sigchld, mounts, mods>>
runVars == <<device, who, starts, calls, forks, lost, failed>>
vars == <<hookVars, procVars, runVars, g_ctx, pc>>

Symbols == {"dlclose", "fork", "unshare", "selinux_android_setcontext", "strdup",
            "__android_log_close"}
Unloader == "pthread_attr_destroy"
Methods == {"nativeForkAndSpecialize", "nativeSpecializeAppProcess", "nativeForkSystemServer"}
Ids == 1 .. NModules
Fds == 1 .. MaxFd
NoCtx == [method |-> "none"]
UNMOUNT_MASK == {"OnDenyList", "Enforced"}

Init ==
    /\ device \in Devices
    /\ mapped = TRUE
    /\ g_hook = [alive |-> FALSE, self_handle |-> FALSE, callbacks |-> FALSE,
                 should_unmap |-> FALSE, jni_hooked |-> FALSE]
    /\ plt = {} /\ backup = {}
    /\ natives = [m \in device.has |-> "orig"]
    /\ table = [m \in Methods |-> "zygisk"]
    /\ g_ctx = NoCtx /\ mods = [i \in Ids |-> "none"]
    /\ fds = {1} /\ logd = FALSE /\ sigchld = FALSE /\ mounts = "magisk"
    /\ who = "zygote" /\ pc = "start"
    /\ starts = 0 /\ calls = 0 /\ forks = 0 /\ lost = FALSE /\ failed = {}

Goto(from, to) == pc = from /\ pc' = to
-----------------------------------------------------------------------------
(***************************************************************************)
(* Bootstrap.                                                              *)
(***************************************************************************)
\* The log pipe opens at the first message, if it can be opened at all.
MayLog == logd' \in {logd, TRUE}

\* hook_plt replaces the slots and remembers those it could hook.
hook_plt == plt' = Symbols \ device.missing /\ backup' = plt'

\* NativeBridgeItf.isCompatibleWith: logging starts, then hook_entry.
hook_entry ==
    /\ Goto("start", "bridge")
    /\ g_hook' = [g_hook EXCEPT !.alive = TRUE]
    /\ hook_plt /\ MayLog
    /\ UNCHANGED <<mapped, natives, table, fds, sigchld, mounts, mods, runVars, g_ctx>>

\* The runtime callbacks are looked for on the stack.
post_native_bridge_load == [g_hook EXCEPT !.self_handle = TRUE, !.callbacks = device.callbacks]

\* libnativebridge closes the loader: our dlclose keeps it mapped instead.
new_dlclose ==
    /\ Goto("bridge", "run")
    /\ g_hook' = IF g_hook.self_handle THEN g_hook ELSE post_native_bridge_load
    /\ UNCHANGED <<mapped, plt, backup, natives, table, procVars, runVars, g_ctx>>

\* hook_jni_methods swaps what is registered with what the table holds; with a
\* method nobody can hook, what was replaced is put back and the table cleared.
Unhookable == {m \in device.has : m \notin device.known \/ table[m] = "null"}

hook_zygote_jni_Again ==
    IF Unhookable # {}
    THEN table' = [m \in Methods |-> "null"] /\ UNCHANGED <<natives, g_hook>>
    ELSE /\ natives' = [m \in device.has |-> table[m]]
         /\ table' = [m \in Methods |-> IF m \in device.has THEN natives[m] ELSE table[m]]
         /\ g_hook' = [g_hook EXCEPT !.jni_hooked = Methods = device.has]
hook_zygote_jni ==
    IF g_hook.jni_hooked THEN UNCHANGED <<natives, table, g_hook>>
    ELSE IF Unhookable # {}
    THEN table' = [m \in Methods |-> "null"] /\ UNCHANGED <<natives, g_hook>>
    ELSE /\ natives' = [m \in device.has |-> table[m]]
         /\ table' = [m \in Methods |-> IF m \in device.has THEN natives[m] ELSE table[m]]
         /\ g_hook' = [g_hook EXCEPT !.jni_hooked = Methods = device.has]

\* AndroidRuntime::start copies the name of ZygoteInit.  The Java VM may not be
\* found (vm = FALSE); without the runtime callbacks the read of the registered
\* methods is a null dereference.
new_strdup(vm) ==
    /\ pc = "run" /\ who = "zygote" /\ starts < MaxStarts /\ "strdup" \in plt
    /\ starts' = starts + 1
    /\ IF ~ vm THEN UNCHANGED <<natives, table, g_hook, pc>>
       ELSE IF ~ g_hook.callbacks /\ ~ g_hook.jni_hooked
       THEN pc' = "crashed" /\ UNCHANGED <<natives, table, g_hook>>
       ELSE hook_zygote_jni /\ UNCHANGED pc
    /\ MayLog
    /\ UNCHANGED <<mapped, plt, backup, fds, sigchld, mounts, mods, device, who, calls, forks, lost,
                   failed, g_ctx>>
-----------------------------------------------------------------------------
(***************************************************************************)
(* The wrappers of jni_hooks.hpp: ZygiskContext, _pre, the original        *)
(* method, _post, ~ZygiskContext.                                          *)
(***************************************************************************)
is_child(c) == c.pid <= 0
IsApp(c) == c.method # "nativeForkSystemServer"

NewCtx(m) ==
    [method |-> m, pid |-> -1, revert |-> FALSE, unshared |-> FALSE,
     skip |-> m = "nativeSpecializeAppProcess", info |-> {}, at |-> 1, marked |-> {},
     allowed |-> {}, exempted |-> {}, ignored |-> {}, unload |-> {}]

\* The zygote forks a process for later use: our fork passes the call on, our
\* __android_log_close has closed the pipe before.
ForkUsap ==
    /\ pc = "run" /\ who = "zygote" /\ calls < MaxCalls
    /\ "nativeSpecializeAppProcess" \in device.has
    /\ who' = "usap" /\ logd' = FALSE
    /\ UNCHANGED <<hookVars, fds, sigchld, mounts, mods, device, starts, calls, forks, lost, failed,
                   g_ctx, pc>>

CanCall(m) ==
    /\ pc = "run" /\ calls < MaxCalls /\ m \in device.has /\ natives[m] = "zygisk"
    /\ who = IF m = "nativeSpecializeAppProcess" THEN "usap" ELSE "zygote"

nativeSpecializeAppProcess ==
    /\ CanCall("nativeSpecializeAppProcess")
    /\ g_ctx' = NewCtx("nativeSpecializeAppProcess")
    /\ calls' = calls + 1 /\ forks' = 0 /\ pc' = "info"
    /\ UNCHANGED <<hookVars, procVars, device, who, starts, lost, failed>>

\* fork_pre: SIGCHLD is blocked, we fork before the original does, and the child
\* records its open descriptors (not the log pipe).  A fork that fails leaves
\* pid = -1.
fork_pre(m, result) ==
    LET pid == CASE result = "parent" -> 7 [] result = "child" -> 0 [] OTHER -> -1
        c == [NewCtx(m) EXCEPT !.pid = pid]
    IN  /\ CanCall(m)
        /\ g_ctx' = IF is_child(c) THEN [c EXCEPT !.allowed = fds] ELSE c
        /\ IF is_child(c) THEN MayLog ELSE UNCHANGED logd
        /\ sigchld' = TRUE /\ calls' = calls + 1
        /\ forks' = IF result = "failed" THEN 0 ELSE 1
        /\ lost' = (lost \/ result = "failed")
        /\ who' = IF result = "child" THEN "child" ELSE who
        /\ pc' = IF is_child(c) THEN "info" ELSE "sanitize"
        /\ UNCHANGED <<hookVars, fds, mounts, mods, device, starts, failed>>

nativeForkAndSpecialize(result) == fork_pre("nativeForkAndSpecialize", result)
nativeForkSystemServer(result) == fork_pre("nativeForkSystemServer", result)

zygisk_should_load_module(info) ==
    ~ (UNMOUNT_MASK \subseteq info) /\ "MagiskApp" \notin info

\* What is left to do in _pre once no module runs: a forked process sanitizes.
AfterPre(c) == IF c.method = "nativeSpecializeAppProcess" THEN "original" ELSE "sanitize"

\* app_specialize_pre, server_specialize_pre: magiskd answers with the state
\* flags of the process and the module libraries, or cannot be reached.
GetInfo(ok, info) ==
    LET c == [g_ctx EXCEPT !.info = IF ok THEN info ELSE {},
                           !.revert = ok /\ IsApp(g_ctx) /\ UNMOUNT_MASK \subseteq info]
    IN  /\ pc = "info" /\ g_ctx' = c
        /\ pc' = IF ok /\ NModules > 0 /\ zygisk_should_load_module(info) /\ ~ c.revert
                 THEN "load" ELSE AfterPre(c)
        /\ UNCHANGED <<hookVars, procVars, runVars>>

\* run_modules_pre, first loop: every library that is a regular file is opened
\* and its entry looked up.  What is no regular file is marked, and in the system
\* server also what cannot be opened.
LoadModules(kind) ==
    /\ Goto("load", "onLoad")
    /\ mods' = [i \in Ids |-> CASE kind[i] \in {"good", "invalid"} -> kind[i]
                                [] kind[i] = "noentry" -> "left"
                                [] OTHER -> "none"]
    /\ g_ctx' = [g_ctx EXCEPT !.marked =
                   {i \in Ids : kind[i] = "notreg" \/ (kind[i] = "broken" /\ ~ IsApp(g_ctx))}]
    /\ UNCHANGED <<hookVars, fds, logd, sigchld, mounts, runVars>>

exempt_fd(c, fd) ==
    IF pc = "post" \/ c.skip \/ c.method # "nativeForkAndSpecialize" \/ ~ device.ignore THEN c
    ELSE [c EXCEPT !.exempted = @ \cup {fd}]

\* What a module's callback may do through its API table (version 4).
Asked(i, does, fd) ==
    CASE does = "exempt" -> exempt_fd(g_ctx, fd)
      [] does = "unmount" -> [g_ctx EXCEPT !.revert = TRUE]
      [] does = "dlclose" -> [g_ctx EXCEPT !.unload = @ \cup {i}]
      [] OTHER -> g_ctx

Callback(i, does) ==
    LET free == Fds \ fds
        fd == CHOOSE x \in free : \A y \in free : x <= y
    IN  /\ does \in {"open", "exempt"} => free # {}
        /\ fds' = IF does \in {"open", "exempt"} THEN fds \cup {fd} ELSE fds
        /\ g_ctx' = [Asked(i, does, fd) EXCEPT !.at = i + 1]

Does == {"nothing", "open", "exempt", "unmount", "dlclose"}

\* One iteration of a loop over the list of modules; the others are not in it.
Skip(i) == g_ctx' = [g_ctx EXCEPT !.at = i + 1] /\ UNCHANGED fds

\* onLoad runs the entry, which registers the module; a module whose table is
\* not valid leaves the list and is not called again.
onLoad(i, does) ==
    /\ pc = "onLoad" /\ g_ctx.at = i
    /\ IF mods[i] \in {"none", "left"} THEN does = "nothing" /\ Skip(i) ELSE Callback(i, does)
    /\ mods' = [mods EXCEPT ![i] = IF @ = "invalid" THEN "left" ELSE @]
    /\ UNCHANGED <<hookVars, logd, sigchld, mounts, runVars, pc>>

preSpecialize(i, does) ==
    /\ pc = "preSpecialize" /\ g_ctx.at = i
    /\ IF mods[i] # "good" THEN does = "nothing" /\ Skip(i) ELSE Callback(i, does)
    /\ mods' = [mods EXCEPT ![i] = IF @ = "good" THEN "pre" ELSE @]
    /\ UNCHANGED <<hookVars, logd, sigchld, mounts, runVars, pc>>

\* run_modules_post: the post callback, then the library is closed if the module
\* asked for it.
postSpecialize(i, does) ==
    /\ pc = "post" /\ is_child(g_ctx) /\ g_ctx.at = i
    /\ IF mods[i] # "pre" THEN does = "nothing" /\ Skip(i) ELSE Callback(i, does)
    /\ mods' = [mods EXCEPT ![i] =
                   IF @ # "pre" THEN @ ELSE IF i \in g_ctx'.unload THEN "closed" ELSE "post"]
    /\ UNCHANGED <<hookVars, logd, sigchld, mounts, runVars, pc>>

\* A loop over the modules has ended; after the second one the system server
\* reports the marked modules to magiskd.
LoopEnds ==
    /\ pc \in {"onLoad", "preSpecialize"} /\ g_ctx.at > NModules
    /\ g_ctx' = [g_ctx EXCEPT !.at = 1]
    /\ pc' = IF pc = "onLoad" THEN "preSpecialize" ELSE AfterPre(g_ctx)
    /\ failed' = IF pc = "onLoad" \/ IsApp(g_ctx) THEN failed ELSE g_ctx.marked
    /\ UNCHANGED <<hookVars, procVars, device, who, starts, calls, forks, lost>>

\* sanitize_fds: the log pipe is closed; the child closes every descriptor that
\* was not open at the fork, but for those modules exempted, which the original
\* method is told to ignore.  Without memory for the new array nothing is exempted.
sanitize_fds_NotIgnored(array) ==
    LET exempted == IF array THEN g_ctx.exempted ELSE {} IN
    /\ Goto("sanitize", "original")
    /\ logd' = FALSE
    /\ fds' = IF is_child(g_ctx) THEN fds \cap (g_ctx.allowed \cup exempted) ELSE fds
    /\ UNCHANGED <<hookVars, sigchld, mounts, mods, runVars, g_ctx>>
sanitize_fds(array) ==
    LET exempted == IF array THEN g_ctx.exempted ELSE {} IN
    /\ Goto("sanitize", "original")
    /\ logd' = FALSE
    /\ fds' = IF is_child(g_ctx) THEN fds \cap (g_ctx.allowed \cup exempted) ELSE fds
    /\ g_ctx' = IF is_child(g_ctx) THEN [g_ctx EXCEPT !.ignored = exempted] ELSE g_ctx
    /\ UNCHANGED <<hookVars, sigchld, mounts, mods, runVars>>

(***************************************************************************)
(* The original method (external), calling our hooks.                      *)
(***************************************************************************)
\* It closes its log descriptors; a forking one then checks the open descriptors.
new_android_log_close ==
    /\ Goto("original", "check")
    /\ logd' = IF g_ctx.skip THEN logd ELSE FALSE
    /\ UNCHANGED <<hookVars, fds, sigchld, mounts, mods, runVars, g_ctx>>

\* fork returns the cached pid, or forks when there is none.
new_fork_Always(result) ==
    /\ pc = "check" /\ g_ctx.method # "nativeSpecializeAppProcess"
    /\ result # "cached"
    /\ forks' = IF result = "failed" THEN forks ELSE forks + 1
    /\ who' = IF result = "child" THEN "child" ELSE who
    /\ pc' = IF result = "child" THEN "unshare" ELSE "post"
    /\ UNCHANGED <<hookVars, procVars, device, starts, calls, lost, failed, g_ctx>>
new_fork(result) ==
    /\ pc = "check" /\ g_ctx.method # "nativeSpecializeAppProcess"
    /\ (result = "cached") = (g_ctx.pid >= 0)
    /\ forks' = IF result \in {"cached", "failed"} THEN forks ELSE forks + 1
    /\ who' = IF result = "child" THEN "child" ELSE who
    /\ pc' = IF result = "child" \/ (result = "cached" /\ g_ctx.pid = 0) THEN "unshare" ELSE "post"
    /\ UNCHANGED <<hookVars, procVars, device, starts, calls, lost, failed, g_ctx>>

\* Where the process gets a mount namespace of its own (ns), Magisk's mounts are
\* reverted in it.
new_unshare_NoRevert(ns) ==
    /\ pc = "unshare" \/ (pc = "check" /\ g_ctx.method = "nativeSpecializeAppProcess")
    /\ g_ctx' = [g_ctx EXCEPT !.unshared = ns]
    /\ pc' = "setcontext"
    /\ UNCHANGED <<hookVars, fds, logd, sigchld, mounts, mods, runVars>>
new_unshare(ns) ==
    /\ pc = "unshare" \/ (pc = "check" /\ g_ctx.method = "nativeSpecializeAppProcess")
    /\ mounts' = IF ns /\ g_ctx.revert THEN "clean" ELSE mounts
    /\ g_ctx' = [g_ctx EXCEPT !.unshared = ns]
    /\ pc' = "setcontext"
    /\ UNCHANGED <<hookVars, fds, logd, sigchld, mods, runVars>>

\* The log pipe is opened while the context still allows it.
new_selinux_android_setcontext ==
    /\ Goto("setcontext", "post")
    /\ IF "selinux_android_setcontext" \in plt THEN MayLog ELSE UNCHANGED logd
    /\ UNCHANGED <<hookVars, fds, sigchld, mounts, mods, runVars, g_ctx>>

(***************************************************************************)
(* _post and ~ZygiskContext.                                               *)
(***************************************************************************)
\* The parent only unblocks SIGCHLD and returns to the zygote.
ParentReturns ==
    /\ Goto("post", "run") /\ ~ is_child(g_ctx)
    /\ sigchld' = FALSE /\ g_ctx' = NoCtx
    /\ UNCHANGED <<hookVars, fds, logd, mounts, mods, runVars>>

restore_zygote_hook_ForkOnly ==
    [m \in device.has |-> IF table[m] = "null" \/ m = "nativeForkSystemServer" THEN natives[m]
                          ELSE table[m]]
restore_zygote_hook == [m \in device.has |-> IF table[m] = "null" THEN natives[m] ELSE table[m]]

hook_unloader(ok) ==
    /\ plt' = IF ok THEN plt \cup {Unloader} ELSE plt
    /\ backup' = backup \cup {Unloader}

\* The child: fork_post, then the destructor takes the API away from the
\* modules, puts the methods back and hooks pthread_attr_destroy, if it can.
ChildReturns(ok) ==
    /\ Goto("post", "live") /\ is_child(g_ctx) /\ g_ctx.at > NModules
    /\ sigchld' = (sigchld /\ g_ctx.method = "nativeSpecializeAppProcess")
    /\ g_ctx' = NoCtx /\ logd' = FALSE
    /\ g_hook' = [g_hook EXCEPT !.should_unmap = TRUE]
    /\ natives' = restore_zygote_hook
    /\ hook_unloader(ok)
    /\ UNCHANGED <<mapped, table, fds, mounts, mods, runVars>>

\* Every slot is put back, except for those (left) that a failing CommitHook
\* leaves; any failure cancels the unmapping.
restore_plt_hook(left) ==
    /\ plt' = (plt \ backup) \cup left
    /\ g_hook' = [g_hook EXCEPT !.alive = FALSE, !.should_unmap = @ /\ left = {}]

\* The main thread destroys thread attributes: the library is unmapped if it still
\* should be, and g_hook is deleted either way.
new_pthread_attr_destroy(left) ==
    /\ pc = "live" /\ Unloader \in plt /\ g_hook.alive /\ left \subseteq plt
    /\ restore_plt_hook(left)
    /\ mapped' = ~ g_hook'.should_unmap
    /\ UNCHANGED <<backup, natives, table, procVars, runVars, g_ctx, pc>>

\* A slot that stayed hooked uses the deleted g_hook.
UseDeleted ==
    /\ pc = "live" /\ plt \cap {Unloader, "dlclose", "strdup"} # {} /\ ~ g_hook.alive
    /\ pc' = "crashed"
    /\ UNCHANGED <<hookVars, procVars, runVars, g_ctx>>
-----------------------------------------------------------------------------
Forked == {"parent", "child", "failed"}
Kinds == {"good", "invalid", "noentry", "notreg", "broken"}
Infos == {{}, {"OnDenyList"}, UNMOUNT_MASK, {"MagiskApp"}}

Next ==
    \/ hook_entry
    \/ new_dlclose
    \/ \E vm \in BOOLEAN : new_strdup(vm)
    \/ ForkUsap
    \/ nativeSpecializeAppProcess
    \/ \E result \in Forked : nativeForkAndSpecialize(result) \/ nativeForkSystemServer(result)
    \/ \E ok \in BOOLEAN, info \in Infos : GetInfo(ok, info)
    \/ \E kind \in [Ids -> Kinds] : LoadModules(kind)
    \/ \E i \in Ids, does \in Does :
          onLoad(i, does) \/ preSpecialize(i, does) \/ postSpecialize(i, does)
    \/ LoopEnds
    \/ \E array \in BOOLEAN : sanitize_fds(array)
    \/ new_android_log_close
    \/ \E result \in Forked \cup {"cached"} : new_fork(result)
    \/ \E ns \in BOOLEAN : new_unshare(ns)
    \/ new_selinux_android_setcontext
    \/ ParentReturns
    \/ \E ok \in BOOLEAN : ChildReturns(ok)
    \/ \E left \in {{}, {Unloader}, {"fork"}} : new_pthread_attr_destroy(left)
    \/ UseDeleted

Spec == Init /\ [][Next]_vars
-----------------------------------------------------------------------------
(***************************************************************************)
(* Correctness.                                                            *)
(***************************************************************************)
Forking(c) == c # NoCtx /\ c.method # "nativeSpecializeAppProcess"
InMemory == {i \in Ids : mods[i] \notin {"none", "closed"}}

\* Once the library is unmapped nothing points into it: no PLT slot, and no
\* native method of the Zygote class (pthread_attr_destroy's hook unmaps only
\* after restore_plt_hook has put every slot back).
NoDanglingHook == ~ mapped => plt = {} /\ \A m \in device.has : natives[m] = "orig"

\* When a forking method checks the process's descriptors, the log pipe is closed
\* and every open descriptor was open in the zygote or is in fds_to_ignore,
\* whatever modules opened or exempted: otherwise zygote aborts (sanitize_fds).
FdCheckPasses ==
    pc = "check" /\ Forking(g_ctx) => ~ logd /\ fds \subseteq {1} \cup g_ctx.ignored

\* A process that our wrappers specialize and that magiskd says is on the enforced
\* denylist never has module code in it, and Magisk's mounts are gone from the
\* namespace it gets, before it runs any code of its own (app_specialize_pre, unshare's
\* hook).  A zygote whose methods are not hooked is not spoken of.
DenyListClean ==
    g_ctx # NoCtx /\ UNMOUNT_MASK \subseteq g_ctx.info =>
        /\ InMemory = {}
        /\ pc = "post" /\ IsApp(g_ctx) /\ g_ctx.unshared => mounts = "clean"

\* Unless our own fork failed, the process is forked exactly once though both we
\* and the original method fork, and the pid that is returned is 0 exactly in the
\* child (fork's hook).
ForkedOnce ==
    pc = "post" /\ Forking(g_ctx) /\ ~ lost =>
        forks = 1 /\ ((who = "child") <=> (g_ctx.pid = 0))

\* Unless our own fork failed, the zygote is the same between two calls: no module
\* in it, no descriptor more, SIGCHLD not blocked, Magisk's mounts in place, and
\* once the full set of methods is hooked it stays hooked.
ZygoteUntouched ==
    who = "zygote" /\ pc = "run" /\ ~ lost =>
        /\ g_ctx = NoCtx /\ InMemory = {} /\ fds = {1} /\ ~ sigchld /\ mounts = "magisk"
        /\ g_hook.jni_hooked => \A m \in Methods : natives[m] = "zygisk"

\* A specialized process has its Zygote methods back, the log pipe closed and
\* SIGCHLD unblocked, and every module in its list has had both callbacks
\* (~ZygiskContext, run_modules_post).
SpecializedIsRestored ==
    pc = "live" =>
        /\ \A m \in device.has : natives[m] = "orig"
        /\ ~ logd /\ ~ sigchld /\ g_ctx = NoCtx
        /\ \A i \in Ids : mods[i] \in {"none", "left", "post", "closed"}

\* Both: a specialized process is left without a hook, and then without the library.
HooksRemoved == NoDanglingHook /\ SpecializedIsRestored

\* What fork_pre says of itself, "Do our own fork before loading any 3rd party
\* code": no module is ever loaded in the zygote.
NoModuleInZygote == who = "zygote" => InMemory = {}
=============================================================================
