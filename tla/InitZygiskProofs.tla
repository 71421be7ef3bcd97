-------------------------- MODULE InitZygiskProofs --------------------------
(***************************************************************************)
(* magiskinit: when init gets past its gate the patched policy is loaded,  *)
(* whatever strategy the device needs and however the two processes are    *)
(* scheduled.  Zygisk: its properties for any number of modules,           *)
(* descriptors, calls and any set of devices; the invariant says, for each *)
(* place of a call, what the process has been through: who has modules,    *)
(* descriptors and hooks in it, and which process of the fork it is.       *)
(***************************************************************************)
EXTENDS PolicyHijack, Zygisk, TLAPS

-----------------------------------------------------------------------------
(* magiskinit and init: the policy. *)

\* Every step keeps the types: the places of both processes, the files between them
\* and the kernel's policy are what init/selinux.rs can make of them.
LEMMA TypesKept ==
    ASSUME HandoverInv, [LoadingNext]_loadingVars
    PROVE  LoadingTypeOK'
<1> USE DEF HandoverInv, PatchedBeforeInit, LoadingTypeOK
<1>1. CASE Intercept
    BY <1>1 DEF Intercept, SePatchStrategy, setup, shared, watch
<1>2. CASE MakeFifo
  <2>1. FifoOf[strat] \in {"ack", "enforce", "version"}
    BY <1>2 DEF MakeFifo, FifoOf, SePatchStrategy
  <2>2. mocks' \subseteq {"ack", "load", "enforce", "version", "checkreqprot"}
    BY <1>2, <2>1 DEF MakeFifo
  <2>3. /\ UNCHANGED <<strat, preload, mounted, child, policy, kernel, writer, seen, early, faults>>
        /\ main' = "fork"
    BY <1>2 DEF MakeFifo, setup, watch
  <2> QED BY <2>2, <2>3
<1>3. CASE Fork
    BY <1>3 DEF Fork, SePatchStrategy, setup, shared, watch
<1>4. CASE StartInit
    BY <1>4 DEF StartInit, SePatchStrategy, setup, shared, watch
<1>5. CASE security_load_policy
    BY <1>5 DEF security_load_policy, SePatchStrategy, setup, shared, watch
<1>6. CASE ReachGate
    BY <1>6 DEF ReachGate, Gate, SePatchStrategy, setup, shared, watch
<1>7. CASE ReadAnswer
    BY <1>7 DEF ReadAnswer, SePatchStrategy, setup, shared, watch
<1>8. CASE MockNodes
    BY <1>8 DEF MockNodes, SePatchStrategy, setup, shared, watch
<1>9. CASE UnmountVersion
    BY <1>9 DEF UnmountVersion, SePatchStrategy, setup, shared, watch
<1>10. CASE Look
  <2>1. early' \in BOOLEAN
    BY <1>10, Zenon DEF Look, watch
  <2> QED BY <1>10, <2>1 DEF Look, setup, shared, watch
<1>11. CASE Unmount
  <2>1. mocks' \subseteq mocks /\ faults' \in Nat
    BY <1>11 DEF Unmount
  <2>2. UNCHANGED <<setup, main, policy, kernel, writer, watch>> /\ child' = "load"
    BY <1>11 DEF Unmount
  <2> QED BY <2>1, <2>2 DEF setup, watch
<1>12. CASE Remove
    BY <1>12 DEF Remove, SePatchStrategy, setup, shared, watch
<1>13. CASE Load
    BY <1>13 DEF Load, SePatchStrategy, setup, shared, watch
<1>14. CASE Answer
    BY <1>14 DEF Answer, SePatchStrategy, setup, shared, watch
<1>15. CASE MeetStep
    BY <1>15 DEF MeetStep, Meet, SePatchStrategy, setup, shared, watch
<1>16. CASE SetupFails
    BY <1>16 DEF SetupFails, SePatchStrategy, setup, shared, watch
<1>17. CASE ShortWrite
    BY <1>17 DEF ShortWrite, SePatchStrategy, setup, shared, watch
<1>18. CASE ChildFails
    BY <1>18 DEF ChildFails, SePatchStrategy, setup, shared, watch
<1>19. CASE UNCHANGED loadingVars
    BY <1>19 DEF loadingVars, setup, shared, watch
<1> QED BY <1>1, <1>2, <1>3, <1>4, <1>5, <1>6, <1>7, <1>8, <1>9, <1>10, <1>11, <1>12, <1>13,
           <1>14, <1>15, <1>16, <1>17, <1>18, <1>19
    DEF LoadingNext, MainStep, ChildStep

\* Every step keeps the invariant, strategy by strategy.
LEMMA HandoverKept ==
    ASSUME HandoverInv, [LoadingNext]_loadingVars
    PROVE  HandoverInv'
<1> USE DEF HandoverInv, PatchedBeforeInit, LoadingTypeOK, SePatchStrategy, setup, shared, watch
<1>1. LoadingTypeOK'
    BY TypesKept
<1>2. CASE Intercept
  <2>1. CASE strat = "LdPreload"
    BY <1>1, <1>2, <2>1 DEF Intercept, Written, PolicyLoaded, Waiting, PreloadPath
  <2>2. CASE strat = "SelinuxFs"
    BY <1>1, <1>2, <2>2 DEF Intercept, Written, PolicyLoaded, Waiting, SelinuxFsPath
  <2>3. CASE strat = "Legacy"
    BY <1>1, <1>2, <2>3 DEF Intercept, Written, PolicyLoaded, LegacyPath
  <2>4. CASE strat = "Unknown"
    BY <1>1, <1>2, <2>4 DEF Intercept
  <2> QED BY <2>1, <2>2, <2>3, <2>4
<1>3. CASE MakeFifo
  <2>1. CASE strat = "LdPreload"
    BY <1>1, <1>3, <2>1 DEF MakeFifo, FifoOf, Written, PolicyLoaded, Waiting, PreloadPath
  <2>2. CASE strat = "SelinuxFs"
    BY <1>1, <1>3, <2>2 DEF MakeFifo, FifoOf, Written, PolicyLoaded, Waiting, SelinuxFsPath
  <2>3. CASE strat = "Legacy"
    BY <1>1, <1>3, <2>3 DEF MakeFifo, FifoOf, Written, PolicyLoaded, LegacyPath
  <2>4. CASE strat = "Unknown"
    BY <1>1, <1>3, <2>4 DEF MakeFifo, FifoOf
  <2> QED BY <2>1, <2>2, <2>3, <2>4
<1>4. CASE Fork
  <2>1. CASE strat = "LdPreload"
    BY <1>1, <1>4, <2>1 DEF Fork, Written, PolicyLoaded, Waiting, PreloadPath
  <2>2. CASE strat = "SelinuxFs"
    BY <1>1, <1>4, <2>2 DEF Fork, Written, PolicyLoaded, Waiting, SelinuxFsPath
  <2>3. CASE strat = "Legacy"
    BY <1>1, <1>4, <2>3 DEF Fork, Written, PolicyLoaded, LegacyPath
  <2>4. CASE strat = "Unknown"
    BY <1>1, <1>4, <2>4 DEF Fork
  <2> QED BY <2>1, <2>2, <2>3, <2>4
<1>5. CASE StartInit
  <2>1. CASE strat = "LdPreload"
    BY <1>1, <1>5, <2>1 DEF StartInit, Written, PolicyLoaded, Waiting, PreloadPath
  <2>2. CASE strat = "SelinuxFs"
    BY <1>1, <1>5, <2>2 DEF StartInit, Written, PolicyLoaded, Waiting, SelinuxFsPath
  <2>3. CASE strat = "Legacy"
    BY <1>1, <1>5, <2>3 DEF StartInit, Written, PolicyLoaded, LegacyPath
  <2>4. CASE strat = "Unknown"
    BY <1>1, <1>5, <2>4 DEF StartInit
  <2> QED BY <2>1, <2>2, <2>3, <2>4
<1>6. CASE security_load_policy
  <2>1. CASE strat = "LdPreload"
    BY <1>1, <1>6, <2>1 DEF security_load_policy, Written, PolicyLoaded, Waiting, PreloadPath
  <2>2. CASE strat = "SelinuxFs"
    BY <1>1, <1>6, <2>2 DEF security_load_policy, Written, PolicyLoaded, Waiting, SelinuxFsPath
  <2>3. CASE strat = "Legacy"
    BY <1>1, <1>6, <2>3 DEF security_load_policy, Written, PolicyLoaded, LegacyPath
  <2>4. CASE strat = "Unknown"
    BY <1>1, <1>6, <2>4 DEF security_load_policy
  <2> QED BY <2>1, <2>2, <2>3, <2>4
<1>7. CASE ReachGate
  <2>1. CASE strat = "LdPreload"
    BY <1>1, <1>7, <2>1 DEF ReachGate, Gate, Written, PolicyLoaded, Waiting, PreloadPath
  <2>2. CASE strat = "SelinuxFs"
    BY <1>1, <1>7, <2>2 DEF ReachGate, Gate, Written, PolicyLoaded, Waiting, SelinuxFsPath
  <2>3. CASE strat = "Legacy"
    BY <1>1, <1>7, <2>3 DEF ReachGate, Gate, Written, PolicyLoaded, LegacyPath
  <2>4. CASE strat = "Unknown"
    BY <1>1, <1>7, <2>4 DEF ReachGate, Gate
  <2> QED BY <2>1, <2>2, <2>3, <2>4
<1>8. CASE ReadAnswer
  <2>1. CASE strat = "LdPreload"
    BY <1>1, <1>8, <2>1 DEF ReadAnswer, Written, PolicyLoaded, Waiting, PreloadPath
  <2>2. CASE strat = "SelinuxFs"
    BY <1>1, <1>8, <2>2 DEF ReadAnswer, Written, PolicyLoaded, Waiting, SelinuxFsPath
  <2>3. CASE strat = "Legacy"
    BY <1>1, <1>8, <2>3 DEF ReadAnswer, Written, PolicyLoaded, LegacyPath
  <2>4. CASE strat = "Unknown"
    BY <1>1, <1>8, <2>4 DEF ReadAnswer
  <2> QED BY <2>1, <2>2, <2>3, <2>4
<1>9. CASE MockNodes
  <2>1. CASE strat = "LdPreload"
    BY <1>1, <1>9, <2>1 DEF MockNodes, Written, PolicyLoaded, Waiting, PreloadPath
  <2>2. CASE strat = "SelinuxFs"
    BY <1>1, <1>9, <2>2 DEF MockNodes, Written, PolicyLoaded, Waiting, SelinuxFsPath
  <2>3. CASE strat = "Legacy"
    BY <1>1, <1>9, <2>3 DEF MockNodes, Written, PolicyLoaded, LegacyPath
  <2>4. CASE strat = "Unknown"
    BY <1>1, <1>9, <2>4 DEF MockNodes
  <2> QED BY <2>1, <2>2, <2>3, <2>4
<1>10. CASE UnmountVersion
  <2>1. CASE strat = "LdPreload"
    BY <1>1, <1>10, <2>1 DEF UnmountVersion, Written, PolicyLoaded, Waiting, PreloadPath
  <2>2. CASE strat = "SelinuxFs"
    BY <1>1, <1>10, <2>2 DEF UnmountVersion, Written, PolicyLoaded, Waiting, SelinuxFsPath
  <2>3. CASE strat = "Legacy"
    BY <1>1, <1>10, <2>3 DEF UnmountVersion, Written, PolicyLoaded, LegacyPath
  <2>4. CASE strat = "Unknown"
    BY <1>1, <1>10, <2>4 DEF UnmountVersion
  <2> QED BY <2>1, <2>2, <2>3, <2>4
<1>11. CASE Look
  <2>1. CASE strat = "LdPreload"
    BY <1>1, <1>11, <2>1 DEF Look, WrittenFully, Written, PolicyLoaded, Waiting, PreloadPath
  <2>2. CASE strat = "SelinuxFs"
    BY <1>1, <1>11, <2>2 DEF Look, WrittenFully, Written, PolicyLoaded, Waiting, SelinuxFsPath
  <2>3. CASE strat = "Legacy"
    BY <1>1, <1>11, <2>3 DEF Look, WrittenFully, Written, PolicyLoaded, LegacyPath
  <2>4. CASE strat = "Unknown"
    BY <1>1, <1>11, <2>4 DEF Look, WrittenFully
  <2> QED BY <2>1, <2>2, <2>3, <2>4
<1>12. CASE Unmount
  <2>1. CASE strat = "LdPreload"
    BY <1>1, <1>12, <2>1 DEF Unmount, Written, PolicyLoaded, Waiting, PreloadPath
  <2>2. CASE strat = "SelinuxFs"
    BY <1>1, <1>12, <2>2 DEF Unmount, Written, PolicyLoaded, Waiting, SelinuxFsPath
  <2>3. CASE strat = "Legacy"
    BY <1>1, <1>12, <2>3 DEF Unmount, Written, PolicyLoaded, LegacyPath
  <2>4. CASE strat = "Unknown"
    BY <1>1, <1>12, <2>4 DEF Unmount
  <2> QED BY <2>1, <2>2, <2>3, <2>4
<1>13. CASE Remove
  <2>1. CASE strat = "LdPreload"
    BY <1>1, <1>13, <2>1 DEF Remove, Written, PolicyLoaded, Waiting, PreloadPath
  <2>2. CASE strat = "SelinuxFs"
    BY <1>1, <1>13, <2>2 DEF Remove, Written, PolicyLoaded, Waiting, SelinuxFsPath
  <2>3. CASE strat = "Legacy"
    BY <1>1, <1>13, <2>3 DEF Remove, Written, PolicyLoaded, LegacyPath
  <2>4. CASE strat = "Unknown"
    BY <1>1, <1>13, <2>4 DEF Remove
  <2> QED BY <2>1, <2>2, <2>3, <2>4
<1>14. CASE Load
  <2>1. CASE strat = "LdPreload"
    BY <1>1, <1>14, <2>1 DEF Load, Written, PolicyLoaded, Waiting, PreloadPath
  <2>2. CASE strat = "SelinuxFs"
    BY <1>1, <1>14, <2>2 DEF Load, Written, PolicyLoaded, Waiting, SelinuxFsPath
  <2>3. CASE strat = "Legacy"
    BY <1>1, <1>14, <2>3 DEF Load, Written, PolicyLoaded, LegacyPath
  <2>4. CASE strat = "Unknown"
    BY <1>1, <1>14, <2>4 DEF Load
  <2> QED BY <2>1, <2>2, <2>3, <2>4
<1>15. CASE Answer
  <2>1. CASE strat = "LdPreload"
    BY <1>1, <1>15, <2>1 DEF Answer, Written, PolicyLoaded, Waiting, PreloadPath
  <2>2. CASE strat = "SelinuxFs"
    BY <1>1, <1>15, <2>2 DEF Answer, Written, PolicyLoaded, Waiting, SelinuxFsPath
  <2>3. CASE strat = "Legacy"
    BY <1>1, <1>15, <2>3 DEF Answer, Written, PolicyLoaded, LegacyPath
  <2>4. CASE strat = "Unknown"
    BY <1>1, <1>15, <2>4 DEF Answer
  <2> QED BY <2>1, <2>2, <2>3, <2>4
<1>16. CASE MeetStep
  <2>1. CASE strat = "LdPreload"
    BY <1>1, <1>16, <2>1 DEF MeetStep, Meet, Written, PolicyLoaded, Waiting, PreloadPath
  <2>2. CASE strat = "SelinuxFs"
    BY <1>1, <1>16, <2>2 DEF MeetStep, Meet, Written, PolicyLoaded, Waiting, SelinuxFsPath
  <2>3. CASE strat = "Legacy"
    BY <1>1, <1>16, <2>3 DEF MeetStep, Meet, Written, PolicyLoaded, LegacyPath
  <2>4. CASE strat = "Unknown"
    BY <1>1, <1>16, <2>4 DEF MeetStep, Meet
  <2> QED BY <2>1, <2>2, <2>3, <2>4
<1>17. CASE SetupFails
  <2>1. CASE strat = "LdPreload"
    BY <1>1, <1>17, <2>1 DEF SetupFails, Written, PolicyLoaded, Waiting, PreloadPath
  <2>2. CASE strat = "SelinuxFs"
    BY <1>1, <1>17, <2>2 DEF SetupFails, Written, PolicyLoaded, Waiting, SelinuxFsPath
  <2>3. CASE strat = "Legacy"
    BY <1>1, <1>17, <2>3 DEF SetupFails, Written, PolicyLoaded, LegacyPath
  <2>4. CASE strat = "Unknown"
    BY <1>1, <1>17, <2>4 DEF SetupFails
  <2> QED BY <2>1, <2>2, <2>3, <2>4
<1>18. CASE ShortWrite
  <2>1. CASE strat = "LdPreload"
    BY <1>1, <1>18, <2>1 DEF ShortWrite, Written, PolicyLoaded, Waiting, PreloadPath
  <2>2. CASE strat = "SelinuxFs"
    BY <1>1, <1>18, <2>2 DEF ShortWrite, Written, PolicyLoaded, Waiting, SelinuxFsPath
  <2>3. CASE strat = "Legacy"
    BY <1>1, <1>18, <2>3 DEF ShortWrite, Written, PolicyLoaded, LegacyPath
  <2>4. CASE strat = "Unknown"
    BY <1>1, <1>18, <2>4 DEF ShortWrite
  <2> QED BY <2>1, <2>2, <2>3, <2>4
<1>19. CASE ChildFails
  <2>1. CASE strat = "LdPreload"
    BY <1>1, <1>19, <2>1 DEF ChildFails, Written, PolicyLoaded, Waiting, PreloadPath
  <2>2. CASE strat = "SelinuxFs"
    BY <1>1, <1>19, <2>2 DEF ChildFails, Written, PolicyLoaded, Waiting, SelinuxFsPath
  <2>3. CASE strat = "Legacy"
    BY <1>1, <1>19, <2>3 DEF ChildFails, Written, PolicyLoaded, LegacyPath
  <2>4. CASE strat = "Unknown"
    BY <1>1, <1>19, <2>4 DEF ChildFails
  <2> QED BY <2>1, <2>2, <2>3, <2>4
<1>20. CASE UNCHANGED loadingVars
    BY <1>20 DEF Written, PolicyLoaded, Waiting, PreloadPath, SelinuxFsPath, LegacyPath, loadingVars
<1> QED BY <1>2, <1>3, <1>4, <1>5, <1>6, <1>7, <1>8, <1>9, <1>10, <1>11, <1>12, <1>13, <1>14,
           <1>15, <1>16, <1>17, <1>18, <1>19, <1>20
    DEF LoadingNext, MainStep, ChildStep

\* "We need to make sure the actual init process is blocked until sepolicy is loaded"
\* (init/selinux.rs:44): in every behaviour, when init gets past its gate and no step
\* failed, the patched policy is in force and nothing of ours is in its way; and the
\* kernel gets a policy cut short only from a handler that was early or after a fault.
THEOREM PolicyIsPatched == LoadingSpec => []PatchedBeforeInit
<1>1. LoadingInit => HandoverInv
  <2> SUFFICES ASSUME LoadingInit PROVE HandoverInv
    OBVIOUS
  <2>1. mounted \in BOOLEAN /\ (strat = "Legacy" => ~ mounted)
    BY DEF LoadingInit
  <2> QED BY <2>1 DEF LoadingInit, HandoverInv, PatchedBeforeInit, LoadingTypeOK, SePatchStrategy, Written,
                     PolicyLoaded, Waiting, PreloadPath, SelinuxFsPath, LegacyPath
<1>2. HandoverInv /\ [LoadingNext]_loadingVars => HandoverInv'
    BY HandoverKept
<1>3. HandoverInv => PatchedBeforeInit
    BY DEF HandoverInv
<1> QED BY <1>1, <1>2, <1>3, PTL DEF LoadingSpec

-----------------------------------------------------------------------------
(* Zygisk. *)

Forks == {"nativeForkAndSpecialize", "nativeForkSystemServer"}
Spec_ == "nativeSpecializeAppProcess"

\* A ZygiskContext: what the fields are that decide what the process does.
IsCtx(c) ==
    /\ c = [method |-> c.method, pid |-> c.pid, revert |-> c.revert, unshared |-> c.unshared,
            skip |-> c.skip, info |-> c.info, at |-> c.at, marked |-> c.marked,
            allowed |-> c.allowed, exempted |-> c.exempted, ignored |-> c.ignored,
            unload |-> c.unload]
    /\ c.method \in Methods /\ c.pid \in {-1, 0, 7} /\ c.at \in Nat
    /\ c.revert \in BOOLEAN /\ c.unshared \in BOOLEAN
Hook == [alive : BOOLEAN, self_handle : BOOLEAN, callbacks : BOOLEAN, should_unmap : BOOLEAN,
         jni_hooked : BOOLEAN]

States == {"none", "good", "invalid", "left", "pre", "post", "closed"}
Before == {"start", "bridge", "run"}
InCall == {"info", "load", "onLoad", "preSpecialize", "sanitize", "original", "check", "unshare",
           "setcontext", "post"}
After == {"live", "crashed"}

\* The values of the variables; g_ctx is set exactly during a call.
TypeInv ==
    /\ device \in Devices /\ g_hook \in Hook
    /\ natives \in [device.has -> {"orig", "zygisk"}]
    /\ table \in [Methods -> {"orig", "zygisk", "null"}]
    /\ mods \in [Ids -> States]
    /\ forks \in Nat
    /\ pc \in Before \cup InCall \cup After
    /\ pc \in InCall => IsCtx(g_ctx)
    /\ pc \notin InCall => g_ctx = NoCtx

NoModule == \A i \in Ids : mods[i] = "none"

\* Between calls, and in the parent during one, nothing has happened to the process.
QuietInv ==
    /\ pc \in Before => fds = {1} /\ ~ sigchld /\ NoModule /\ mounts = "magisk"
    /\ pc \in {"info", "load"} => NoModule /\ g_ctx.at = 1
    /\ pc \in InCall /\ g_ctx.pid = 7 =>
          /\ pc \in {"sanitize", "original", "check", "post"}
          /\ g_ctx.method \in Forks
          /\ fds = {1} /\ NoModule /\ mounts = "magisk"

\* The fork: our own one, or none that worked.
ForkInv ==
    /\ pc \in InCall /\ g_ctx.method = Spec_ => ~ sigchld /\ g_ctx.pid = -1
    /\ pc \in InCall => g_ctx.skip = (g_ctx.method = Spec_)
    /\ pc \in InCall /\ g_ctx.method # Spec_ /\ ~ lost =>
          forks = 1 /\ g_ctx.pid \in {0, 7} /\ ((who = "child") <=> (g_ctx.pid = 0))

\* The descriptors of a forking call.
FdInv ==
    pc \in InCall /\ g_ctx.method # Spec_ =>
        /\ g_ctx.allowed \subseteq {1}
        /\ pc \in {"original", "check"} => ~ logd /\ fds \subseteq {1} \cup g_ctx.ignored

\* A process on the enforced denylist.
DenyInv ==
    /\ pc = "info" => g_ctx.info = {}
    /\ pc \in InCall /\ pc \notin {"setcontext", "post"} => ~ g_ctx.unshared
    /\ pc \in InCall /\ UNMOUNT_MASK \subseteq g_ctx.info =>
          /\ NoModule /\ pc \notin {"load", "onLoad", "preSpecialize"}
          /\ IsApp(g_ctx) => g_ctx.revert
          /\ IsApp(g_ctx) /\ g_ctx.unshared => mounts = "clean"

\* The registered methods: all the platform's, or all ours with the platform's in
\* the table; ours during a call, never again after one.
Hooked ==
    /\ \A m \in device.has : natives[m] = "zygisk" /\ table[m] = "orig" /\ m \in device.known
    /\ device.has = Methods => g_hook.jni_hooked
JniInv ==
    /\ pc \in Before => Hooked \/ \A m \in device.has : natives[m] = "orig" /\ table[m] # "orig"
    /\ pc \in InCall => Hooked
    /\ pc = "live" => \A m \in device.has : natives[m] = "orig"
    /\ g_hook.jni_hooked /\ pc \in Before \cup InCall =>
          device.has = Methods /\ \A m \in Methods : natives[m] = "zygisk"

\* The slots: what is hooked is known to restore_plt_hook.
PltInv ==
    /\ plt \subseteq backup
    /\ ~ mapped => plt = {} /\ pc = "live"
    /\ pc = "live" => ~ logd /\ ~ sigchld

\* The loops over the modules.
LoopInv ==
    /\ pc = "onLoad" => \A i \in Ids :
          mods[i] \in IF i < g_ctx.at THEN {"none", "left", "good"}
                      ELSE {"none", "left", "good", "invalid"}
    /\ pc = "preSpecialize" => \A i \in Ids :
          mods[i] \in IF i < g_ctx.at THEN {"none", "left", "pre"} ELSE {"none", "left", "good"}
    /\ pc \in {"sanitize", "original", "check", "unshare", "setcontext"} =>
          g_ctx.at = 1 /\ \A i \in Ids : mods[i] \in {"none", "left", "pre"}
    /\ pc = "post" => \A i \in Ids :
          mods[i] \in IF i < g_ctx.at THEN {"none", "left", "post", "closed"}
                      ELSE {"none", "left", "pre"}
    /\ pc = "live" => \A i \in Ids : mods[i] \in {"none", "left", "post", "closed"}

IInv == /\ TypeInv /\ QuietInv /\ ForkInv /\ FdInv /\ DenyInv /\ JniInv /\ PltInv /\ LoopInv

\* What a step of a loop over the modules does to the call, whatever the module does.
Moved(i) ==
    /\ IsCtx(g_ctx') /\ g_ctx'.at = i + 1 /\ (g_ctx.revert => g_ctx'.revert)
    /\ g_ctx'.method = g_ctx.method /\ g_ctx'.pid = g_ctx.pid /\ g_ctx'.skip = g_ctx.skip
    /\ g_ctx'.info = g_ctx.info /\ g_ctx'.unshared = g_ctx.unshared
    /\ g_ctx'.allowed = g_ctx.allowed

\* A module that is not in the list is passed over.
LEMMA SkipMoves ==
    ASSUME NEW i \in Ids, IsCtx(g_ctx), Skip(i)
    PROVE  Moved(i) /\ fds' = fds
BY ZygiskAssumption DEF Skip, Moved, IsCtx, Ids

\* A callback changes nothing of the call that decides about the process.
LEMMA CallbackMoves ==
    ASSUME NEW i \in Ids, NEW does, IsCtx(g_ctx), Callback(i, does)
    PROVE  Moved(i)
<1>. DEFINE fd == CHOOSE x \in Fds \ fds : \A y \in Fds \ fds : x <= y
            c == Asked(i, does, fd)
<1>1. \/ c = [g_ctx EXCEPT !.exempted = c.exempted] \/ c = [g_ctx EXCEPT !.unload = c.unload]
      \/ c = [g_ctx EXCEPT !.revert = TRUE]
  BY DEF Asked, exempt_fd, IsCtx
<1>2. g_ctx' = [c EXCEPT !.at = i + 1]
  BY DEF Callback
<1>. HIDE DEF c
<1>3. IsCtx(c)
  BY <1>1 DEF IsCtx
<1>4. /\ c.method = g_ctx.method /\ c.pid = g_ctx.pid /\ c.skip = g_ctx.skip
      /\ c.info = g_ctx.info /\ c.unshared = g_ctx.unshared /\ c.allowed = g_ctx.allowed
      /\ g_ctx.revert => c.revert
  BY <1>1 DEF IsCtx
<1>5. IsCtx(g_ctx') /\ g_ctx'.at = i + 1
  BY <1>2, <1>3, ZygiskAssumption DEF IsCtx, Ids
<1>. QED
  BY <1>2, <1>3, <1>4, <1>5 DEF Moved, IsCtx

\* The PLT is hooked: the slots are those in the backup.
LEMMA hook_entryKeeps ==
    ASSUME IInv, hook_entry
    PROVE  IInv'
<1>. USE ZygiskAssumption DEF IInv, hook_entry, Goto, hook_plt, MayLog, hookVars, procVars,
         runVars
<1>1. TypeInv'
  BY DEF TypeInv, IsCtx, Hook, States, Methods, NoCtx, Before, InCall, After, Ids
<1>2. QuietInv' /\ ForkInv' /\ FdInv'
  BY DEF TypeInv, QuietInv, ForkInv, FdInv, NoModule, Forks, Spec_, Before, InCall, IsCtx
<1>3. DenyInv'
  BY DEF TypeInv, QuietInv, DenyInv, NoModule, IsApp, Forks, Before, InCall, IsCtx
<1>4. JniInv' /\ PltInv'
  BY DEF TypeInv, ForkInv, JniInv, Hooked, PltInv, Spec_, Before, InCall, Methods, Hook,
         IsCtx
<1>5. LoopInv'
  BY DEF TypeInv, QuietInv, LoopInv, NoModule, Before, InCall, Ids, IsCtx
<1>. QED
  BY <1>1, <1>2, <1>3, <1>4, <1>5 DEF IInv

\* The loader stays mapped.
LEMMA new_dlcloseKeeps ==
    ASSUME IInv, new_dlclose
    PROVE  IInv'
<1>. USE ZygiskAssumption DEF IInv, new_dlclose, Goto, post_native_bridge_load, hookVars,
         procVars, runVars
<1>1. TypeInv'
  BY DEF TypeInv, IsCtx, Hook, States, Methods, NoCtx, Before, InCall, After, Ids
<1>2. QuietInv' /\ ForkInv' /\ FdInv'
  BY DEF TypeInv, QuietInv, ForkInv, FdInv, NoModule, Forks, Spec_, Before, InCall, IsCtx
<1>3. DenyInv'
  BY DEF TypeInv, QuietInv, DenyInv, NoModule, IsApp, Forks, Before, InCall, IsCtx
<1>4. JniInv' /\ PltInv'
  BY DEF TypeInv, ForkInv, JniInv, Hooked, PltInv, Spec_, Before, InCall, Methods, Hook,
         IsCtx
<1>5. LoopInv'
  BY DEF TypeInv, QuietInv, LoopInv, NoModule, Before, InCall, Ids, IsCtx
<1>. QED
  BY <1>1, <1>2, <1>3, <1>4, <1>5 DEF IInv

\* The methods are swapped all together, or none is.
LEMMA new_strdupKeeps ==
    ASSUME IInv, NEW vm \in BOOLEAN, new_strdup(vm)
    PROVE  IInv'
<1>. USE ZygiskAssumption DEF IInv, new_strdup, MayLog, hookVars, procVars, runVars
<1>1. UNCHANGED <<natives, table, g_hook>> \/ hook_zygote_jni
  OBVIOUS
<1>2. natives' \in [device.has -> {"orig", "zygisk"}]
  BY <1>1 DEF hook_zygote_jni, Unhookable, TypeInv, Methods
<1>3. table' \in [Methods -> {"orig", "zygisk", "null"}] /\ g_hook' \in Hook
  BY <1>1 DEF hook_zygote_jni, Unhookable, TypeInv, Hook
<1>4. TypeInv'
  BY <1>2, <1>3 DEF TypeInv, NoCtx, Before, InCall, After
<1>5. QuietInv' /\ ForkInv' /\ FdInv'
  BY DEF TypeInv, QuietInv, ForkInv, FdInv, NoModule, Forks, Spec_, Before, InCall, IsCtx
<1>6. DenyInv'
  BY DEF TypeInv, QuietInv, DenyInv, NoModule, IsApp, Forks, Before, InCall, IsCtx
<1>7. JniInv'
  BY <1>1 DEF hook_zygote_jni, Unhookable, TypeInv, JniInv, Hooked, Before, InCall, After, Hook,
         Methods
<1>8. PltInv'
  BY DEF PltInv
<1>9. LoopInv'
  BY DEF TypeInv, QuietInv, LoopInv, NoModule, Before, InCall, Ids, IsCtx
<1>. QED
  BY <1>4, <1>5, <1>6, <1>7, <1>8, <1>9 DEF IInv

\* Another process of the zygote's state.
LEMMA ForkUsapKeeps ==
    ASSUME IInv, ForkUsap
    PROVE  IInv'
<1>. USE ZygiskAssumption DEF IInv, ForkUsap, hookVars, procVars, runVars
<1>1. TypeInv'
  BY DEF TypeInv, IsCtx, Hook, States, Methods, NoCtx, Before, InCall, After, Ids
<1>2. QuietInv' /\ ForkInv' /\ FdInv'
  BY DEF TypeInv, QuietInv, ForkInv, FdInv, NoModule, Forks, Spec_, Before, InCall, IsCtx
<1>3. DenyInv'
  BY DEF TypeInv, QuietInv, DenyInv, NoModule, IsApp, Forks, Before, InCall, IsCtx
<1>4. JniInv' /\ PltInv'
  BY DEF TypeInv, ForkInv, JniInv, Hooked, PltInv, Spec_, Before, InCall, Methods, Hook,
         IsCtx
<1>5. LoopInv'
  BY DEF TypeInv, QuietInv, LoopInv, NoModule, Before, InCall, Ids, IsCtx
<1>. QED
  BY <1>1, <1>2, <1>3, <1>4, <1>5 DEF IInv

\* A call without a fork starts.
LEMMA nativeSpecializeAppProcessKeeps ==
    ASSUME IInv, nativeSpecializeAppProcess
    PROVE  IInv'
<1>. USE ZygiskAssumption DEF IInv, nativeSpecializeAppProcess, CanCall, NewCtx, hookVars,
         procVars, runVars
<1>1. TypeInv'
  BY DEF TypeInv, IsCtx, Hook, States, Methods, NoCtx, Before, InCall, After, Ids
<1>2. QuietInv' /\ ForkInv' /\ FdInv'
  BY DEF TypeInv, QuietInv, ForkInv, FdInv, NoModule, Forks, Spec_, Before, InCall, IsCtx
<1>3. DenyInv'
  BY DEF TypeInv, QuietInv, DenyInv, NoModule, IsApp, Forks, Before, InCall, IsCtx,
         UNMOUNT_MASK
<1>4. JniInv' /\ PltInv'
  BY DEF TypeInv, ForkInv, JniInv, Hooked, PltInv, Spec_, Before, InCall, Methods, Hook,
         IsCtx
<1>5. LoopInv'
  BY DEF TypeInv, QuietInv, LoopInv, NoModule, Before, InCall, Ids, IsCtx
<1>. QED
  BY <1>1, <1>2, <1>3, <1>4, <1>5 DEF IInv

\* A call starts in both processes of our fork, or in one when it failed.
LEMMA fork_preKeeps ==
    ASSUME IInv, NEW m \in Forks, NEW result \in Forked, fork_pre(m, result)
    PROVE  IInv'
<1>. USE ZygiskAssumption DEF IInv, fork_pre, CanCall, NewCtx, MayLog, is_child, Forked, Forks,
         hookVars, procVars, runVars
<1>1. TypeInv'
  BY DEF TypeInv, IsCtx, Hook, States, Methods, NoCtx, Before, InCall, After, Ids
<1>2. QuietInv' /\ FdInv'
  BY DEF TypeInv, QuietInv, FdInv, NoModule, Spec_, Before, InCall, IsCtx
<1>3. g_ctx'.method = m /\ m # Spec_ /\ g_ctx'.skip = FALSE /\ who = "zygote"
  BY DEF Spec_
<1>4. ForkInv'
  <2>1. CASE result = "failed"
    BY <1>3, <2>1 DEF ForkInv, Spec_
  <2>2. CASE result # "failed"
    <3>1. forks' = 1 /\ g_ctx'.pid \in {0, 7} /\ ((who' = "child") <=> (g_ctx'.pid = 0))
      BY <1>3, <2>2
    <3>. QED
      BY <1>3, <3>1 DEF ForkInv, Spec_
  <2>. QED
    BY <2>1, <2>2
<1>5. DenyInv'
  BY DEF TypeInv, QuietInv, DenyInv, NoModule, IsApp, Forks, Before, InCall, IsCtx,
         UNMOUNT_MASK
<1>6. JniInv' /\ PltInv'
  BY DEF TypeInv, ForkInv, JniInv, Hooked, PltInv, Spec_, Before, InCall, Methods, Hook,
         IsCtx
<1>7. LoopInv'
  BY DEF TypeInv, QuietInv, LoopInv, NoModule, Before, InCall, Ids, IsCtx
<1>. QED
  BY <1>1, <1>2, <1>4, <1>5, <1>6, <1>7 DEF IInv

\* A process on the denylist never gets to the modules.
LEMMA GetInfoKeeps ==
    ASSUME IInv, NEW ok \in BOOLEAN, NEW info \in Infos, GetInfo(ok, info)
    PROVE  IInv'
<1>. USE ZygiskAssumption DEF IInv, GetInfo, Infos, zygisk_should_load_module, AfterPre,
         UNMOUNT_MASK, hookVars, procVars, runVars
<1>1. TypeInv'
  BY DEF TypeInv, IsCtx, Hook, States, Methods, NoCtx, Before, InCall, After, Ids
<1>2. QuietInv' /\ ForkInv' /\ FdInv'
  BY DEF TypeInv, QuietInv, ForkInv, FdInv, NoModule, Forks, Spec_, Before, InCall, IsCtx
<1>3. DenyInv'
  BY DEF TypeInv, QuietInv, DenyInv, NoModule, IsApp, Forks, Before, InCall, IsCtx
<1>4. JniInv' /\ PltInv'
  BY DEF TypeInv, ForkInv, JniInv, Hooked, PltInv, Spec_, Before, InCall, Methods, Hook,
         IsCtx
<1>5. LoopInv'
  BY DEF TypeInv, QuietInv, LoopInv, NoModule, Before, InCall, Ids, IsCtx
<1>. QED
  BY <1>1, <1>2, <1>3, <1>4, <1>5 DEF IInv

\* The libraries are opened.
LEMMA LoadModulesKeeps ==
    ASSUME IInv, NEW kind \in [Ids -> Kinds], LoadModules(kind)
    PROVE  IInv'
<1>. USE ZygiskAssumption DEF IInv, LoadModules, Goto, Kinds, hookVars, procVars, runVars
<1>1. TypeInv'
  BY DEF TypeInv, IsCtx, Hook, States, Methods, NoCtx, Before, InCall, After, Ids
<1>2. QuietInv' /\ ForkInv' /\ FdInv'
  BY DEF TypeInv, QuietInv, ForkInv, FdInv, NoModule, Forks, Spec_, Before, InCall, IsCtx
<1>3. DenyInv'
  BY DEF TypeInv, QuietInv, DenyInv, NoModule, IsApp, Forks, Before, InCall, IsCtx
<1>4. JniInv' /\ PltInv'
  BY DEF TypeInv, ForkInv, JniInv, Hooked, PltInv, Spec_, Before, InCall, Methods, Hook,
         IsCtx
<1>5. LoopInv'
  BY DEF TypeInv, QuietInv, LoopInv, NoModule, Before, InCall, Ids, IsCtx
<1>. QED
  BY <1>1, <1>2, <1>3, <1>4, <1>5 DEF IInv

\* One module is entered.
LEMMA onLoadKeeps ==
    ASSUME IInv, NEW i \in Ids, NEW does \in Does, onLoad(i, does)
    PROVE  IInv'
<1>. USE ZygiskAssumption DEF IInv, onLoad, hookVars, procVars, runVars
<1>0. Moved(i)
  BY SkipMoves, CallbackMoves DEF TypeInv, InCall
<1>a. mods' \in [Ids -> States] /\ \A j \in Ids \ {i} : mods'[j] = mods[j]
  BY DEF TypeInv, States
<1>. USE <1>0, <1>a DEF Moved
<1>1. TypeInv'
  BY DEF TypeInv, IsCtx, InCall
<1>2. QuietInv' /\ ForkInv' /\ FdInv'
  BY DEF TypeInv, QuietInv, ForkInv, FdInv, NoModule, Forks, Spec_, Before, InCall, IsCtx
<1>3. DenyInv'
  BY DEF TypeInv, QuietInv, DenyInv, NoModule, IsApp, Forks, Before, InCall, IsCtx, Skip
<1>4. JniInv' /\ PltInv'
  BY DEF TypeInv, ForkInv, JniInv, Hooked, PltInv, Spec_, Before, InCall, Methods, Hook,
         IsCtx
<1>5. \A j \in Ids : mods'[j] \in IF j < i + 1 THEN {"none", "left", "good"}
                               ELSE {"none", "left", "good", "invalid"}
  <2>1. mods'[i] \in {"none", "left", "good"}
    BY DEF TypeInv, States, LoopInv, IsCtx, InCall, Ids
  <2>2. \A j \in Ids \ {i} : mods[j] \in IF j < i THEN {"none", "left", "good"}
                                    ELSE {"none", "left", "good", "invalid"}
    BY DEF LoopInv
  <2>. QED
    BY <2>1, <2>2 DEF Ids
<1>6. LoopInv'
  <2>1. pc' = "onLoad" /\ g_ctx'.at = i + 1
    OBVIOUS
  <2>. QED
    BY <1>5, <2>1 DEF LoopInv
<1>. QED
  BY <1>1, <1>2, <1>3, <1>4, <1>6 DEF IInv

\* One module's first callback.
LEMMA preSpecializeKeeps ==
    ASSUME IInv, NEW i \in Ids, NEW does \in Does, preSpecialize(i, does)
    PROVE  IInv'
<1>. USE ZygiskAssumption DEF IInv, preSpecialize, hookVars, procVars, runVars
<1>0. Moved(i)
  BY SkipMoves, CallbackMoves DEF TypeInv, InCall
<1>a. mods' \in [Ids -> States] /\ \A j \in Ids \ {i} : mods'[j] = mods[j]
  BY DEF TypeInv, States
<1>. USE <1>0, <1>a DEF Moved
<1>1. TypeInv'
  BY DEF TypeInv, IsCtx, InCall
<1>2. QuietInv' /\ ForkInv' /\ FdInv'
  BY DEF TypeInv, QuietInv, ForkInv, FdInv, NoModule, Forks, Spec_, Before, InCall, IsCtx
<1>3. DenyInv'
  BY DEF TypeInv, QuietInv, DenyInv, NoModule, IsApp, Forks, Before, InCall, IsCtx, Skip
<1>4. JniInv' /\ PltInv'
  BY DEF TypeInv, ForkInv, JniInv, Hooked, PltInv, Spec_, Before, InCall, Methods, Hook,
         IsCtx
<1>5. \A j \in Ids : mods'[j] \in IF j < i + 1 THEN {"none", "left", "pre"}
                               ELSE {"none", "left", "good"}
  <2>1. mods'[i] \in {"none", "left", "pre"}
    BY DEF TypeInv, States, LoopInv, IsCtx, InCall, Ids
  <2>2. \A j \in Ids \ {i} : mods[j] \in IF j < i THEN {"none", "left", "pre"}
                                    ELSE {"none", "left", "good"}
    BY DEF LoopInv
  <2>. QED
    BY <2>1, <2>2 DEF Ids
<1>6. LoopInv'
  <2>1. pc' = "preSpecialize" /\ g_ctx'.at = i + 1
    OBVIOUS
  <2>. QED
    BY <1>5, <2>1 DEF LoopInv
<1>. QED
  BY <1>1, <1>2, <1>3, <1>4, <1>6 DEF IInv

\* One module's second callback.
LEMMA postSpecializeKeeps ==
    ASSUME IInv, NEW i \in Ids, NEW does \in Does, postSpecialize(i, does)
    PROVE  IInv'
<1>. USE ZygiskAssumption DEF IInv, postSpecialize, is_child, hookVars, procVars, runVars
<1>0. Moved(i)
  BY SkipMoves, CallbackMoves DEF TypeInv, InCall
<1>a. mods' \in [Ids -> States] /\ \A j \in Ids \ {i} : mods'[j] = mods[j]
  BY DEF TypeInv, States
<1>. USE <1>0, <1>a DEF Moved
<1>1. TypeInv'
  BY DEF TypeInv, IsCtx, InCall
<1>2. QuietInv' /\ ForkInv' /\ FdInv'
  BY DEF TypeInv, QuietInv, ForkInv, FdInv, NoModule, Forks, Spec_, Before, InCall, IsCtx
<1>3. DenyInv'
  BY DEF TypeInv, QuietInv, DenyInv, NoModule, IsApp, Forks, Before, InCall, IsCtx, Skip
<1>4. JniInv' /\ PltInv'
  BY DEF TypeInv, ForkInv, JniInv, Hooked, PltInv, Spec_, Before, InCall, Methods, Hook,
         IsCtx
<1>5. \A j \in Ids : mods'[j] \in IF j < i + 1 THEN {"none", "left", "post", "closed"}
                               ELSE {"none", "left", "pre"}
  <2>1. mods'[i] \in {"none", "left", "post", "closed"}
    BY DEF TypeInv, States, LoopInv, IsCtx, InCall, Ids
  <2>2. \A j \in Ids \ {i} : mods[j] \in IF j < i THEN {"none", "left", "post", "closed"}
                                    ELSE {"none", "left", "pre"}
    BY DEF LoopInv
  <2>. QED
    BY <2>1, <2>2 DEF Ids
<1>6. LoopInv'
  <2>1. pc' = "post" /\ g_ctx'.at = i + 1
    OBVIOUS
  <2>. QED
    BY <1>5, <2>1 DEF LoopInv
<1>. QED
  BY <1>1, <1>2, <1>3, <1>4, <1>6 DEF IInv

\* All modules have been through the loop.
LEMMA LoopEndsKeeps ==
    ASSUME IInv, LoopEnds
    PROVE  IInv'
<1>. USE ZygiskAssumption DEF IInv, LoopEnds, AfterPre, hookVars, procVars, runVars
<1>1. TypeInv'
  BY DEF TypeInv, IsCtx, Hook, States, Methods, NoCtx, Before, InCall, After, Ids
<1>2. QuietInv' /\ ForkInv' /\ FdInv'
  BY DEF TypeInv, QuietInv, ForkInv, FdInv, NoModule, Forks, Spec_, Before, InCall, IsCtx
<1>3. DenyInv'
  BY DEF TypeInv, QuietInv, DenyInv, NoModule, IsApp, Forks, Before, InCall, IsCtx
<1>4. JniInv' /\ PltInv'
  BY DEF TypeInv, ForkInv, JniInv, Hooked, PltInv, Spec_, Before, InCall, Methods, Hook,
         IsCtx
<1>5. LoopInv'
  BY DEF TypeInv, QuietInv, LoopInv, NoModule, Before, InCall, Ids, IsCtx
<1>. QED
  BY <1>1, <1>2, <1>3, <1>4, <1>5 DEF IInv

\* The child keeps what the zygote had and what is to be ignored.
LEMMA sanitize_fdsKeeps ==
    ASSUME IInv, NEW array \in BOOLEAN, sanitize_fds(array)
    PROVE  IInv'
<1>. USE ZygiskAssumption DEF IInv, sanitize_fds, Goto, is_child, hookVars, procVars,
         runVars
<1>1. TypeInv'
  BY DEF TypeInv, IsCtx, Hook, States, Methods, NoCtx, Before, InCall, After, Ids
<1>2. QuietInv' /\ ForkInv' /\ FdInv'
  BY DEF TypeInv, QuietInv, ForkInv, FdInv, NoModule, Forks, Spec_, Before, InCall, IsCtx
<1>3. DenyInv'
  BY DEF TypeInv, QuietInv, DenyInv, NoModule, IsApp, Forks, Before, InCall, IsCtx
<1>4. JniInv' /\ PltInv'
  BY DEF TypeInv, ForkInv, JniInv, Hooked, PltInv, Spec_, Before, InCall, Methods, Hook,
         IsCtx
<1>5. LoopInv'
  BY DEF TypeInv, QuietInv, LoopInv, NoModule, Before, InCall, Ids, IsCtx
<1>. QED
  BY <1>1, <1>2, <1>3, <1>4, <1>5 DEF IInv

\* The log pipe is closed where a fork follows.
LEMMA new_android_log_closeKeeps ==
    ASSUME IInv, new_android_log_close
    PROVE  IInv'
<1>. USE ZygiskAssumption DEF IInv, new_android_log_close, Goto, hookVars, procVars, runVars
<1>1. TypeInv'
  BY DEF TypeInv, IsCtx, Hook, States, Methods, NoCtx, Before, InCall, After, Ids
<1>2. QuietInv' /\ ForkInv' /\ FdInv'
  BY DEF TypeInv, QuietInv, ForkInv, FdInv, NoModule, Forks, Spec_, Before, InCall, IsCtx
<1>3. DenyInv'
  BY DEF TypeInv, QuietInv, DenyInv, NoModule, IsApp, Forks, Before, InCall, IsCtx
<1>4. JniInv' /\ PltInv'
  BY DEF TypeInv, ForkInv, JniInv, Hooked, PltInv, Spec_, Before, InCall, Methods, Hook,
         IsCtx
<1>5. LoopInv'
  BY DEF TypeInv, QuietInv, LoopInv, NoModule, Before, InCall, Ids, IsCtx
<1>. QED
  BY <1>1, <1>2, <1>3, <1>4, <1>5 DEF IInv

\* The fork is not repeated.
LEMMA new_forkKeeps ==
    ASSUME IInv, NEW result \in Forked \cup {"cached"}, new_fork(result)
    PROVE  IInv'
<1>. USE ZygiskAssumption DEF IInv, new_fork, Forked, hookVars, procVars, runVars
<1>1. TypeInv'
  BY DEF TypeInv, IsCtx, Hook, States, Methods, NoCtx, Before, InCall, After, Ids
<1>2. QuietInv' /\ ForkInv' /\ FdInv'
  BY DEF TypeInv, QuietInv, ForkInv, FdInv, NoModule, Forks, Spec_, Before, InCall, IsCtx
<1>3. DenyInv'
  BY DEF TypeInv, QuietInv, DenyInv, NoModule, IsApp, Forks, Before, InCall, IsCtx
<1>4. JniInv' /\ PltInv'
  BY DEF TypeInv, ForkInv, JniInv, Hooked, PltInv, Spec_, Before, InCall, Methods, Hook,
         IsCtx
<1>5. LoopInv'
  BY DEF TypeInv, QuietInv, LoopInv, NoModule, Before, InCall, Ids, IsCtx
<1>. QED
  BY <1>1, <1>2, <1>3, <1>4, <1>5 DEF IInv

\* The mounts go where revert asks for it.
LEMMA new_unshareKeeps ==
    ASSUME IInv, NEW ns \in BOOLEAN, new_unshare(ns)
    PROVE  IInv'
<1>. USE ZygiskAssumption DEF IInv, new_unshare, hookVars, procVars, runVars
<1>1. TypeInv'
  BY DEF TypeInv, IsCtx, Hook, States, Methods, NoCtx, Before, InCall, After, Ids
<1>2. QuietInv' /\ ForkInv' /\ FdInv'
  BY DEF TypeInv, QuietInv, ForkInv, FdInv, NoModule, Forks, Spec_, Before, InCall, IsCtx
<1>3. DenyInv'
  BY DEF TypeInv, QuietInv, DenyInv, NoModule, IsApp, Forks, Before, InCall, IsCtx
<1>4. JniInv' /\ PltInv'
  BY DEF TypeInv, ForkInv, JniInv, Hooked, PltInv, Spec_, Before, InCall, Methods, Hook,
         IsCtx
<1>5. LoopInv'
  BY DEF TypeInv, QuietInv, LoopInv, NoModule, Before, InCall, Ids, IsCtx
<1>. QED
  BY <1>1, <1>2, <1>3, <1>4, <1>5 DEF IInv

\* The log pipe may open again, after the check.
LEMMA new_selinux_android_setcontextKeeps ==
    ASSUME IInv, new_selinux_android_setcontext
    PROVE  IInv'
<1>. USE ZygiskAssumption DEF IInv, new_selinux_android_setcontext, Goto, MayLog, hookVars,
         procVars, runVars
<1>1. TypeInv'
  BY DEF TypeInv, IsCtx, Hook, States, Methods, NoCtx, Before, InCall, After, Ids
<1>2. QuietInv' /\ ForkInv' /\ FdInv'
  BY DEF TypeInv, QuietInv, ForkInv, FdInv, NoModule, Forks, Spec_, Before, InCall, IsCtx
<1>3. DenyInv'
  BY DEF TypeInv, QuietInv, DenyInv, NoModule, IsApp, Forks, Before, InCall, IsCtx
<1>4. JniInv' /\ PltInv'
  BY DEF TypeInv, ForkInv, JniInv, Hooked, PltInv, Spec_, Before, InCall, Methods, Hook,
         IsCtx
<1>5. LoopInv'
  BY DEF TypeInv, QuietInv, LoopInv, NoModule, Before, InCall, Ids, IsCtx
<1>. QED
  BY <1>1, <1>2, <1>3, <1>4, <1>5 DEF IInv

\* The parent is as it was before the call.
LEMMA ParentReturnsKeeps ==
    ASSUME IInv, ParentReturns
    PROVE  IInv'
<1>. USE ZygiskAssumption DEF IInv, ParentReturns, Goto, is_child, hookVars, procVars,
         runVars
<1>1. TypeInv'
  BY DEF TypeInv, IsCtx, Hook, States, Methods, NoCtx, Before, InCall, After, Ids
<1>2. QuietInv' /\ ForkInv' /\ FdInv'
  BY DEF TypeInv, QuietInv, ForkInv, FdInv, NoModule, Forks, Spec_, Before, InCall, IsCtx
<1>3. DenyInv'
  BY DEF TypeInv, QuietInv, DenyInv, NoModule, IsApp, Forks, Before, InCall, IsCtx
<1>4. JniInv' /\ PltInv'
  BY DEF TypeInv, ForkInv, JniInv, Hooked, PltInv, Spec_, Before, InCall, Methods, Hook,
         IsCtx
<1>5. LoopInv'
  BY DEF TypeInv, QuietInv, LoopInv, NoModule, Before, InCall, Ids, IsCtx
<1>. QED
  BY <1>1, <1>2, <1>3, <1>4, <1>5 DEF IInv

\* The child gets the platform's methods back.
LEMMA ChildReturnsKeeps ==
    ASSUME IInv, NEW ok \in BOOLEAN, ChildReturns(ok)
    PROVE  IInv'
<1>. USE ZygiskAssumption DEF IInv, ChildReturns, Goto, is_child, hook_unloader, hookVars,
         procVars, runVars
<1>1. natives' \in [device.has -> {"orig", "zygisk"}] /\ \A m \in device.has : natives'[m] = "orig"
  BY DEF restore_zygote_hook, TypeInv, JniInv, Hooked, InCall, Methods
<1>2. TypeInv'
  BY <1>1 DEF TypeInv, Hook, NoCtx, InCall, After
<1>3. QuietInv' /\ ForkInv' /\ FdInv'
  BY DEF TypeInv, QuietInv, ForkInv, FdInv, NoModule, Forks, Spec_, Before, InCall, IsCtx
<1>4. DenyInv'
  BY DEF TypeInv, QuietInv, DenyInv, NoModule, IsApp, Forks, Before, InCall, IsCtx
<1>5. JniInv' /\ PltInv'
  BY <1>1 DEF TypeInv, ForkInv, JniInv, PltInv, Spec_, Before, InCall, IsCtx
<1>6. LoopInv'
  BY DEF TypeInv, QuietInv, LoopInv, NoModule, Before, InCall, Ids, IsCtx
<1>. QED
  BY <1>2, <1>3, <1>4, <1>5, <1>6 DEF IInv

\* The library is unmapped only without a hook left.
LEMMA new_pthread_attr_destroyKeeps ==
    ASSUME IInv, NEW left \in {{}, {Unloader}, {"fork"}}, new_pthread_attr_destroy(left)
    PROVE  IInv'
<1>. USE ZygiskAssumption DEF IInv, new_pthread_attr_destroy, restore_plt_hook, hookVars,
         procVars, runVars
<1>1. TypeInv'
  BY DEF TypeInv, IsCtx, Hook, States, Methods, NoCtx, Before, InCall, After, Ids
<1>2. QuietInv' /\ ForkInv' /\ FdInv'
  BY DEF TypeInv, QuietInv, ForkInv, FdInv, NoModule, Forks, Spec_, Before, InCall, IsCtx
<1>3. DenyInv'
  BY DEF TypeInv, QuietInv, DenyInv, NoModule, IsApp, Forks, Before, InCall, IsCtx
<1>4. JniInv' /\ PltInv'
  BY DEF TypeInv, ForkInv, JniInv, Hooked, PltInv, Spec_, Before, InCall, Methods, Hook,
         IsCtx
<1>5. LoopInv'
  BY DEF TypeInv, QuietInv, LoopInv, NoModule, Before, InCall, Ids, IsCtx
<1>. QED
  BY <1>1, <1>2, <1>3, <1>4, <1>5 DEF IInv

\* A crash constrains nothing.
LEMMA UseDeletedKeeps ==
    ASSUME IInv, UseDeleted
    PROVE  IInv'
<1>. USE ZygiskAssumption DEF IInv, UseDeleted, hookVars, procVars, runVars
<1>1. TypeInv'
  BY DEF TypeInv, IsCtx, Hook, States, Methods, NoCtx, Before, InCall, After, Ids
<1>2. QuietInv' /\ ForkInv' /\ FdInv'
  BY DEF TypeInv, QuietInv, ForkInv, FdInv, NoModule, Forks, Spec_, Before, InCall, IsCtx
<1>3. DenyInv'
  BY DEF TypeInv, QuietInv, DenyInv, NoModule, IsApp, Forks, Before, InCall, IsCtx
<1>4. JniInv' /\ PltInv'
  BY DEF TypeInv, ForkInv, JniInv, Hooked, PltInv, Spec_, Before, InCall, Methods, Hook,
         IsCtx
<1>5. LoopInv'
  BY DEF TypeInv, QuietInv, LoopInv, NoModule, Before, InCall, Ids, IsCtx
<1>. QED
  BY <1>1, <1>2, <1>3, <1>4, <1>5 DEF IInv

\* The invariant is inductive.
LEMMA NextKeeps == IInv /\ [Next]_vars => IInv'
<1>. SUFFICES ASSUME IInv, [Next]_vars
              PROVE  IInv'
  OBVIOUS
<1>1. CASE UNCHANGED vars
  <2>. USE <1>1 DEF vars, hookVars, procVars, runVars
  <2>1. TypeInv'
    BY DEF IInv, TypeInv
  <2>2. QuietInv' /\ ForkInv' /\ FdInv'
    BY DEF IInv, QuietInv, ForkInv, FdInv, NoModule
  <2>3. DenyInv' /\ LoopInv'
    BY DEF IInv, DenyInv, LoopInv, NoModule
  <2>4. JniInv' /\ PltInv'
    BY DEF IInv, JniInv, Hooked, PltInv
  <2>. QED
    BY <2>1, <2>2, <2>3, <2>4 DEF IInv
<1>2. ASSUME NEW result \in Forked, nativeForkAndSpecialize(result) \/ nativeForkSystemServer(result)
      PROVE  IInv'
  BY <1>2, fork_preKeeps DEF nativeForkAndSpecialize, nativeForkSystemServer, Forks
<1>3. CASE Next
  BY <1>2, <1>3, hook_entryKeeps, new_dlcloseKeeps, new_strdupKeeps, ForkUsapKeeps,
     nativeSpecializeAppProcessKeeps, GetInfoKeeps, LoadModulesKeeps,
     onLoadKeeps, preSpecializeKeeps, postSpecializeKeeps, LoopEndsKeeps, sanitize_fdsKeeps,
     new_android_log_closeKeeps, new_forkKeeps, new_unshareKeeps,
     new_selinux_android_setcontextKeeps, ParentReturnsKeeps, ChildReturnsKeeps,
     new_pthread_attr_destroyKeeps, UseDeletedKeeps DEF Next
<1>. QED
  BY <1>1, <1>3

\* It holds at the start.
LEMMA InitInv == Init => IInv
<1>. SUFFICES ASSUME Init PROVE IInv
  OBVIOUS
<1>. USE ZygiskAssumption DEF Init, Before, InCall, After
<1>1. TypeInv
  BY DEF TypeInv, Hook, States, Methods
<1>2. QuietInv /\ ForkInv /\ FdInv /\ DenyInv /\ PltInv /\ LoopInv
  BY DEF QuietInv, ForkInv, FdInv, DenyInv, PltInv, LoopInv, NoModule
<1>3. JniInv
  BY DEF JniInv, Methods
<1>. QED
  BY <1>1, <1>2, <1>3 DEF IInv

\* Whatever the platform, the modules and the order of the calls, the process is
\* in one of the states the invariant lists.
THEOREM ZygiskInvariant == Spec => []IInv
BY InitInv, NextKeeps, PTL DEF Spec

\* For any number of modules and descriptors, the zygote's descriptor check
\* passes in a process that modules ran in (sanitize_fds).
THEOREM FdCheckAlwaysPasses == Spec => []FdCheckPasses
<1>1. IInv => FdCheckPasses
  BY DEF IInv, TypeInv, FdInv, InCall, FdCheckPasses, Forking, Spec_
<1>. QED
  BY <1>1, ZygiskInvariant, PTL

\* No module ever runs in a process on the enforced denylist, and its own mount
\* namespace is clean before its code runs (app_specialize_pre, unshare's hook).
THEOREM DenyListAlwaysClean == Spec => []DenyListClean
<1>1. IInv => DenyListClean
  BY DEF IInv, TypeInv, DenyInv, InCall, NoModule, DenyListClean, InMemory, NoCtx
<1>. QED
  BY <1>1, ZygiskInvariant, PTL

\* Unless our own fork failed, one process is forked per call and the child alone
\* sees pid 0 (fork_pre, fork's hook).
THEOREM AlwaysForkedOnce == Spec => []ForkedOnce
<1>1. IInv => ForkedOnce
  BY DEF IInv, TypeInv, ForkInv, InCall, ForkedOnce, Forking, Spec_
<1>. QED
  BY <1>1, ZygiskInvariant, PTL

\* Unless our own fork failed, a call leaves no trace in the zygote
\* (~ZygiskContext in the parent).
THEOREM ZygoteAlwaysUntouched == Spec => []ZygoteUntouched
<1>1. IInv => ZygoteUntouched
  BY DEF IInv, TypeInv, QuietInv, JniInv, Before, InCall, NoModule, ZygoteUntouched, InMemory
<1>. QED
  BY <1>1, ZygiskInvariant, PTL

\* A specialized process has no hook of the Zygote class left, and once the
\* library is unmapped no PLT slot either (~ZygiskContext, restore_plt_hook).
THEOREM HooksAlwaysRemoved == Spec => []HooksRemoved
<1>1. IInv => HooksRemoved
  BY DEF IInv, TypeInv, JniInv, PltInv, LoopInv, InCall, HooksRemoved, NoDanglingHook,
         SpecializedIsRestored
<1>. QED
  BY <1>1, ZygiskInvariant, PTL
=============================================================================
