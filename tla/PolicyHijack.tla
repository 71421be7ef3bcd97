---------------------------- MODULE PolicyHijack ----------------------------
(***************************************************************************)
(* How magiskinit gets its patched SELinux policy loaded (init/selinux.rs, *)
(* init/preload.c).  It puts files and FIFOs where init will write and     *)
(* read, forks a handler and becomes init.  The handler takes the policy   *)
(* that init meant to load, patches and loads it, and lets init go on.     *)
(*                                                                         *)
(* Processes meet at FIFOs: opening one end waits for the other, which is  *)
(* one step of both.  init itself is external, as the comments of          *)
(* selinux.rs describe it.                                                 *)
(***************************************************************************)
EXTENDS Naturals

CONSTANT MaxFaults      \* bound on steps that fail

VARIABLES
    strat,      \* SePatchStrategy, or "Unknown"
    main,       \* where process 1 is: magiskinit, then init
    child,      \* where the handler is
    mocks,      \* the FIFOs and files of ours that init will meet
    preload,    \* security_load_policy is ours
    policy,     \* the file that init writes instead: "none", "part" or "full"
    mounted,    \* selinuxfs is there
    kernel,     \* the policy in force: "none", "stock", "patched" or "broken"
    writer,     \* the handler's end of the FIFO that init reads: "closed", "open", "sent"
    seen,       \* sz, as much of the policy as there was at the last look
    faults,
    early       \* the handler went on though init was not yet waiting for it

setup == <<strat, preload, mounted>>
shared == <<mocks, policy, kernel, writer>>
watch == <<seen, early>>
loadingVars == <<setup, main, child, shared, watch, faults>>

SePatchStrategy == {"LdPreload", "SelinuxFs", "Legacy"}

LoadingInit ==
    /\ strat \in SePatchStrategy \cup {"Unknown"}
    /\ mounted \in IF strat = "SelinuxFs" THEN BOOLEAN ELSE {FALSE}
    /\ main = "intercept" /\ child = "none"
    /\ mocks = {} /\ preload = FALSE /\ policy = "none" /\ kernel = "none"
    /\ writer = "closed" /\ seen = "none" /\ faults = 0 /\ early = FALSE

-----------------------------------------------------------------------------
(* handle_sepolicy_impl in process 1. *)

\* The strategy, and what comes before the FIFO: the preload library, or selinuxfs
\* with a file in place of load.  Without a strategy init starts as it is.
Intercept ==
    /\ main = "intercept"
    /\ main' = IF strat = "Unknown" THEN "start" ELSE "fifo"
    /\ preload' = (strat = "LdPreload")
    /\ mounted' = (mounted \/ strat = "SelinuxFs")
    /\ mocks' = IF strat = "SelinuxFs" THEN {"load"} ELSE {}
    /\ UNCHANGED <<strat, child, policy, kernel, writer, watch, faults>>

FifoOf == [LdPreload |-> "ack", SelinuxFs |-> "enforce", Legacy |-> "version"]

MakeFifo ==
    /\ main = "fifo" /\ main' = "fork"
    /\ mocks' = mocks \cup {FifoOf[strat]}
    /\ UNCHANGED <<setup, child, policy, kernel, writer, watch, faults>>

Fork ==
    /\ main = "fork" /\ main' = "start"
    /\ child' = IF strat = "Legacy" THEN "wait" ELSE "open"
    /\ UNCHANGED <<setup, shared, watch, faults>>

\* One of these fails, the fork included: the caller goes on to start init.
SetupFails ==
    /\ main \in {"intercept", "fifo", "fork"} /\ main' = "start"
    /\ faults < MaxFaults /\ faults' = faults + 1
    /\ UNCHANGED <<setup, child, shared, watch>>

-----------------------------------------------------------------------------
(* init. *)

\* init, or libselinux in it, mounts selinuxfs; an old one then opens the policy's
\* version.
StartInit ==
    /\ main = "start"
    /\ main' = IF "version" \in mocks THEN "version" ELSE "load"
    /\ mounted' = TRUE
    /\ UNCHANGED <<strat, preload, child, shared, watch, faults>>

\* security_load_policy, ours or that of libselinux: the file instead of load is
\* written piece by piece, and whether it is whole is not looked at.
security_load_policy ==
    /\ main = "load"
    /\ IF preload \/ "load" \in mocks \/ policy = "part"
       THEN /\ policy' = IF policy = "none" THEN "part" ELSE "full"
            /\ main' = IF policy = "none" THEN "load" ELSE "loaded"
            /\ UNCHANGED kernel
       ELSE kernel' = "stock" /\ main' = "loaded" /\ UNCHANGED policy
    /\ UNCHANGED <<setup, child, mocks, writer, watch, faults>>

ShortWrite ==
    /\ main = "load" /\ policy = "part" /\ main' = "loaded"
    /\ faults < MaxFaults /\ faults' = faults + 1
    /\ UNCHANGED <<setup, child, shared, watch>>

\* What it does next: our function opens ack, newer versions read enforce, older ones
\* write to checkreqprot.  A FIFO is waited at, anything else lets it pass.
Gate == [LdPreload |-> "ack", SelinuxFs |-> "enforce", Legacy |-> "checkreqprot",
         Unknown |-> "enforce"]
ReachGate ==
    /\ main = "loaded"
    /\ main' = IF Gate[strat] \in mocks THEN Gate[strat] ELSE "go"
    /\ UNCHANGED <<setup, child, shared, watch, faults>>

\* The read returns with the data, or when nobody can write any more.
ReadAnswer ==
    /\ main = "read" /\ main' = "go"
    /\ writer # "open"
    /\ UNCHANGED <<setup, child, shared, watch, faults>>

-----------------------------------------------------------------------------
(* The handler. *)

\* Both ends of a FIFO are opened.
Meet ==
    \/ /\ main \in {"ack", "enforce"} /\ child = "open"
       /\ main' = "read" /\ child' = IF strat = "LdPreload" THEN "remove" ELSE "unmount"
       /\ writer' = "open"
    \/ /\ main = "version" /\ child = "open_version"
       /\ main' = "load" /\ child' = "unmount_version"
       /\ UNCHANGED writer
    \/ /\ main = "checkreqprot" /\ child = "open_reqprot" /\ "checkreqprot" \notin mocks
       /\ main' = "go" /\ child' = "exited"
       /\ UNCHANGED writer
MeetStep == Meet /\ UNCHANGED <<setup, mocks, policy, kernel, watch, faults>>

\* An old init: once selinuxfs is there its nodes are replaced, then init may go on.
MockNodes ==
    /\ child = "wait" /\ mounted
    /\ child' = "open_version"
    /\ mocks' = mocks \cup {"load", "checkreqprot"}
    /\ UNCHANGED <<setup, main, policy, kernel, writer, watch, faults>>

UnmountVersion ==
    /\ child = "unmount_version" /\ child' = "look"
    /\ mocks' = mocks \ {"version"}
    /\ UNCHANGED <<setup, main, policy, kernel, writer, watch, faults>>

\* "Busy wait until sepolicy is fully written": the size has not changed since the
\* last look.
WrittenFully == seen # "none" /\ seen = policy
Look_KeepsSize ==
    /\ child = "look" /\ WrittenFully /\ child' = "unmount"
    /\ early' = (early \/ main # "checkreqprot")
    /\ UNCHANGED <<setup, main, shared, seen, faults>>
Look ==
    /\ child = "look"
    /\ IF WrittenFully
       THEN child' = "unmount" /\ early' = (early \/ main # "checkreqprot") /\ UNCHANGED seen
       ELSE seen' = policy /\ UNCHANGED <<child, early>>
    /\ UNCHANGED <<setup, main, shared, faults>>

\* cleanup_and_load takes the mocks away before it loads; one that stays is not
\* noticed.
Unmount ==
    /\ child = "unmount" /\ child' = "load"
    /\ \/ mocks' = {} /\ UNCHANGED faults
       \/ mocks' \in SUBSET mocks /\ faults < MaxFaults /\ faults' = faults + 1
    /\ UNCHANGED <<setup, main, policy, kernel, writer, watch>>

\* The copy of the policy is kept, the files are removed.
Remove ==
    /\ child = "remove" /\ child' = "load"
    /\ mocks' = mocks \ {"ack"}
    /\ UNCHANGED <<setup, main, policy, kernel, writer, watch, faults>>

\* SePolicy::from_file and to_file; a policy that is not written, or into our own
\* file, is not noticed.
Load ==
    /\ child = "load"
    /\ child' = IF strat = "Legacy" THEN "open_reqprot" ELSE "answer"
    /\ \/ /\ kernel' = CASE "load" \in mocks -> kernel
                         [] policy = "full" -> "patched"
                         [] OTHER -> "broken"
          /\ UNCHANGED faults
       \/ faults < MaxFaults /\ faults' = faults + 1 /\ UNCHANGED kernel
    /\ UNCHANGED <<setup, main, mocks, policy, writer, watch>>

Answer_BeforeLoad ==
    /\ child \in {"load", "answer"} /\ writer = "open"
    /\ writer' = "sent"
    /\ child' = IF child = "load" THEN "load" ELSE "exited"
    /\ UNCHANGED <<setup, main, mocks, policy, kernel, watch, faults>>
\* The ack, or what the real enforce says: if ours is still there the handler reads
\* from the FIFO it writes to, and waits.
Answer ==
    /\ child = "answer" /\ child' = "exited"
    /\ "enforce" \notin mocks
    /\ writer' = "sent"
    /\ UNCHANGED <<setup, main, mocks, policy, kernel, watch, faults>>

\* A step that returns an error: the handler leaves handle_sepolicy_impl as process 1
\* did, and goes on as a second init.  Its end of the FIFO is closed.
ChildFails ==
    /\ child \in {"open", "open_version", "wait", "unmount_version", "look", "remove", "answer",
                  "open_reqprot"}
    /\ child' = "astray"
    /\ faults < MaxFaults /\ faults' = faults + 1
    /\ writer' = "closed"
    /\ mocks' \in {mocks} \cup (IF child = "wait" /\ mounted THEN {mocks \cup {"load"}} ELSE {})
    /\ UNCHANGED <<setup, main, policy, kernel, watch>>

-----------------------------------------------------------------------------
MainStep == \/ Intercept \/ MakeFifo \/ Fork
            \/ StartInit \/ security_load_policy \/ ReachGate \/ ReadAnswer
ChildStep == MockNodes \/ UnmountVersion \/ Look \/ Unmount \/ Remove \/ Load \/ Answer

LoadingNext == MainStep \/ ChildStep \/ MeetStep \/ SetupFails \/ ShortWrite \/ ChildFails

LoadingSpec == LoadingInit /\ [][LoadingNext]_loadingVars

\* Both processes are scheduled.
Fairness == WF_loadingVars(MainStep) /\ WF_loadingVars(ChildStep) /\ WF_loadingVars(MeetStep)

-----------------------------------------------------------------------------
\* The values of the variables.
LoadingTypeOK ==
    /\ strat \in SePatchStrategy \cup {"Unknown"}
    /\ main \in {"intercept", "fifo", "fork", "start", "version", "load", "loaded", "ack", "enforce",
                 "checkreqprot", "read", "go"}
    /\ child \in {"none", "wait", "open", "open_version", "unmount_version", "look", "unmount",
                  "remove", "load", "answer", "open_reqprot", "exited", "astray"}
    /\ mocks \subseteq {"ack", "load", "enforce", "version", "checkreqprot"}
    /\ policy \in {"none", "part", "full"} /\ seen \in {"none", "part", "full"}
    /\ kernel \in {"none", "stock", "patched", "broken"}
    /\ writer \in {"closed", "open", "sent"}
    /\ preload \in BOOLEAN /\ mounted \in BOOLEAN /\ early \in BOOLEAN /\ faults \in Nat

\* "We need to make sure the actual init process is blocked until sepolicy is loaded"
\* (init/selinux.rs:44): when init gets past its gate, and no step failed, the patched
\* policy is in force and none of our files and FIFOs is in its way.  Only an old init
\* that needs more than two looks of the handler to get from its first byte to the gate
\* may find something else.  What is patched is a whole policy.
PatchedBeforeInit ==
    /\ LoadingTypeOK
    /\ (main = "go" /\ faults = 0 /\ ~ early /\ strat # "Unknown") => kernel = "patched" /\ mocks = {}
    /\ kernel = "broken" => early \/ faults > 0

\* Unless a step failed, init does not wait for ever at a FIFO, and the handler ends,
\* unless it was early and waits for an init that has passed ("At this point, the init
\* process will be unblocked", init/selinux.rs:282).
BothGoOn ==
    /\ <>(main = "go" \/ faults > 0)
    /\ <>(child = "exited" \/ strat = "Unknown" \/ early \/ faults > 0)

-----------------------------------------------------------------------------
(* The inductive invariant: how far the handler is at each place of process 1, *)
(* as long as nothing failed and the handler was not early.                    *)

\* The policy is written between "load" and "loaded".
Written ==
    /\ main \in {"intercept", "fifo", "fork", "start", "version"} => policy = "none"
    /\ main = "load" => policy # "full"
    /\ main \in {"loaded", "ack", "enforce", "checkreqprot", "read", "go"} => policy = "full"

\* Nothing of ours is left when the policy is loaded, and it is loaded before the answer.
PolicyLoaded ==
    /\ child \in {"load", "answer", "open_reqprot", "exited"} => mocks = {}
    /\ child \in {"answer", "open_reqprot", "exited"} => kernel = "patched"
    /\ main = "go" => child = "exited"

\* LdPreload and SelinuxFs: init is at the FIFO or in the read, until the answer.
Waiting(files, first) ==
    /\ main \notin {"version", "checkreqprot"}
    /\ main \in {"intercept", "fifo", "fork"} => child = "none"
    /\ main \in {"fork", "start", "load", "loaded", "ack", "enforce"} => mocks = files
    /\ main \in {"start", "load", "loaded", "ack", "enforce"} => child = "open"
    /\ main = "read" => child \in {first, "load", "answer", "exited"}
    /\ child = first => mocks = files
    /\ (main = "read" /\ child # "exited") => writer = "open"

PreloadPath ==
    /\ Waiting({"ack"}, "remove")
    /\ main # "intercept" => preload
    /\ main \in {"intercept", "fifo"} => mocks = {}

SelinuxFsPath ==
    /\ Waiting({"load", "enforce"}, "unmount")
    /\ main = "fifo" => mocks = {"load"}

\* Legacy: init is held at the version first, then at checkreqprot.
LegacyPath ==
    /\ main \notin {"ack", "enforce", "read"}
    /\ main \in {"intercept", "fifo", "fork"} => child = "none"
    /\ main \in {"intercept", "fifo"} => mocks = {}
    /\ main \in {"fork", "start"} => mocks = {"version"}
    /\ main \in {"intercept", "fifo", "fork", "start"} => ~ mounted
    /\ main = "start" => child = "wait"
    /\ main = "version" => child \in {"wait", "open_version"}
    /\ child = "wait" => mocks = {"version"}
    /\ main \in {"load", "loaded"} => child \in {"unmount_version", "look"}
    /\ main = "checkreqprot" => child \in {"unmount_version", "look", "unmount", "load", "open_reqprot"}
    /\ child \in {"open_version", "unmount_version"} => mocks = {"version", "load", "checkreqprot"}
    /\ child \in {"look", "unmount"} => mocks = {"load", "checkreqprot"}

HandoverInv ==
    /\ PatchedBeforeInit
    /\ strat = "Unknown" => child = "none" /\ main \notin {"fifo", "fork"}
    /\ (faults = 0 /\ ~ early /\ strat # "Unknown") =>
           /\ Written /\ PolicyLoaded
           /\ strat = "LdPreload" => PreloadPath
           /\ strat = "SelinuxFs" => SelinuxFsPath
           /\ strat = "Legacy" => LegacyPath
=============================================================================
