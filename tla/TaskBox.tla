------------------------------ MODULE TaskBox ------------------------------
(***************************************************************************)
(* What ThreadPool::exec_task promises to the code that calls it: a task   *)
(* that is handed over waits in a box for one task, leaves the box when a  *)
(* thread starts it, and ends once.                                        *)
(***************************************************************************)
CONSTANT Tasks

VARIABLES calling,   \* tasks whose exec_task call has not returned
          boxed,     \* the task in the box, if any
          started,   \* tasks a thread is running
          finished   \* tasks that have ended

vars == <<calling, boxed, started, finished>>

Init == calling = {} /\ boxed = {} /\ started = {} /\ finished = {}

Call(t) ==
    /\ t \notin calling \cup boxed \cup started \cup finished
    /\ calling' = calling \cup {t}
    /\ UNCHANGED <<boxed, started, finished>>

Accept(t) ==
    /\ t \in calling
    /\ boxed = {}
    /\ calling' = calling \ {t}
    /\ boxed' = {t}
    /\ UNCHANGED <<started, finished>>

Start(t) ==
    /\ boxed = {t}
    /\ boxed' = {}
    /\ started' = started \cup {t}
    /\ UNCHANGED <<calling, finished>>

End(t) ==
    /\ t \in started
    /\ started' = started \ {t}
    /\ finished' = finished \cup {t}
    /\ UNCHANGED <<calling, boxed>>

Next == \E t \in Tasks : Call(t) \/ Accept(t) \/ Start(t) \/ End(t)

Spec == Init /\ [][Next]_vars
=============================================================================
