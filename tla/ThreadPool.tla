----------------------------- MODULE ThreadPool -----------------------------
(***************************************************************************)
(* The request thread pool of magiskd and of the zygisk companion daemon   *)
(* (core/thread.rs).  Callers of exec_task hand one task at a time to the  *)
(* pool through a slot of capacity one, guarded by a mutex and two         *)
(* condition variables.  A step of this module is one critical section:    *)
(* the mutex is held from lock() to the end of the block or to the wait    *)
(* that releases it, so nothing interleaves inside.                        *)
(*                                                                         *)
(* A condition variable is the set of threads in state "waiting" on it.    *)
(* A thread that leaves the wait is first "signaled" (notified, or woken   *)
(* spuriously, which std::sync::Condvar permits) or "timedout", and goes   *)
(* on only when it has the mutex again.  A notification that finds nobody  *)
(* waiting is lost.                                                        *)
(***************************************************************************)
EXTENDS Integers, FiniteSets

CONSTANTS Workers,         \* thread slots: bounds the threads alive at once
          Callers,         \* threads that call exec_task
          Tasks,           \* the closures handed over, each one once
          NoTask,          \* Option::None
          CORE_POOL_SIZE   \* threads that never time out

ASSUME PoolAssumption ==
    /\ CORE_POOL_SIZE \in Nat \ {0}
    /\ NoTask \notin Tasks
    /\ IsFiniteSet(Workers)

VARIABLES idle_threads, total_threads, task,  \* PoolInfo
          worker,        \* where a pool thread is in pool_loop
          is_core_pool,  \* its argument
          running,       \* the task it runs
          caller,        \* where a thread is in exec_task_impl
          arg,           \* the task it hands over
          finished       \* tasks that have returned

workerVars == <<worker, is_core_pool, running>>
callerVars == <<caller, arg>>
poolVars == <<idle_threads, total_threads, task, workerVars, callerVars, finished>>

WorkerState == {"absent", "ready", "waiting", "signaled", "timedout", "running"}
CallerState == {"outside", "calling", "waiting", "signaled"}

Idle(w) == worker[w] \in {"waiting", "signaled", "timedout"}
Alive(w) == worker[w] # "absent"
Core(w) == Alive(w) /\ is_core_pool[w]

Handed == {arg[c] : c \in Callers} \cup {running[w] : w \in Workers}
            \cup {task} \cup finished

PoolInit ==
    /\ idle_threads = 0
    /\ total_threads = 0
    /\ task = NoTask
    /\ worker = [w \in Workers |-> "absent"]
    /\ is_core_pool = [w \in Workers |-> FALSE]
    /\ running = [w \in Workers |-> NoTask]
    /\ caller = [c \in Callers |-> "outside"]
    /\ arg = [c \in Callers |-> NoTask]
    /\ finished = {}

-----------------------------------------------------------------------------
(* exec_task_impl *)

\* exec_task(t): the caller asks for the mutex.
ExecTask(c, t) ==
    /\ caller[c] = "outside"
    /\ t \notin Handed
    /\ caller' = [caller EXCEPT ![c] = "calling"]
    /\ arg' = [arg EXCEPT ![c] = t]
    /\ UNCHANGED <<idle_threads, total_threads, task, workerVars, finished>>

\* task_is_some.notify_one().
NotifyWorker ==
    LET waiting == {w \in Workers : worker[w] = "waiting"}
    IN  IF waiting = {}
        THEN UNCHANGED worker
        ELSE \E w \in waiting : worker' = [worker EXCEPT ![w] = "signaled"]

\* new_daemon_thread(pool_loop_raw, is_core_thread), the counter already raised.
IsCoreThread(total) == total <= CORE_POOL_SIZE

NewThread(w) ==
    /\ worker[w] = "absent"
    /\ total_threads' = total_threads + 1
    /\ worker' = [worker EXCEPT ![w] = "ready"]
    /\ is_core_pool' = [is_core_pool EXCEPT ![w] = IsCoreThread(total_threads + 1)]

\* With the mutex held and the slot empty: store the task, find a thread for it.
SlotFree_Unchecked == TRUE
SlotFree == task = NoTask

Put(c) ==
    /\ caller[c] \in {"calling", "signaled"}
    /\ SlotFree
    /\ task' = arg[c]
    /\ \/ idle_threads = 0 /\ \E w \in Workers : NewThread(w)
       \/ idle_threads # 0 /\ NotifyWorker /\ UNCHANGED <<total_threads, is_core_pool>>
    /\ caller' = [caller EXCEPT ![c] = "outside"]
    /\ arg' = [arg EXCEPT ![c] = NoTask]
    /\ UNCHANGED <<idle_threads, running, finished>>

\* With the mutex held and the slot full: task_is_none.wait.
WaitForSlot(c) ==
    /\ caller[c] \in {"calling", "signaled"}
    /\ ~ SlotFree
    /\ caller' = [caller EXCEPT ![c] = "waiting"]
    /\ UNCHANGED <<idle_threads, total_threads, task, workerVars, arg, finished>>

CallerSpuriousWakeup(c) ==
    /\ caller[c] = "waiting"
    /\ caller' = [caller EXCEPT ![c] = "signaled"]
    /\ UNCHANGED <<idle_threads, total_threads, task, workerVars, arg, finished>>

-----------------------------------------------------------------------------
(* pool_loop *)

\* task_is_none.notify_one().
NotifyCaller_Dropped == UNCHANGED caller

NotifyCaller ==
    LET waiting == {c \in Callers : caller[c] = "waiting"}
    IN  IF waiting = {}
        THEN UNCHANGED caller
        ELSE \E c \in waiting : caller' = [caller EXCEPT ![c] = "signaled"]

\* Lines 53 to 58, with the idle count as line 38 left it: take what is in the
\* slot, tell a caller, and run it, or start over when there was nothing.
Take(w, idle) ==
    /\ task' = NoTask
    /\ NotifyCaller
    /\ idle_threads' = idle - 1
    /\ running' = [running EXCEPT ![w] = task]
    /\ worker' = [worker EXCEPT ![w] = IF task = NoTask THEN "ready" ELSE "running"]
    /\ UNCHANGED <<total_threads, is_core_pool, arg, finished>>

\* The top of the loop with a task in the slot.
Pick(w) ==
    /\ worker[w] = "ready"
    /\ task # NoTask
    /\ Take(w, idle_threads + 1)

\* The top of the loop with an empty slot: wait, core threads without a limit.
Park(w) ==
    /\ worker[w] = "ready"
    /\ task = NoTask
    /\ idle_threads' = idle_threads + 1
    /\ worker' = [worker EXCEPT ![w] = "waiting"]
    /\ UNCHANGED <<total_threads, task, is_core_pool, running, callerVars, finished>>

\* The wait returned without timing out.
Wake(w) ==
    /\ worker[w] = "signaled"
    /\ Take(w, idle_threads)

SpuriousWakeup(w) ==
    /\ worker[w] = "waiting"
    /\ worker' = [worker EXCEPT ![w] = "signaled"]
    /\ UNCHANGED <<idle_threads, total_threads, task, is_core_pool, running,
                   callerVars, finished>>

\* wait_timeout gives up after THREAD_IDLE_MAX_SEC; the thread is off the
\* condition variable but does not have the mutex yet.
CanTimeOut_Any(w) == TRUE
CanTimeOut(w) == ~ is_core_pool[w]

TimeOut(w) ==
    /\ worker[w] = "waiting"
    /\ CanTimeOut(w)
    /\ worker' = [worker EXCEPT ![w] = "timedout"]
    /\ UNCHANGED <<idle_threads, total_threads, task, is_core_pool, running,
                   callerVars, finished>>

\* "Terminate thread after timeout": whatever is in the slot by now.
Exit_KeepsTotal(w) ==
    /\ worker[w] = "timedout"
    /\ idle_threads' = idle_threads - 1
    /\ worker' = [worker EXCEPT ![w] = "absent"]
    /\ UNCHANGED <<total_threads, task, is_core_pool, running, callerVars, finished>>

Exit(w) ==
    /\ worker[w] = "timedout"
    /\ idle_threads' = idle_threads - 1
    /\ total_threads' = total_threads - 1
    /\ worker' = [worker EXCEPT ![w] = "absent"]
    /\ UNCHANGED <<task, is_core_pool, running, callerVars, finished>>

\* task() returns.  A pool thread is never the main thread of the daemon, so
\* the exit of line 62 is taken only in processes a task forks.
TaskReturns(w) ==
    /\ worker[w] = "running"
    /\ finished' = finished \cup {running[w]}
    /\ running' = [running EXCEPT ![w] = NoTask]
    /\ worker' = [worker EXCEPT ![w] = "ready"]
    /\ UNCHANGED <<idle_threads, total_threads, task, is_core_pool, callerVars>>

-----------------------------------------------------------------------------
WorkerStep(w) == Pick(w) \/ Park(w) \/ Wake(w) \/ Exit(w)
CallerStep(c) == Put(c) \/ WaitForSlot(c)

PoolNext ==
    \/ \E c \in Callers, t \in Tasks : ExecTask(c, t)
    \/ \E c \in Callers : CallerStep(c) \/ CallerSpuriousWakeup(c)
    \/ \E w \in Workers : WorkerStep(w) \/ TaskReturns(w) \/ SpuriousWakeup(w) \/ TimeOut(w)

PoolSpec == PoolInit /\ [][PoolNext]_poolVars

\* Scheduling: a thread that can have the mutex gets it.  Nothing obliges a wait
\* to end by itself, a request to arrive or a task to return.
Fairness ==
    /\ \A w \in Workers : WF_poolVars(WorkerStep(w))
    /\ \A c \in Callers : WF_poolVars(CallerStep(c))

FairPoolSpec == PoolSpec /\ Fairness

-----------------------------------------------------------------------------
PoolTypeOK ==
    /\ idle_threads \in Int
    /\ total_threads \in Int
    /\ task \in Tasks \cup {NoTask}
    /\ worker \in [Workers -> WorkerState]
    /\ is_core_pool \in [Workers -> BOOLEAN]
    /\ running \in [Workers -> Tasks \cup {NoTask}]
    /\ caller \in [Callers -> CallerState]
    /\ arg \in [Callers -> Tasks \cup {NoTask}]
    /\ finished \in SUBSET Tasks

\* PoolInfo's counters, kept by hand on every path of pool_loop and
\* exec_task_impl, always equal the numbers of idle and of live threads.
CountersExact ==
    /\ idle_threads = Cardinality({w \in Workers : Idle(w)})
    /\ total_threads = Cardinality({w \in Workers : Alive(w)})

\* "Core pool never closes": the pool keeps CORE_POOL_SIZE core threads once it
\* has created as many, and below that size every thread is a core thread.
CorePoolKept ==
    Cardinality({w \in Workers : Core(w)}) =
        IF total_threads <= CORE_POOL_SIZE THEN total_threads ELSE CORE_POOL_SIZE

\* The two together, with the types: a pool that miscounts spawns or keeps the wrong threads.
PoolSound == PoolTypeOK /\ CountersExact /\ CorePoolKept

\* A thread that will look into the slot without anything else happening.
Coming(w) == worker[w] \in {"ready", "signaled"}

\* A stored task has a thread coming for it.  The one exception is the race of
\* exec_task with a timeout: the notification went to a thread that had already
\* given up but was still counted idle, and then all core threads are running
\* tasks, so the stored task waits for one of them to return.
StrandedOnlyIfCoreBusy ==
    (task # NoTask /\ \A w \in Workers : ~ Coming(w)) =>
        /\ \A w \in Workers : Core(w) => worker[w] = "running"
        /\ Cardinality({w \in Workers : Core(w)}) = CORE_POOL_SIZE

\* No caller sleeps on task_is_none while the slot is empty, unless another
\* caller has been woken and will fill it: no wakeup of task_is_none is lost.
NoLostSlotWakeup ==
    (task = NoTask /\ \E c \in Callers : caller[c] = "waiting") =>
        \E c \in Callers : caller[c] = "signaled"

TasksReturn == \A w \in Workers : []<>(worker[w] # "running")

\* Provided the tasks that are started return, every task handed to exec_task is
\* run, even one stranded by a timeout, and no caller stays blocked in exec_task.
EveryTaskRuns ==
    TasksReturn =>
        \A t \in Tasks : (\E c \in Callers : arg[c] = t) ~> t \in finished

-----------------------------------------------------------------------------
(* The inductive invariant behind the properties above. *)

\* Each thread holds a task exactly where the code has one.
HoldsTask ==
    /\ \A w \in Workers : running[w] # NoTask <=> worker[w] = "running"
    /\ \A c \in Callers : arg[c] # NoTask <=> caller[c] # "outside"
    /\ \A w \in Workers : worker[w] = "timedout" => ~ is_core_pool[w]

\* No task is in two places.
OnePlace ==
    /\ \A c, d \in Callers : arg[c] = arg[d] /\ arg[c] # NoTask => c = d
    /\ \A w, x \in Workers : running[w] = running[x] /\ running[w] # NoTask => w = x
    /\ \A c \in Callers, w \in Workers : arg[c] = running[w] => arg[c] = NoTask
    /\ \A c \in Callers : arg[c] \notin finished /\ (arg[c] = task => task = NoTask)
    /\ \A w \in Workers : running[w] \notin finished /\ (running[w] = task => task = NoTask)
    /\ task \notin finished

\* StrandedOnlyIfCoreBusy, made inductive: with a full slot nobody is parked
\* unless somebody is coming.
Stranded ==
    (task # NoTask /\ \A w \in Workers : ~ Coming(w)) =>
        /\ \A w \in Workers : worker[w] # "waiting"
        /\ Cardinality({w \in Workers : Core(w)}) = CORE_POOL_SIZE

\* All of it together: what every critical section of core/thread.rs preserves.
IInv ==
    /\ PoolTypeOK
    /\ HoldsTask
    /\ OnePlace
    /\ CountersExact
    /\ CorePoolKept
    /\ Stranded
    /\ NoLostSlotWakeup

-----------------------------------------------------------------------------
(* What exec_task promises: see TaskBox. *)
Box == INSTANCE TaskBox WITH
           calling <- {arg[c] : c \in Callers} \ {NoTask},
           boxed   <- {task} \ {NoTask},
           started <- {running[w] : w \in Workers} \ {NoTask}

\* The pool implements TaskBox: no task is dropped, overwritten in the slot, or
\* run twice, whatever the interleaving of callers, threads and timeouts.
BoxSpec == Box!Spec
=============================================================================
