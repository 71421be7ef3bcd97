---------------------------- MODULE DaemonProofs ----------------------------
(***************************************************************************)
(* magiskd: the thread pool, for every number of threads, callers and      *)
(* tasks and every CORE_POOL_SIZE, and the boot stages, for any modules,   *)
(* number of boots and edits, and any original native bridge.              *)
(***************************************************************************)
EXTENDS BootStages, ThreadPool, FiniteSetTheorems, TLAPS

-----------------------------------------------------------------------------
(* The thread pool: IInv is inductive; the properties of the model and the
   refinement of TaskBox follow from it. *)

IdleSet == {w \in Workers : Idle(w)}
AliveSet == {w \in Workers : Alive(w)}
CoreSet == {w \in Workers : Core(w)}

\* The sets the counters of PoolInfo count are finite.
LEMMA SetsFinite ==
    ASSUME NEW S \in SUBSET Workers
    PROVE  IsFiniteSet(S) /\ Cardinality(S) \in Nat
BY PoolAssumption, FS_Subset, FS_CardinalityType

\* One thread entering or leaving a set of threads moves its size by one: the
\* += 1 and -= 1 of pool_loop and exec_task_impl.
LEMMA CountStep ==
    ASSUME NEW S \in SUBSET Workers, NEW w \in Workers
    PROVE  /\ w \notin S => Cardinality(S \cup {w}) = Cardinality(S) + 1
           /\ w \in S => Cardinality(S \ {w}) = Cardinality(S) - 1
BY SetsFinite, FS_AddElement

\* A live thread outside the core pool exists only beside a full core pool:
\* IsCoreThread makes the first CORE_POOL_SIZE threads core threads.
LEMMA NonCoreMeansFull ==
    ASSUME PoolTypeOK, CountersExact, CorePoolKept,
           NEW w \in Workers, Alive(w), ~ is_core_pool[w]
    PROVE  total_threads > CORE_POOL_SIZE /\ Cardinality(CoreSet) = CORE_POOL_SIZE
<1>1. CoreSet \in SUBSET AliveSet /\ AliveSet \in SUBSET Workers
  BY DEF CoreSet, AliveSet, Core
<1>2. IsFiniteSet(AliveSet) /\ Cardinality(AliveSet) \in Nat /\ Cardinality(CoreSet) \in Nat
  BY <1>1, SetsFinite
<1>3. CoreSet # AliveSet
  BY DEF CoreSet, AliveSet, Core
<1>4. Cardinality(CoreSet) # Cardinality(AliveSet)
  BY <1>1, <1>2, <1>3, FS_Subset
<1>5. Cardinality(CoreSet) # total_threads
  BY <1>4 DEF CountersExact, AliveSet
<1>. QED
  BY <1>5, PoolAssumption DEF CorePoolKept, CoreSet, PoolTypeOK

-----------------------------------------------------------------------------
\* The pool starts in a state that satisfies the inductive invariant.
LEMMA InitIInv == PoolInit => IInv
<1> SUFFICES ASSUME PoolInit PROVE IInv
  OBVIOUS
<1>1. PoolTypeOK
  BY DEF PoolInit, PoolTypeOK, WorkerState, CallerState
<1>2. HoldsTask /\ OnePlace
  BY DEF PoolInit, HoldsTask, OnePlace
<1>3. IdleSet = {} /\ AliveSet = {} /\ CoreSet = {}
  BY DEF PoolInit, IdleSet, AliveSet, CoreSet, Idle, Alive, Core
<1>4. CountersExact
  BY <1>3, FS_EmptySet DEF PoolInit, CountersExact, IdleSet, AliveSet
<1>5. CorePoolKept
  BY <1>3, FS_EmptySet, PoolAssumption DEF PoolInit, CorePoolKept, CoreSet
<1>6. Stranded /\ NoLostSlotWakeup
  BY DEF PoolInit, Stranded, NoLostSlotWakeup
<1>. QED
  BY <1>1, <1>2, <1>4, <1>5, <1>6 DEF IInv

\* Every step of a caller or a thread keeps the values in their types.
LEMMA TypeStep == PoolTypeOK /\ HoldsTask /\ [PoolNext]_poolVars => PoolTypeOK'
<1> SUFFICES ASSUME PoolTypeOK, HoldsTask, [PoolNext]_poolVars PROVE PoolTypeOK'
  OBVIOUS
<1> USE DEF PoolTypeOK, WorkerState, CallerState, poolVars, workerVars, callerVars
<1>1. ASSUME NEW c \in Callers, NEW t \in Tasks, ExecTask(c, t) PROVE PoolTypeOK'
  BY <1>1 DEF ExecTask
<1>2. ASSUME NEW c \in Callers, Put(c) PROVE PoolTypeOK'
  <2>1. CASE idle_threads = 0
    <3>1. PICK w \in Workers : NewThread(w)
      BY <1>2, <2>1 DEF Put
    <3>. QED BY <1>2, <3>1 DEF Put, NewThread, IsCoreThread
  <2>2. CASE idle_threads # 0
    BY <1>2, <2>2 DEF Put, NotifyWorker
  <2>. QED BY <2>1, <2>2
<1>3. ASSUME NEW c \in Callers, WaitForSlot(c) PROVE PoolTypeOK'
  BY <1>3 DEF WaitForSlot
<1>4. ASSUME NEW c \in Callers, CallerSpuriousWakeup(c) PROVE PoolTypeOK'
  BY <1>4 DEF CallerSpuriousWakeup
<1>5. ASSUME NEW w \in Workers, NEW i \in Int, Take(w, i) PROVE PoolTypeOK'
  BY <1>5 DEF Take, NotifyCaller
<1>6. ASSUME NEW w \in Workers, Pick(w) PROVE PoolTypeOK'
  BY <1>5, <1>6 DEF Pick
<1>7. ASSUME NEW w \in Workers, Park(w) PROVE PoolTypeOK'
  BY <1>7 DEF Park
<1>8. ASSUME NEW w \in Workers, Wake(w) PROVE PoolTypeOK'
  BY <1>5, <1>8 DEF Wake
<1>9. ASSUME NEW w \in Workers, Exit(w) PROVE PoolTypeOK'
  BY <1>9 DEF Exit
<1>10. ASSUME NEW w \in Workers, TaskReturns(w) PROVE PoolTypeOK'
  BY <1>10 DEF TaskReturns, HoldsTask
<1>11. ASSUME NEW w \in Workers, SpuriousWakeup(w) PROVE PoolTypeOK'
  BY <1>11 DEF SpuriousWakeup
<1>12. ASSUME NEW w \in Workers, TimeOut(w) PROVE PoolTypeOK'
  BY <1>12 DEF TimeOut
<1>. QED
  BY <1>1, <1>2, <1>3, <1>4, <1>6, <1>7, <1>8, <1>9, <1>10, <1>11, <1>12 DEF PoolNext, CallerStep,
     WorkerStep

\* Who holds a task, and that no task is in two places, survives every step:
\* the slot is filled only when empty and emptied by the thread that takes it.
LEMMA TaskStep ==
    PoolTypeOK /\ HoldsTask /\ OnePlace /\ [PoolNext]_poolVars => HoldsTask' /\ OnePlace'
<1> SUFFICES ASSUME PoolTypeOK, HoldsTask, OnePlace, [PoolNext]_poolVars
             PROVE  HoldsTask' /\ OnePlace'
  OBVIOUS
<1> USE PoolAssumption DEF PoolTypeOK, WorkerState, CallerState, poolVars, workerVars, callerVars
<1> DEFINE Goal == HoldsTask' /\ OnePlace'
<1>1. ASSUME NEW c \in Callers, NEW t \in Tasks, ExecTask(c, t) PROVE Goal
  BY <1>1 DEF ExecTask, Handed, HoldsTask, OnePlace
<1>2. ASSUME NEW c \in Callers, Put(c) PROVE Goal
  BY <1>2 DEF Put, NewThread, NotifyWorker, HoldsTask, OnePlace
<1>3. ASSUME NEW c \in Callers, WaitForSlot(c) PROVE Goal
  BY <1>3 DEF WaitForSlot, HoldsTask, OnePlace
<1>4. ASSUME NEW c \in Callers, CallerSpuriousWakeup(c) PROVE Goal
  BY <1>4 DEF CallerSpuriousWakeup, HoldsTask, OnePlace
<1>5. ASSUME NEW w \in Workers, NEW i \in Int, Take(w, i), running[w] = NoTask PROVE Goal
  BY <1>5 DEF Take, NotifyCaller, HoldsTask, OnePlace
<1>6. ASSUME NEW w \in Workers, Pick(w) PROVE Goal
  BY <1>5, <1>6 DEF Pick, HoldsTask
<1>7. ASSUME NEW w \in Workers, Park(w) PROVE Goal
  BY <1>7 DEF Park, HoldsTask, OnePlace
<1>8. ASSUME NEW w \in Workers, Wake(w) PROVE Goal
  BY <1>5, <1>8 DEF Wake, HoldsTask
<1>9. ASSUME NEW w \in Workers, Exit(w) PROVE Goal
  BY <1>9 DEF Exit, HoldsTask, OnePlace
<1>10. ASSUME NEW w \in Workers, TaskReturns(w) PROVE Goal
  BY <1>10 DEF TaskReturns, HoldsTask, OnePlace
<1>11. ASSUME NEW w \in Workers, SpuriousWakeup(w) PROVE Goal
  BY <1>11 DEF SpuriousWakeup, HoldsTask, OnePlace
<1>12. ASSUME NEW w \in Workers, TimeOut(w) PROVE Goal
  BY <1>12 DEF TimeOut, CanTimeOut, HoldsTask, OnePlace
<1>13. CASE UNCHANGED poolVars
  BY <1>13 DEF HoldsTask, OnePlace
<1>. QED
  BY <1>1, <1>2, <1>3, <1>4, <1>6, <1>7, <1>8, <1>9, <1>10, <1>11, <1>12, <1>13
     DEF PoolNext, CallerStep, WorkerStep

\* idle_threads and total_threads stay exact, and the core pool complete, on every
\* path of pool_loop and exec_task_impl.
LEMMA CountStepInv ==
    PoolTypeOK /\ HoldsTask /\ CountersExact /\ CorePoolKept /\ [PoolNext]_poolVars
        => CountersExact' /\ CorePoolKept'
<1> SUFFICES ASSUME PoolTypeOK, HoldsTask, CountersExact, CorePoolKept, [PoolNext]_poolVars
             PROVE  CountersExact' /\ CorePoolKept'
  OBVIOUS
<1> USE PoolAssumption DEF poolVars, workerVars, callerVars
<1> DEFINE Goal == CountersExact' /\ CorePoolKept'
<1>a. /\ idle_threads = Cardinality(IdleSet) /\ total_threads = Cardinality(AliveSet)
      /\ Cardinality(CoreSet) = IF total_threads <= CORE_POOL_SIZE
                                THEN total_threads ELSE CORE_POOL_SIZE
  BY DEF CountersExact, CorePoolKept, IdleSet, AliveSet, CoreSet
<1>b. /\ IdleSet \in SUBSET Workers /\ AliveSet \in SUBSET Workers
      /\ CoreSet \in SUBSET Workers
      /\ Cardinality(IdleSet) \in Nat /\ Cardinality(AliveSet) \in Nat
      /\ Cardinality(CoreSet) \in Nat
  BY SetsFinite DEF IdleSet, AliveSet, CoreSet
\* It is enough to follow the three sets and the two counters.
<1>c. ASSUME idle_threads' = Cardinality(IdleSet'), total_threads' = Cardinality(AliveSet'),
             Cardinality(CoreSet') = IF total_threads' <= CORE_POOL_SIZE
                                     THEN total_threads' ELSE CORE_POOL_SIZE
      PROVE  Goal
  BY <1>c DEF CountersExact, CorePoolKept, IdleSet, AliveSet, CoreSet
\* Steps that move no thread between the sets.
<1>d. ASSUME IdleSet' = IdleSet, AliveSet' = AliveSet, CoreSet' = CoreSet,
             UNCHANGED <<idle_threads, total_threads>>
      PROVE  Goal
  BY <1>a, <1>c, <1>d
<1>1. ASSUME NEW c \in Callers, NEW t \in Tasks, ExecTask(c, t) PROVE Goal
  BY <1>1, <1>d DEF ExecTask, IdleSet, AliveSet, CoreSet, Idle, Alive, Core
<1>2. ASSUME NEW c \in Callers, Put(c) PROVE Goal
  <2>1. CASE idle_threads = 0
    <3>1. PICK w \in Workers : NewThread(w)
      BY <1>2, <2>1 DEF Put
    <3>2. /\ w \notin AliveSet /\ w \notin CoreSet
          /\ AliveSet' = AliveSet \cup {w} /\ IdleSet' = IdleSet
          /\ CoreSet' = IF total_threads + 1 <= CORE_POOL_SIZE
                        THEN CoreSet \cup {w} ELSE CoreSet
          /\ total_threads' = total_threads + 1 /\ idle_threads' = idle_threads
      BY <1>2, <3>1 DEF PoolTypeOK, Put, NewThread, IsCoreThread, IdleSet, AliveSet, CoreSet,
                        Idle, Alive, Core
    <3>3. /\ Cardinality(AliveSet \cup {w}) = Cardinality(AliveSet) + 1
          /\ Cardinality(CoreSet \cup {w}) = Cardinality(CoreSet) + 1
      BY <3>2, <1>b, CountStep
    <3>. QED BY <1>a, <1>b, <1>c, <3>2, <3>3
  <2>2. CASE idle_threads # 0
    BY <1>2, <2>2, <1>d DEF PoolTypeOK, Put, NotifyWorker, IdleSet, AliveSet, CoreSet, Idle,
       Alive, Core
  <2>. QED BY <2>1, <2>2
<1>3. ASSUME NEW c \in Callers, WaitForSlot(c) PROVE Goal
  BY <1>3, <1>d DEF WaitForSlot, IdleSet, AliveSet, CoreSet, Idle, Alive, Core
<1>4. ASSUME NEW c \in Callers, CallerSpuriousWakeup(c) PROVE Goal
  BY <1>4, <1>d DEF CallerSpuriousWakeup, IdleSet, AliveSet, CoreSet, Idle, Alive, Core
<1>6. ASSUME NEW w \in Workers, Pick(w) PROVE Goal
  BY <1>6, <1>d DEF PoolTypeOK, Pick, Take, IdleSet, AliveSet, CoreSet, Idle, Alive, Core
<1>7. ASSUME NEW w \in Workers, Park(w) PROVE Goal
  <2>1. /\ IdleSet' = IdleSet \cup {w} /\ w \notin IdleSet
        /\ AliveSet' = AliveSet /\ CoreSet' = CoreSet
    BY <1>7 DEF PoolTypeOK, Park, IdleSet, AliveSet, CoreSet, Idle, Alive, Core
  <2>2. Cardinality(IdleSet') = Cardinality(IdleSet) + 1
    BY <2>1, <1>b, CountStep
  <2>. QED BY <1>7, <1>a, <1>c, <2>1, <2>2 DEF Park
<1>8. ASSUME NEW w \in Workers, Wake(w) PROVE Goal
  <2>1. /\ IdleSet' = IdleSet \ {w} /\ w \in IdleSet
        /\ AliveSet' = AliveSet /\ CoreSet' = CoreSet
    BY <1>8 DEF PoolTypeOK, Wake, Take, IdleSet, AliveSet, CoreSet, Idle, Alive, Core
  <2>2. Cardinality(IdleSet') = Cardinality(IdleSet) - 1
    BY <2>1, <1>b, CountStep
  <2>. QED BY <1>8, <1>a, <1>c, <2>1, <2>2 DEF Wake, Take
<1>9. ASSUME NEW w \in Workers, Exit(w) PROVE Goal
  <2>1. /\ IdleSet' = IdleSet \ {w} /\ w \in IdleSet
        /\ AliveSet' = AliveSet \ {w} /\ w \in AliveSet
        /\ CoreSet' = CoreSet
    BY <1>9 DEF PoolTypeOK, HoldsTask, Exit, IdleSet, AliveSet, CoreSet, Idle, Alive, Core
  <2>2. /\ Cardinality(IdleSet') = Cardinality(IdleSet) - 1
        /\ Cardinality(AliveSet') = Cardinality(AliveSet) - 1
    BY <2>1, <1>b, CountStep
  <2>3. Alive(w) /\ ~ is_core_pool[w]
    BY <1>9 DEF Exit, HoldsTask, Alive
  <2>4. total_threads > CORE_POOL_SIZE
    BY <2>3, NonCoreMeansFull
  <2>. QED BY <1>9, <1>a, <1>b, <1>c, <2>1, <2>2, <2>4 DEF Exit
<1>10. ASSUME NEW w \in Workers, TaskReturns(w) PROVE Goal
  BY <1>10, <1>d DEF PoolTypeOK, TaskReturns, IdleSet, AliveSet, CoreSet, Idle, Alive, Core
<1>11. ASSUME NEW w \in Workers, SpuriousWakeup(w) PROVE Goal
  BY <1>11, <1>d DEF PoolTypeOK, SpuriousWakeup, IdleSet, AliveSet, CoreSet, Idle, Alive, Core
<1>12. ASSUME NEW w \in Workers, TimeOut(w) PROVE Goal
  BY <1>12, <1>d DEF PoolTypeOK, TimeOut, IdleSet, AliveSet, CoreSet, Idle, Alive, Core
<1>13. CASE UNCHANGED poolVars
  BY <1>13, <1>d DEF IdleSet, AliveSet, CoreSet, Idle, Alive, Core
<1>. QED
  BY <1>1, <1>2, <1>3, <1>4, <1>6, <1>7, <1>8, <1>9, <1>10, <1>11, <1>12, <1>13
     DEF PoolNext, CallerStep, WorkerStep

\* A stored task is stranded only beside a full, busy core pool.  The step that
\* could strand it is Put with idle threads counted but none waiting; the counted
\* one is then on its way, or has timed out and is not a core thread.
LEMMA StrandedStep ==
    PoolTypeOK /\ HoldsTask /\ CountersExact /\ CorePoolKept /\ Stranded /\ [PoolNext]_poolVars
        => Stranded'
<1> SUFFICES ASSUME PoolTypeOK, HoldsTask, CountersExact, CorePoolKept, Stranded, [PoolNext]_poolVars,
                    task' # NoTask, \A w \in Workers : ~ Coming(w)'
             PROVE  /\ \A w \in Workers : worker'[w] # "waiting"
                    /\ Cardinality(CoreSet') = CORE_POOL_SIZE
  BY DEF Stranded, CoreSet
<1> USE DEF poolVars, workerVars, callerVars, Coming
<1> DEFINE Goal == /\ \A w \in Workers : worker'[w] # "waiting"
                   /\ Cardinality(CoreSet') = CORE_POOL_SIZE
\* Steps that leave the slot and the threads' standing alone.
<1>d. ASSUME task' = task, \A w \in Workers : ~ Coming(w), CoreSet' = CoreSet,
             \A w \in Workers : worker'[w] = "waiting" => worker[w] = "waiting"
      PROVE  Goal
  BY <1>d DEF Stranded, CoreSet
<1>1. ASSUME NEW c \in Callers, NEW t \in Tasks, ExecTask(c, t) PROVE Goal
  BY <1>1, <1>d DEF ExecTask, CoreSet, Core, Alive
<1>2. ASSUME NEW c \in Callers, Put(c) PROVE Goal
  <2>1. CASE idle_threads = 0
    BY <1>2, <2>1 DEF Put, NewThread, PoolTypeOK
  <2>2. CASE idle_threads # 0
    <3>1. worker' = worker /\ is_core_pool' = is_core_pool
          /\ \A w \in Workers : worker[w] # "waiting"
      BY <1>2, <2>2 DEF Put, NotifyWorker, PoolTypeOK
    <3>2. IdleSet # {}
      BY <2>2, FS_EmptySet DEF CountersExact, IdleSet
    <3>3. PICK w \in Workers : worker[w] = "timedout"
      BY <3>1, <3>2 DEF IdleSet, Idle
    <3>4. Alive(w) /\ ~ is_core_pool[w]
      BY <3>3 DEF HoldsTask, Alive
    <3>5. Cardinality(CoreSet) = CORE_POOL_SIZE
      BY <3>4, NonCoreMeansFull
    <3>. QED BY <3>1, <3>5 DEF CoreSet, Core, Alive
  <2>. QED BY <2>1, <2>2
<1>3. ASSUME NEW c \in Callers, WaitForSlot(c) PROVE Goal
  BY <1>3, <1>d DEF WaitForSlot, CoreSet, Core, Alive
<1>4. ASSUME NEW c \in Callers, CallerSpuriousWakeup(c) PROVE Goal
  BY <1>4, <1>d DEF CallerSpuriousWakeup, CoreSet, Core, Alive
<1>5. ASSUME NEW w \in Workers, Pick(w) \/ Park(w) \/ Wake(w) PROVE Goal
  BY <1>5 DEF Pick, Park, Wake, Take
<1>6. ASSUME NEW w \in Workers, Exit(w) PROVE Goal
  BY <1>6, <1>d DEF PoolTypeOK, HoldsTask, Exit, CoreSet, Core, Alive
<1>7. ASSUME NEW w \in Workers, TaskReturns(w) PROVE Goal
  BY <1>7 DEF TaskReturns, PoolTypeOK
<1>8. ASSUME NEW w \in Workers, SpuriousWakeup(w) PROVE Goal
  BY <1>8 DEF SpuriousWakeup, PoolTypeOK
<1>9. ASSUME NEW w \in Workers, TimeOut(w) PROVE Goal
  BY <1>9, <1>d DEF PoolTypeOK, TimeOut, CoreSet, Core, Alive
<1>10. CASE UNCHANGED poolVars
  BY <1>10, <1>d DEF CoreSet, Core, Alive
<1>. QED
  BY <1>1, <1>2, <1>3, <1>4, <1>5, <1>6, <1>7, <1>8, <1>9, <1>10
     DEF PoolNext, CallerStep, WorkerStep

\* Whoever empties the slot wakes a caller, and a woken caller leaves its wait
\* only by filling the slot: no wakeup of task_is_none is lost.
LEMMA WakeupStep == PoolTypeOK /\ HoldsTask /\ NoLostSlotWakeup /\ [PoolNext]_poolVars => NoLostSlotWakeup'
<1> SUFFICES ASSUME PoolTypeOK, HoldsTask, NoLostSlotWakeup, [PoolNext]_poolVars, task' = NoTask,
                    NEW d \in Callers, caller'[d] = "waiting"
             PROVE  \E c \in Callers : caller'[c] = "signaled"
  BY DEF NoLostSlotWakeup
<1> USE DEF PoolTypeOK, poolVars, workerVars, callerVars
<1> DEFINE Goal == \E c \in Callers : caller'[c] = "signaled"
<1>1. ASSUME NEW c \in Callers, NEW t \in Tasks, ExecTask(c, t) PROVE Goal
  BY <1>1 DEF ExecTask, NoLostSlotWakeup
<1>2. ASSUME NEW c \in Callers, Put(c) PROVE Goal
  BY <1>2 DEF Put, HoldsTask
<1>3. ASSUME NEW c \in Callers, WaitForSlot(c) PROVE Goal
  BY <1>3 DEF WaitForSlot, SlotFree
<1>4. ASSUME NEW c \in Callers, CallerSpuriousWakeup(c) PROVE Goal
  BY <1>4 DEF CallerSpuriousWakeup
<1>5. ASSUME NEW w \in Workers, NEW i \in Int, Take(w, i) PROVE Goal
  BY <1>5 DEF Take, NotifyCaller
<1>6. ASSUME NEW w \in Workers, Pick(w) \/ Wake(w) PROVE Goal
  BY <1>5, <1>6 DEF Pick, Wake
<1>7. ASSUME NEW w \in Workers,
             Park(w) \/ Exit(w) \/ TaskReturns(w) \/ SpuriousWakeup(w) \/ TimeOut(w)
      PROVE  Goal
  BY <1>7 DEF Park, Exit, TaskReturns, SpuriousWakeup, TimeOut, NoLostSlotWakeup
<1>8. CASE UNCHANGED poolVars
  BY <1>8 DEF NoLostSlotWakeup
<1>. QED
  BY <1>1, <1>2, <1>3, <1>4, <1>6, <1>7, <1>8 DEF PoolNext, CallerStep, WorkerStep

\* The inductive invariant holds throughout every behaviour of the pool.
THEOREM PoolInvariant == PoolSpec => []IInv
<1>1. IInv /\ [PoolNext]_poolVars => IInv'
  BY TypeStep, TaskStep, CountStepInv, StrandedStep, WakeupStep DEF IInv
<1>. QED
  BY InitIInv, <1>1, PTL DEF PoolSpec

\* PoolInfo's counters always equal the numbers of idle and of live threads.
THEOREM PoolCounters == PoolSpec => []CountersExact
<1>1. IInv => CountersExact
  BY DEF IInv
<1>. QED BY PoolInvariant, <1>1, PTL

\* The core pool never shrinks below min(CORE_POOL_SIZE, threads alive).
THEOREM PoolCore == PoolSpec => []CorePoolKept
<1>1. IInv => CorePoolKept
  BY DEF IInv
<1>. QED BY PoolInvariant, <1>1, PTL

\* Both: the counters of PoolInfo are exact and the core pool is kept.
THEOREM PoolIsSound == PoolSpec => []PoolSound
<1>1. IInv => PoolSound
  BY DEF IInv, PoolSound
<1>. QED
  BY <1>1, PoolInvariant, PTL

\* A stored task without a thread coming for it means that CORE_POOL_SIZE core
\* threads exist and every one of them is running a task.
THEOREM PoolStranded == PoolSpec => []StrandedOnlyIfCoreBusy
<1>1. IInv => StrandedOnlyIfCoreBusy
  BY DEF StrandedOnlyIfCoreBusy, IInv, Stranded, HoldsTask, PoolTypeOK, WorkerState, Core, Alive,
     Coming
<1>. QED BY PoolInvariant, <1>1, PTL

\* No caller of exec_task sleeps beside an empty slot with nobody woken.
THEOREM PoolNoLostWakeup == PoolSpec => []NoLostSlotWakeup
<1>1. IInv => NoLostSlotWakeup
  BY DEF IInv
<1>. QED BY PoolInvariant, <1>1, PTL

-----------------------------------------------------------------------------
\* The pool implements TaskBox: every task that exec_task accepts is started by
\* exactly one thread and ends once, for any interleaving.
THEOREM PoolRefinesBox == PoolSpec => BoxSpec
<1> DEFINE calling == {arg[c] : c \in Callers} \ {NoTask}
           boxed == {task} \ {NoTask}
           started == {running[w] : w \in Workers} \ {NoTask}
<1>1. PoolInit => Box!Init
  BY DEF PoolInit, Box!Init
<1>2. IInv /\ [PoolNext]_poolVars => [Box!Next]_(Box!vars)
  <2> SUFFICES ASSUME IInv, [PoolNext]_poolVars PROVE Box!Next \/ UNCHANGED Box!vars
    OBVIOUS
  <2> USE PoolAssumption DEF IInv, PoolTypeOK, poolVars, workerVars, callerVars
  <2> DEFINE Goal == Box!Next \/ UNCHANGED Box!vars
  <2>1. ASSUME NEW c \in Callers, NEW t \in Tasks, ExecTask(c, t) PROVE Goal
    BY <2>1 DEF ExecTask, HoldsTask, Handed, Box!Call, Box!Next
  <2>2. ASSUME NEW c \in Callers, Put(c) PROVE Goal
    BY <2>2 DEF Put, HoldsTask, OnePlace, SlotFree, Box!Accept, Box!Next
  <2>3. ASSUME NEW w \in Workers, NEW i \in Int, Take(w, i), running[w] = NoTask PROVE Goal
    BY <2>3 DEF Take, Box!vars, Box!Start, Box!Next
  <2>4. ASSUME NEW w \in Workers, Pick(w) \/ Wake(w) PROVE Goal
    BY <2>3, <2>4 DEF Pick, Wake, HoldsTask
  <2>5. ASSUME NEW w \in Workers, TaskReturns(w) PROVE Goal
    BY <2>5 DEF TaskReturns, HoldsTask, OnePlace, Box!End, Box!Next
  <2>6. ASSUME NEW c \in Callers, WaitForSlot(c) \/ CallerSpuriousWakeup(c) PROVE Goal
    BY <2>6 DEF WaitForSlot, CallerSpuriousWakeup, Box!vars
  <2>7. ASSUME NEW w \in Workers, Park(w) \/ Exit(w) \/ SpuriousWakeup(w) \/ TimeOut(w)
        PROVE  Goal
    BY <2>7 DEF Park, Exit, SpuriousWakeup, TimeOut, Box!vars
  <2>8. CASE UNCHANGED poolVars
    BY <2>8 DEF Box!vars
  <2>. QED
    BY <2>1, <2>2, <2>4, <2>5, <2>6, <2>7, <2>8 DEF PoolNext, CallerStep, WorkerStep
<1>. QED
  BY <1>1, <1>2, PoolInvariant, PTL DEF PoolSpec, BoxSpec, Box!Spec

-----------------------------------------------------------------------------
(* The boot stages. *)

\* What a string put behind the loader's name is: its head and its tail.
LEMMA PrependLemma ==
    ASSUME NEW S, NEW s \in Seq(S), NEW e
    PROVE  /\ <<e>> \o s # <<>>
           /\ Head(<<e>> \o s) = e
           /\ Tail(<<e>> \o s) = s
OBVIOUS

\* A value without the loader's name in it does not start with the loader.
LEMMA NoLoaderLemma == ASSUME NEW v \in Seq(Libs) PROVE ~ HasLoader(v)
BY BridgeAssumption DEF HasLoader

-----------------------------------------------------------------------------
(* The native bridge. *)

\* BridgeExact, and that the loader's name is nowhere but in front.
BridgeInv ==
    /\ lib_name # <<>> => nbprop = lib_name
    /\ lib_name # <<>> \/ late => HasLoader(nbprop) /\ Tail(nbprop) \in Seq(Libs)
    /\ lib_name = <<>> /\ ~ late => nbprop \in Seq(Libs)
    /\ lib_name \in Seq(Libs \cup {LDR})
    /\ blind \in BOOLEAN /\ late \in BOOLEAN /\ stopping \in BOOLEAN
    /\ stopping /\ lib_name # <<>> => late
    /\ ~ blind => SameBridge(IF lib_name # <<>> \/ late THEN Tail(nbprop) ELSE nbprop, Orig)

\* The daemon after one that left the loader in the property never uses it: init
\* triggers post-fs-data once in a boot, and only post_fs_data turns zygisk on.
LateInv ==
    /\ "post-fs-data" \notin fired =>
           lib_name = <<>> /\ ~ late /\ ~ zygisk_enabled /\ pc = "idle"
    /\ late /\ lib_name = <<>> => ~ zygisk_enabled /\ pc = "idle"

\* The stronger invariant gives the one that is checked.
LEMMA BridgeInvExact == BridgeInv => BridgeExact
<1> SUFFICES ASSUME BridgeInv PROVE BridgeExact
  OBVIOUS
<1>1. lib_name = <<>> => (HasLoader(nbprop) <=> late)
  BY NoLoaderLemma DEF BridgeInv
<1>2. HasLoader(nbprop) <=> lib_name # <<>> \/ late
  BY <1>1 DEF BridgeInv
<1> QED
  BY <1>1, <1>2 DEF BridgeInv, BridgeExact

\* set_prop keeps the original value behind the loader.
LEMMA SetProp ==
    BridgeInv /\ set_prop /\ UNCHANGED stopping /\ (late => lib_name # <<>>) => BridgeInv'
<1> SUFFICES ASSUME BridgeInv, set_prop, UNCHANGED stopping, late => lib_name # <<>>
             PROVE  BridgeInv'
  OBVIOUS
<1>1. CASE lib_name # <<>>
  BY <1>1 DEF BridgeInv, set_prop
<1>2. CASE lib_name = <<>> /\ Absent(nbprop)
  <2>1. lib_name' = <<LDR>> /\ nbprop' = <<LDR>> /\ blind' = blind /\ late' = stopping
    BY <1>2 DEF set_prop
  <2>2. Tail(<<LDR>>) = <<>> /\ HasLoader(<<LDR>>) /\ <<>> \in Seq(Libs)
    BY DEF HasLoader
  <2>3. ~ blind => SameBridge(<<>>, Orig)
    BY <1>2 DEF BridgeInv, SameBridge, Absent
  <2> QED
    BY <2>1, <2>2, <2>3 DEF BridgeInv
<1>3. CASE lib_name = <<>> /\ ~ Absent(nbprop)
  <2>1. lib_name' = <<LDR>> \o nbprop /\ nbprop' = lib_name' /\ blind' = blind /\ late' = stopping
    BY <1>3 DEF set_prop
  <2>2. nbprop \in Seq(Libs)
    BY <1>3 DEF BridgeInv
  <2>3. lib_name' # <<>> /\ Head(lib_name') = LDR /\ Tail(lib_name') = nbprop
    BY <2>1, <2>2
  <2>5. ~ blind => SameBridge(nbprop, Orig)
    BY <1>3 DEF BridgeInv
  <2>6. blind' \in BOOLEAN /\ (~ blind' => SameBridge(Tail(lib_name'), Orig))
    BY <2>1, <2>3, <2>5 DEF BridgeInv
  <2>7. HasLoader(lib_name') /\ Tail(lib_name') \in Seq(Libs)
    BY <2>2, <2>3 DEF HasLoader
  <2> QED
    BY <2>1, <2>2, <2>6, <2>7 DEF BridgeInv
<1> QED
  BY <1>1, <1>2, <1>3

\* restore_prop takes the loader out, and loses the original only blindly.
LEMMA RestoreProp == BridgeInv /\ restore_prop /\ stopping' \in BOOLEAN => BridgeInv'
<1> SUFFICES ASSUME BridgeInv, restore_prop, stopping' \in BOOLEAN PROVE BridgeInv'
  OBVIOUS
<1>0. <<Zero>> \in Seq(Libs) /\ Absent(<<Zero>>) /\ <<>> \in Seq(Libs \cup {LDR})
  BY BridgeAssumption DEF Absent
<1>1. CASE Len(lib_name) > 1
  <2>1. lib_name # <<>> /\ nbprop' = Tail(nbprop)
    BY <1>1 DEF BridgeInv, restore_prop
  <2>2. lib_name' = <<>> /\ blind' = blind /\ late' = FALSE
    BY <2>1 DEF BridgeInv, restore_prop
  <2>3. nbprop' \in Seq(Libs)
    BY <2>1 DEF BridgeInv
  <2>4. ~ blind => SameBridge(nbprop', Orig)
    BY <2>1 DEF BridgeInv
  <2> QED
    BY <1>0, <2>2, <2>3, <2>4 DEF BridgeInv
<1>2. CASE ~ Len(lib_name) > 1 /\ lib_name # <<>>
  <2>1. nbprop' = <<Zero>> /\ lib_name' = <<>> /\ blind' = blind /\ late' = FALSE
    BY <1>2 DEF restore_prop, BridgeInv
  <2>2. Tail(nbprop) = <<>>
    BY <1>2 DEF BridgeInv
  <2>3. ~ blind => SameBridge(<<Zero>>, Orig)
    BY <1>0, <1>2, <2>2 DEF BridgeInv, SameBridge, Absent
  <2> QED
    BY <1>0, <2>1, <2>3 DEF BridgeInv
<1>3. CASE lib_name = <<>>
  <2>1. /\ nbprop' = <<Zero>> /\ lib_name' = <<>>
        /\ blind' = (blind \/ ~ Absent(nbprop)) /\ late' = FALSE
    BY <1>3 DEF restore_prop
  <2>2. Absent(nbprop) => ~ HasLoader(nbprop)
    BY BridgeAssumption DEF Absent, HasLoader
  <2>3. ~ blind' => SameBridge(<<Zero>>, Orig)
    BY <1>0, <1>3, <2>1, <2>2 DEF BridgeInv, SameBridge
  <2> QED
    BY <1>0, <2>1, <2>3 DEF BridgeInv
<1> QED
  BY <1>1, <1>2, <1>3

\* A device starts with its own native bridge.
LEMMA BridgeStart == Init => BridgeInv /\ LateInv
<1>0. <<>> \in Seq(Libs \cup {LDR}) /\ SameBridge(Orig, Orig)
  BY DEF SameBridge
<1>1. ASSUME Init
      PROVE  nbprop = Orig /\ lib_name = <<>> /\ blind = FALSE /\ late = FALSE /\ stopping = FALSE
  BY <1>1 DEF Init, BridgeInit
<1>2. Init => LateInv
  BY <1>1 DEF Init, LateInv
<1> QED
  BY <1>0, <1>1, <1>2, BridgeAssumption DEF BridgeInv

\* No step puts the loader in when a daemon that has gone left it there.
LEMMA LateStep == LateInv /\ [Next]_vars => LateInv'
<1> SUFFICES ASSUME LateInv, [Next]_vars PROVE LateInv'
  OBVIOUS
<1>1. CASE ApplyModules
  BY <1>1 DEF LateInv, ApplyModules, Return, set_prop, env
<1>2. CASE PostFsData /\ ~ ApplyModules
  BY <1>2 DEF LateInv, PostFsData, StartPostFsData, Abort, CheckSafeMode, disable_modules, RemoveOld,
              ModuleScript, DisableZygisk, ReadZygiskConfig, UnlinkOld, RenameNew, DisableNew,
              Collect, Return, env, daemon, bridge
<1>3. CASE BootComplete
  BY <1>3 DEF LateInv, BootComplete, reset_restore, set_prop, stage, bridge
<1>4. CASE ZygoteRestart
  <2>1. UNCHANGED <<fired, zygisk_enabled, pc>>
    BY <1>4 DEF ZygoteRestart, daemon, stage
  <2>2. UNCHANGED bridge \/ (set_prop /\ zygisk_enabled) \/ restore_prop
    BY <1>4 DEF ZygoteRestart, reset_crash
  <2>3. CASE UNCHANGED bridge
    BY <2>1, <2>3 DEF LateInv, bridge
  <2>4. CASE set_prop /\ zygisk_enabled
    BY <2>1, <2>4 DEF LateInv, set_prop
  <2>5. CASE restore_prop
    BY <2>1, <2>5 DEF LateInv, restore_prop
  <2> QED
    BY <2>2, <2>3, <2>4, <2>5
<1>5. CASE StopDaemon
  BY <1>5 DEF LateInv, StopDaemon, restore_prop, daemon, stage, env
<1>6. CASE ExitDaemon
  BY <1>6 DEF LateInv, ExitDaemon, NewDaemon, env
<1>7. CASE Reboot
  BY <1>7 DEF LateInv, Reboot, NewDaemon
<1>8. CASE \/ LateStart \/ StartDaemon \/ ZygoteStart \/ ZygoteCrash \/ UserStep
           \/ UNCHANGED vars
  BY <1>8 DEF LateInv, LateStart, StartDaemon, ZygoteStart, ZygoteCrash, UserStep, User, vars,
              bridge, daemon, stage, env
<1> QED
  BY <1>1, <1>2, <1>3, <1>4, <1>5, <1>6, <1>7, <1>8 DEF Next

\* Every step keeps BridgeInv: it leaves the bridge alone, or is one of set_prop,
\* restore_prop, the end of the daemon and a reboot.
LEMMA BridgeStep == BridgeInv /\ LateInv /\ [Next]_vars => BridgeInv' /\ LateInv'
<1>0. <<>> \in Seq(Libs \cup {LDR}) /\ SameBridge(Orig, Orig)
  BY DEF SameBridge
<1> SUFFICES ASSUME BridgeInv, LateInv, [Next]_vars PROVE BridgeInv'
  BY LateStep
<1>1. CASE UNCHANGED bridge
  BY <1>1 DEF BridgeInv, bridge
<1>2. CASE set_prop /\ zygisk_enabled /\ UNCHANGED stopping
  BY <1>2, SetProp DEF LateInv
<1>3. CASE restore_prop /\ stopping' \in BOOLEAN
  BY <1>3, RestoreProp
<1>4. CASE Reboot
  <2>1. nbprop' = Orig /\ lib_name' = <<>> /\ blind' = FALSE /\ late' = FALSE /\ stopping' = FALSE
    BY <1>4 DEF Reboot, NewDaemon
  <2> QED
    BY <1>0, <2>1, BridgeAssumption DEF BridgeInv
<1>5. CASE ExitDaemon
  BY <1>0, <1>5 DEF BridgeInv, ExitDaemon, NewDaemon
<1>6. PostFsData => UNCHANGED bridge \/ (set_prop /\ zygisk_enabled /\ UNCHANGED stopping)
  <2>1. ApplyModules => UNCHANGED bridge \/ (set_prop /\ zygisk_enabled /\ UNCHANGED stopping)
    BY DEF ApplyModules, bridge
  <2> QED
    BY <2>1 DEF PostFsData, StartPostFsData, Abort, CheckSafeMode, disable_modules, RemoveOld,
                ModuleScript, DisableZygisk, ReadZygiskConfig, UnlinkOld, RenameNew, DisableNew,
                Collect
<1>7. ZygoteRestart \/ BootComplete \/ StopDaemon =>
          \/ UNCHANGED bridge
          \/ set_prop /\ zygisk_enabled /\ UNCHANGED stopping
          \/ restore_prop /\ stopping' \in BOOLEAN
  BY DEF ZygoteRestart, BootComplete, StopDaemon, reset_crash, reset_restore, BridgeInv
<1>8. LateStart \/ StartDaemon \/ ZygoteStart \/ ZygoteCrash \/ UserStep => UNCHANGED bridge
  BY DEF LateStart, StartDaemon, ZygoteStart, ZygoteCrash, UserStep, User
<1>9. UNCHANGED vars => UNCHANGED bridge
  BY DEF vars
<1> QED
  BY <1>1, <1>2, <1>3, <1>4, <1>5, <1>6, <1>7, <1>8, <1>9 DEF Next

\* BridgeExact always holds: ZygiskState::set_prop and restore_prop keep the
\* original native bridge, whatever requests, crashes, stops of the daemon and
\* reboots come between them, unless restore_prop runs when there is nothing to
\* restore; and the loader outlives the daemon only if a handler put it back between
\* the restore_prop of STOP_DAEMON and its exit.
THEOREM BridgeIsExact == Spec => []BridgeExact
BY BridgeStart, BridgeStep, BridgeInvExact, PTL DEF Spec

\* The one name that is used for the loader while the original is known.
Canon == IF Absent(Orig) THEN <<LDR>> ELSE <<LDR>> \o Orig

NameInv ==
    /\ (lib_name # <<>> \/ late) /\ ~ blind => nbprop = Canon
    /\ injected # <<>> /\ ~ blind => injected = Canon

\* LoaderFound always holds: the name under which apply_modules mounts the loader
\* is the one set_prop writes to the property, then and after every rollback,
\* while the original value is known.
THEOREM LoaderAlwaysFound == Spec => []LoaderFound
<1>1. Init => BridgeInv /\ LateInv /\ NameInv
  BY BridgeStart DEF Init, BridgeInit, NameInv
<1>2. BridgeInv /\ LateInv /\ NameInv /\ [Next]_vars => BridgeInv' /\ LateInv' /\ NameInv'
  <2> SUFFICES ASSUME BridgeInv, LateInv, NameInv, [Next]_vars PROVE NameInv'
    BY BridgeStep
  <2>1. set_prop /\ zygisk_enabled =>
            /\ blind' = blind /\ (~ blind => nbprop' = Canon)
            /\ nbprop' = lib_name'
    BY DEF set_prop, BridgeInv, LateInv, NameInv, SameBridge, Canon
  <2>2. restore_prop => lib_name' = <<>> /\ ~ late' /\ (~ blind' => ~ blind)
    BY DEF restore_prop, BridgeInv
  <2>3. CASE UNCHANGED <<bridge, injected>>
    BY <2>3 DEF NameInv, bridge
  <2>4. CASE UNCHANGED injected /\ ((set_prop /\ zygisk_enabled) \/ restore_prop)
    BY <2>1, <2>2, <2>4 DEF NameInv
  <2>5. CASE ApplyModules
    BY <2>5, <2>1 DEF ApplyModules, InjectedName, NameInv
  <2>6. CASE Reboot
    BY <2>6 DEF Reboot, NewDaemon, NameInv
  <2>7. CASE ExitDaemon
    BY <2>7 DEF ExitDaemon, NewDaemon, NameInv
  <2>8. PostFsData => UNCHANGED <<bridge, injected>> \/ ApplyModules
    BY DEF PostFsData, StartPostFsData, Abort, CheckSafeMode, disable_modules, RemoveOld,
           ModuleScript, DisableZygisk, ReadZygiskConfig, UnlinkOld, RenameNew, DisableNew,
           Collect, daemon
  <2>9. ZygoteRestart \/ BootComplete \/ StopDaemon =>
            UNCHANGED injected /\ (UNCHANGED bridge \/ (set_prop /\ zygisk_enabled) \/ restore_prop)
    BY DEF ZygoteRestart, BootComplete, StopDaemon, reset_crash, reset_restore, daemon
  <2>10. LateStart \/ StartDaemon \/ ZygoteStart \/ ZygoteCrash \/ UserStep \/ UNCHANGED vars =>
            UNCHANGED <<bridge, injected>>
    BY DEF LateStart, StartDaemon, ZygoteStart, ZygoteCrash, UserStep, User, vars, daemon
  <2> QED
    BY <2>3, <2>4, <2>5, <2>6, <2>7, <2>8, <2>9, <2>10 DEF Next
<1>3. BridgeInv /\ NameInv => LoaderFound
  BY BridgeInvExact DEF BridgeInv, BridgeExact, NameInv, LoaderFound
<1> QED
  BY <1>1, <1>2, <1>3, PTL DEF Spec

\* The values of the variables, and that no later stage is noted before post-fs-data.
LEMMA TypesKept == TypeOK /\ [Next]_vars => TypeOK'
<1>. SUFFICES ASSUME TypeOK, [Next]_vars PROVE TypeOK'
  OBVIOUS
<1>. USE StagesAssumption DEF TypeOK, Flags, bridge, settings, dirs, daemon, stage, env, bounds, history
<1>1. ASSUME StartPostFsData PROVE TypeOK'
  BY <1>1 DEF StartPostFsData
<1>2. ASSUME Abort PROVE TypeOK'
  BY <1>2 DEF Abort, Return
<1>3. ASSUME NEW combo \in BOOLEAN, CheckSafeMode(combo) PROVE TypeOK'
  BY <1>3 DEF CheckSafeMode, get_db_setting, set_db_setting
<1>4. ASSUME NEW m \in Modules, disable_modules(m) PROVE TypeOK'
  BY <1>4 DEF disable_modules
<1>5. ASSUME NEW m \in Modules, RemoveOld(m) PROVE TypeOK'
  BY <1>5 DEF RemoveOld, Fresh
<1>6. ASSUME NEW m \in Modules, ModuleScript(m) PROVE TypeOK'
  BY <1>6 DEF ModuleScript
<1>7. ASSUME DisableZygisk PROVE TypeOK'
  BY <1>7 DEF DisableZygisk, Return, set_db_setting
<1>8. ASSUME ReadZygiskConfig PROVE TypeOK'
  BY <1>8 DEF ReadZygiskConfig
<1>9. ASSUME UnlinkOld PROVE TypeOK'
  BY <1>9 DEF UnlinkOld, Without
<1>10. ASSUME RenameNew PROVE TypeOK'
  BY <1>10 DEF RenameNew, With, Fresh, AfterRename
<1>11. ASSUME DisableNew PROVE TypeOK'
  BY <1>11 DEF DisableNew
<1>12. ASSUME Collect PROVE TypeOK'
  BY <1>12 DEF Collect, Without, Removed, Active
<1>13. ASSUME ApplyModules PROVE TypeOK'
  BY <1>13 DEF ApplyModules, Return, Without, Removed, Active
<1>14. ASSUME LateStart PROVE TypeOK'
  BY <1>14 DEF LateStart, MayLateStart
<1>15. ASSUME BootComplete PROVE TypeOK'
  BY <1>15 DEF BootComplete, ResetCount, set_db_setting, reset_restore, MaxStarts
<1>16. ASSUME ZygoteRestart PROVE TypeOK'
  BY <1>16 DEF ZygoteRestart, reset_crash, NextCount, MaxStarts
<1>17. ASSUME StopDaemon \/ ExitDaemon PROVE TypeOK'
  BY <1>17 DEF StopDaemon, ExitDaemon, NewDaemon, MaxStarts
<1>18. ASSUME StartDaemon PROVE TypeOK'
  BY <1>18 DEF StartDaemon
<1>19. ASSUME ZygoteStart PROVE TypeOK'
  BY <1>19 DEF ZygoteStart
<1>20. ASSUME ZygoteCrash PROVE TypeOK'
  BY <1>20 DEF ZygoteCrash
<1>21. ASSUME Reboot PROVE TypeOK'
  BY <1>21 DEF Reboot, NewDaemon, MaxStarts
<1>22. ASSUME UserStep PROVE TypeOK'
  <2>1. ASSUME NEW m \in Modules, Toggle(m), User PROVE TypeOK'
    BY <2>1 DEF User, Toggle
  <2>2. ASSUME NEW m \in Modules, Install(m), User PROVE TypeOK'
    BY <2>2 DEF User, Install
  <2>3. ASSUME NEW v \in {0, 1}, SetZygisk(v), User PROVE TypeOK'
    BY <2>3 DEF User, SetZygisk, set_db_setting
  <2>4. ASSUME RemoveModules, User PROVE TypeOK'
    BY <2>4 DEF User, RemoveModules, NoModules
  <2>. QED
    BY <1>22, <2>1, <2>2, <2>3, <2>4 DEF UserStep
<1>23. CASE UNCHANGED vars
  BY <1>23 DEF vars
<1>. QED
  BY <1>1, <1>2, <1>3, <1>4, <1>5, <1>6, <1>7, <1>8, <1>9, <1>10, <1>11, <1>12, <1>13, <1>14,
     <1>15, <1>16, <1>17, <1>18, <1>19, <1>20, <1>21, <1>22, <1>23 DEF Next, PostFsData

\* Together: the native bridge property is exact and names the mounted loader, for
\* any number of modules, requests, crashes and reboots (ZygiskState).
THEOREM BridgeIsSound == Spec => []BridgeSound
<1>1. Init => TypeOK
  BY StagesAssumption DEF Init, BridgeInit, TypeOK, Fresh, Flags, MaxStarts
<1>. QED
  BY <1>1, TypesKept, BridgeIsExact, LoaderAlwaysFound, PTL DEF Spec, BridgeSound

-----------------------------------------------------------------------------
(* The boot loop counter. *)

CountInv == boot_cnt \in Nat /\ strikes \in Nat /\ BootloopRescue

\* BootloopRescue always holds: with the counter of post_fs_data, which only
\* boot_complete resets, modules are started in at most two boots in a row that
\* do not complete, for any number of boots and at whatever moment they end.
THEOREM RescueAlways == Spec => []BootloopRescue
<1>1. Init => CountInv
  BY DEF Init, CountInv, BootloopRescue
<1>2. CountInv /\ [Next]_vars => CountInv'
  <2> SUFFICES ASSUME CountInv, [Next]_vars PROVE CountInv'
    OBVIOUS
  <2>1. CASE UNCHANGED <<boot_cnt, strikes>>
    BY <2>1 DEF CountInv, BootloopRescue
  <2>2. CASE \E combo \in BOOLEAN : CheckSafeMode(combo)
    BY <2>2 DEF CheckSafeMode, get_db_setting, set_db_setting, SafeCount, CountInv, BootloopRescue
  <2>3. CASE BootComplete
    BY <2>3 DEF BootComplete, ResetCount, set_db_setting, CountInv, BootloopRescue
  <2>4. PostFsData => UNCHANGED <<boot_cnt, strikes>> \/ \E combo \in BOOLEAN : CheckSafeMode(combo)
    BY DEF PostFsData, StartPostFsData, Abort, disable_modules, RemoveOld, ModuleScript, DisableZygisk,
           ReadZygiskConfig, UnlinkOld, RenameNew, DisableNew, Collect, ApplyModules, settings, history
  <2>5. LateStart \/ ZygoteRestart \/ StopDaemon \/ ExitDaemon \/ StartDaemon \/ ZygoteStart
        \/ ZygoteCrash \/ Reboot \/ UserStep \/ UNCHANGED vars => UNCHANGED <<boot_cnt, strikes>>
    BY DEF LateStart, ZygoteRestart, StopDaemon, ExitDaemon, StartDaemon, ZygoteStart, ZygoteCrash,
           Reboot, UserStep, User, vars, settings, history
  <2> QED
    BY <2>1, <2>2, <2>3, <2>4, <2>5 DEF Next
<1>3. CountInv => BootloopRescue
  BY DEF CountInv
<1> QED
  BY <1>1, <1>2, <1>3, PTL DEF Spec

-----------------------------------------------------------------------------
(* What is off stays off. *)

ModRec == [disable : BOOLEAN, remove : BOOLEAN]
Upgrading == {"unlink", "rename", "redisable"}

\* A module that is off has its disable file, or upgrade_modules holds it in a
\* local variable and is about to write it again.
OffInv ==
    /\ root \in [DOMAIN root -> ModRec]
    /\ \A m \in off : \/ m \in DOMAIN root /\ root[m].disable
                      \/ pc \in Upgrading /\ cur = m /\ disable
    /\ pc = "disable" => todo \subseteq DOMAIN root
    /\ pc = "unlink" /\ cur \in DOMAIN root => ~ root[cur].disable
    /\ pc = "rename" => cur \notin DOMAIN root
    /\ pc = "redisable" => cur \in DOMAIN root

\* Nobody uses the device before post_fs_data has returned.
EarlyInv ==
    /\ "post-fs-data" \notin fired => zygote = "down" /\ "boot-complete" \notin fired
    /\ pc # "idle" => "boot-complete" \notin fired

\* Zygisk was turned off, and not turned on by the setting that was read.
ZygiskInv ==
    /\ zygiskOff => zygisk_cfg = 0
    /\ pc \in Upgrading \cup {"upgrade", "scripts"} /\ zygiskOff /\ db_ok => ~ zygisk_enabled

\* BOOT_COMPLETE waits for boot_stage_lock, which post_fs_data holds.
LEMMA EarlyLemma == EarlyInv /\ [Next]_vars => EarlyInv'
<1> SUFFICES ASSUME EarlyInv, [Next]_vars PROVE EarlyInv'
  OBVIOUS
<1>1. CASE PostFsData
  BY <1>1 DEF EarlyInv, PostFsData, StartPostFsData, Abort, Return, CheckSafeMode, disable_modules,
              RemoveOld, ModuleScript, DisableZygisk, ReadZygiskConfig, UnlinkOld, RenameNew,
              DisableNew, Collect, ApplyModules, env
<1>2. CASE LateStart \/ BootComplete
  BY <1>2 DEF EarlyInv, LateStart, BootComplete, stage
<1>3. CASE ZygoteRestart \/ StopDaemon \/ ExitDaemon \/ StartDaemon \/ Reboot
  BY <1>3 DEF EarlyInv, ZygoteRestart, StopDaemon, ExitDaemon, StartDaemon, Reboot, NewDaemon, env,
              stage
<1>4. CASE ZygoteStart \/ ZygoteCrash \/ UserStep \/ UNCHANGED vars
  BY <1>4 DEF EarlyInv, ZygoteStart, ZygoteCrash, UserStep, User, vars, env, stage
<1> QED
  BY <1>1, <1>2, <1>3, <1>4 DEF Next

\* zygisk_enabled is only written by post_fs_data, from the setting.
LEMMA ZygiskLemma == EarlyInv /\ ZygiskInv /\ [Next]_vars => ZygiskInv'
<1> SUFFICES ASSUME EarlyInv, ZygiskInv, [Next]_vars PROVE ZygiskInv'
  OBVIOUS
<1>1. CASE DisableZygisk
  BY <1>1 DEF ZygiskInv, DisableZygisk, Return, set_db_setting, Upgrading
<1>2. CASE ReadZygiskConfig
  BY <1>2 DEF ZygiskInv, ReadZygiskConfig, get_db_setting, Upgrading, settings, env, history
<1>3. CASE \/ StartPostFsData \/ Abort
           \/ \E combo \in BOOLEAN : CheckSafeMode(combo)
           \/ \E m \in Modules : disable_modules(m)
  BY <1>3 DEF ZygiskInv, StartPostFsData, Abort, Return, CheckSafeMode, disable_modules, Upgrading,
              settings, daemon, env, history
<1>4. CASE \/ \E m \in Modules : RemoveOld(m) \/ ModuleScript(m)
           \/ UnlinkOld \/ RenameNew \/ DisableNew \/ Collect \/ ApplyModules
  BY <1>4 DEF ZygiskInv, RemoveOld, ModuleScript, UnlinkOld, RenameNew, AfterRename, DisableNew,
              Collect, ApplyModules, Return, Upgrading, settings, daemon, env, history
<1>5. CASE \/ LateStart \/ BootComplete \/ ZygoteRestart \/ StopDaemon \/ StartDaemon
           \/ ZygoteStart \/ ZygoteCrash \/ UNCHANGED vars
  <2>1. UNCHANGED <<zygisk_cfg, zygiskOff, zygisk_enabled, db_ok, pc>>
    BY <1>5 DEF LateStart, BootComplete, ZygoteRestart, StopDaemon, StartDaemon, ZygoteStart,
                ZygoteCrash, vars, settings, daemon, stage, env, history
  <2> QED
    BY <2>1 DEF ZygiskInv, Upgrading
<1>6. CASE ExitDaemon \/ Reboot
  BY <1>6 DEF ZygiskInv, ExitDaemon, Reboot, NewDaemon, Upgrading, settings
<1>7. CASE UserStep
  <2>1. pc = "idle" /\ pc' = "idle"
    BY <1>7 DEF EarlyInv, UserStep, User, stage
  <2>2. ASSUME NEW v \in {0, 1}, SetZygisk(v) PROVE zygiskOff' => zygisk_cfg' = 0
    BY <2>2 DEF SetZygisk
  <2>3. zygiskOff' => zygisk_cfg' = 0
    BY <1>7, <2>2 DEF ZygiskInv, UserStep, Toggle, Install, RemoveModules
  <2> QED
    BY <2>1, <2>3 DEF ZygiskInv, Upgrading
<1> QED
  BY <1>1, <1>2, <1>3, <1>4, <1>5, <1>6, <1>7 DEF Next, PostFsData

\* Every step that deletes a disable file has noted it before, and writes it again.
LEMMA OffLemma == EarlyInv /\ OffInv /\ [Next]_vars => OffInv'
<1> SUFFICES ASSUME EarlyInv, OffInv, [Next]_vars PROVE OffInv'
  OBVIOUS
<1>1. CASE \E combo \in BOOLEAN : CheckSafeMode(combo)
  BY <1>1 DEF OffInv, CheckSafeMode, Upgrading, dirs
<1>2. ASSUME NEW m \in Modules, disable_modules(m) PROVE OffInv'
  BY <1>2 DEF OffInv, disable_modules, ModRec, Upgrading
<1>3. ASSUME NEW m \in Modules, RemoveOld(m) PROVE OffInv'
  BY <1>3 DEF OffInv, RemoveOld, ModRec, Fresh, Upgrading, history
<1>4. CASE UnlinkOld
  BY <1>4 DEF OffInv, UnlinkOld, Without, ModRec, Upgrading, history
<1>5. CASE RenameNew
  BY <1>5 DEF OffInv, RenameNew, AfterRename, With, Fresh, ModRec, Upgrading, history
<1>6. CASE DisableNew
  BY <1>6 DEF OffInv, DisableNew, ModRec, Upgrading, history
<1>7. CASE Collect \/ ApplyModules
  BY <1>7 DEF OffInv, Collect, ApplyModules, Return, Removed, Without, ModRec, Upgrading
<1>8. ASSUME NEW m \in Modules, ModuleScript(m) PROVE OffInv'
  <2>1. PICK r \in {root[m], [root[m] EXCEPT !.remove = TRUE], [root[m] EXCEPT !.disable = TRUE]} :
            root' = [root EXCEPT ![m] = r]
    BY <1>8 DEF ModuleScript
  <2>2. m \in DOMAIN root => r \in ModRec /\ (root[m].disable => r.disable)
    <3> SUFFICES ASSUME m \in DOMAIN root PROVE r \in ModRec /\ (root[m].disable => r.disable)
      OBVIOUS
    <3>1. root[m] \in ModRec
      BY DEF OffInv
    <3>2. CASE r = root[m]
      BY <3>1, <3>2
    <3>3. CASE r = [root[m] EXCEPT !.remove = TRUE]
      BY <3>1, <3>3 DEF ModRec
    <3>4. CASE r = [root[m] EXCEPT !.disable = TRUE]
      BY <3>1, <3>4 DEF ModRec
    <3> QED
      BY <3>2, <3>3, <3>4
  <2> QED
    BY <1>8, <2>1, <2>2 DEF OffInv, ModuleScript, Upgrading, history
<1>9. CASE StartPostFsData \/ Abort \/ DisableZygisk \/ ReadZygiskConfig
  BY <1>9 DEF OffInv, StartPostFsData, Abort, DisableZygisk, ReadZygiskConfig, Return, Upgrading,
              dirs, history
<1>10. CASE \/ LateStart \/ BootComplete \/ ZygoteRestart \/ StopDaemon \/ StartDaemon
            \/ ZygoteStart \/ ZygoteCrash \/ UNCHANGED vars
  <2>1. UNCHANGED <<root, off, pc, todo, cur, disable>>
    BY <1>10 DEF LateStart, BootComplete, ZygoteRestart, StopDaemon, StartDaemon, ZygoteStart,
                 ZygoteCrash, vars, dirs, stage, history
  <2> QED
    BY <2>1 DEF OffInv, Upgrading
<1>11. CASE ExitDaemon \/ Reboot
  BY <1>11 DEF OffInv, ExitDaemon, Reboot, NewDaemon, Interrupted, Upgrading, dirs
<1>12. CASE UserStep
  <2>1. pc = "idle" /\ pc' = "idle"
    BY <1>12 DEF EarlyInv, UserStep, User, stage
  <2>2. ASSUME NEW m \in Modules, Toggle(m) PROVE OffInv'
    BY <2>1, <2>2 DEF OffInv, Toggle, ModRec, Upgrading
  <2>3. CASE RemoveModules
    BY <2>1, <2>3 DEF OffInv, RemoveModules, NoModules, Upgrading
  <2>4. ASSUME UNCHANGED <<root, off>> PROVE OffInv'
    BY <2>1, <2>4 DEF OffInv, Upgrading
  <2> QED
    BY <1>12, <2>2, <2>3, <2>4 DEF UserStep, Install, SetZygisk, dirs
<1> QED
  BY <1>1, <1>2, <1>3, <1>4, <1>5, <1>6, <1>7, <1>8, <1>9, <1>10, <1>11, <1>12 DEF Next, PostFsData

\* StaysOff always holds: a module that safe mode or the user disabled is not
\* started by handle_modules, nor zygisk by a post_fs_data that can read its
\* setting, in any later boot until the user turns it on.
THEOREM OffStaysOff == Spec => StaysOff
<1> DEFINE Inv == EarlyInv /\ OffInv /\ ZygiskInv
<1>1. Init => Inv
  BY DEF Init, EarlyInv, OffInv, ZygiskInv, Fresh, ModRec, Upgrading
<1>2. Inv /\ [Next]_vars => Inv'
  BY EarlyLemma, OffLemma, ZygiskLemma
<1>3. Inv /\ [Next]_vars => [\A list \in module_list' \ module_list :
                                /\ off \cap list = {}
                                /\ zygiskOff /\ db_ok => ~ zygisk_enabled]_vars
  <2> SUFFICES ASSUME Inv, [Next]_vars, NEW list \in module_list' \ module_list
               PROVE  /\ off \cap list = {}
                      /\ zygiskOff /\ db_ok => ~ zygisk_enabled
    OBVIOUS
  <2>1. ApplyModules
    BY DEF Next, PostFsData, StartPostFsData, Abort, CheckSafeMode, disable_modules, RemoveOld,
           ModuleScript, DisableZygisk, ReadZygiskConfig, UnlinkOld, RenameNew, DisableNew, Collect,
           LateStart, BootComplete, ZygoteRestart, StopDaemon, ExitDaemon, StartDaemon, NewDaemon,
           ZygoteStart, ZygoteCrash, Reboot, UserStep, User, vars, daemon
  <2>2. list = Active /\ pc = "scripts"
    BY <2>1 DEF ApplyModules
  <2> QED
    BY <2>2 DEF OffInv, ZygiskInv, Active, Upgrading
<1> QED
  BY <1>1, <1>2, <1>3, PTL DEF Spec, StaysOff

=============================================================================
