\* One core thread and up to two others; no symmetry, since liveness is checked.
SPECIFICATION FairPoolSpec
CONSTANTS
    w1 = w1  w2 = w2  w3 = w3
    t1 = t1  t2 = t2  t3 = t3
    c1 = c1  c2 = c2
    Workers <- ThreeWorkers
    Callers <- TwoCallers
    Tasks <- ThreeTasks
    NoTask = NoTask
    CORE_POOL_SIZE = 1
INVARIANTS PoolSound StrandedOnlyIfCoreBusy NoLostSlotWakeup
PROPERTIES BoxSpec EveryTaskRuns
