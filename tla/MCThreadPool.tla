---------------------------- MODULE MCThreadPool ----------------------------
(* An instance of ThreadPool for TLC.  As many thread slots as tasks: a     *)
(* thread is created only when a task is stored, so no creation is cut off. *)
EXTENDS ThreadPool

CONSTANTS w1, w2, w3, t1, t2, t3, c1, c2

ThreeWorkers == {w1, w2, w3}
ThreeTasks == {t1, t2, t3}
TwoCallers == {c1, c2}
=============================================================================
