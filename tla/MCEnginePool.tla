---------------------------- MODULE MCEnginePool ----------------------------
(* Instances of EnginePool for TLC. *)
EXTENDS EnginePool, TLC

CONSTANTS t1, t2, t3, t4, A, B

TwoTasks   == {t1, t2}
ThreeTasks == {t1, t2, t3}
FourTasks  == {t1, t2, t3, t4}

OneModel  == {A}
TwoModels == {A, B}

NoIdleUnloads == {"request", "switch", "unload"}
NoUnloadAll   == {"request", "switch", "unload", "idle_unload"}

Symmetry == Permutations(Task) \cup Permutations(Model)
=============================================================================
