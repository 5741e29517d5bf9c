-------------------------- MODULE MCInferenceGate --------------------------
(* Instances of InferenceGate for TLC. *)
EXTENDS InferenceGate

CONSTANTS t1, t2, t3, t4

FourTasks  == {t1, t2, t3, t4}

\* 0 is clamped to 1; 2 and 3 let generations batch, and lowering from 3
\* leaves more holders than the capacity.
Capacities == {0, 2, 3}
=============================================================================
