----------------------------- MODULE MCPartLock -----------------------------
(* Instances of PartLock for TLC. *)
EXTENDS PartLock, TLC

CONSTANTS w1, w2, w3, w4, p1, p2, p3

FourPulls      == {w1, w2, w3, w4}
ThreeProcesses == {p1, p2, p3}
\* w3 and w4 are threads of one process.
TwoOfOneProcess == [w \in Pull |-> IF w = w1 THEN p1 ELSE IF w = w2 THEN p2 ELSE p3]
\* w3 and w4 are told apart by nothing.
ThreadsAlike == Permutations({w3, w4})

\* The death of p3, of another pid space, cannot be proven.
FirstTwo  == {p1, p2}
=============================================================================
