-------------------------- MODULE MCCollectionLock --------------------------
(* Instances of CollectionLock for TLC. *)
EXTENDS CollectionLock

CONSTANTS w1, w2, w3, p1, p2

ThreeWriters == {w1, w2, w3}
TwoProcesses == {p1, p2}

\* w2 and w3 are threads of one process.
TwoOfOneProcess == [w \in Writer |-> IF w = w1 THEN p1 ELSE p2]

FirstOnly == {p1}
=============================================================================
