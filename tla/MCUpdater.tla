----------------------------- MODULE MCUpdater -----------------------------
(* Instances of Updater for TLC. *)
EXTENDS Updater, TLC

CONSTANTS t1, t2, t3, version, extra, b1, b2, b3

ThreeTasks  == {t1, t2, t3}
TwoNames    == {version, extra}
ThreeBuilds == {b1, b2, b3}
\* The name extra is new in b2; b3 has other dependencies.
Contents     == [b \in Build |-> IF b = b1 THEN {version} ELSE {version, extra}]
Dependencies == [b \in Build |-> IF b = b3 THEN 2 ELSE 1]
\* Nothing is claimed once two tasks are inside, and nothing explored.
OneInside    == ~overlap
Symmetry     == Permutations(Task)
=============================================================================
