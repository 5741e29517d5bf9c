-------------------------- MODULE MCWorkerProtocol --------------------------
(* Instances of WorkerProtocol for TLC. *)
EXTENDS WorkerProtocol, TLC

CONSTANTS r1, r2

TwoReaders   == {r1, r2}
\* Readers are only told apart by where they are.
ReadersAlike == Permutations(Reader)
=============================================================================
