---------------------- MODULE MCConversionWorkerPool -----------------------
(* Small instances of ConversionWorkerPool for TLC. *)
EXTENDS ConversionWorkerPool, TLC

WorkerSymmetry == Permutations(Worker)

\* Threads are told apart by the order in which they start, and by nothing else:
\* of states that differ in the names of the threads this keeps one, and of each
\* step out of it one.  So it may be used where a symmetry may not, for liveness.
BornInOrder == \A v, w \in Worker : v < w /\ thread[v] = "unborn" => thread[w] = "unborn"
=============================================================================
