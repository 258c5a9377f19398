---------------------------- MODULE MCWorkerPool ----------------------------
(* WorkerPool on a few threads and descriptors, which are interchangeable. *)
EXTENDS WorkerPool, TLC

Symmetry == Permutations(Worker) \cup Permutations(Fd)
=============================================================================
