---------------------------- MODULE MCWorkerPool ----------------------------
(* Processes, workers and calls are interchangeable.                       *)
EXTENDS WorkerPool, TLC

Symmetry ==
  Permutations(Proc) \cup Permutations(Worker) \cup Permutations(Lease) \cup Permutations(Release)
=============================================================================
