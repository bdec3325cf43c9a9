------------------------- MODULE MCProcessLifecycle -------------------------
(* Children, and calls of wait(), are interchangeable.                     *)
EXTENDS ProcessLifecycle, TLC

Symmetry == Permutations(Proc \ ({Kernel} \cup Roots)) \cup Permutations(Waits)
=============================================================================
