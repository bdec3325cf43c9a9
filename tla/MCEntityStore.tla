---------------------------- MODULE MCEntityStore ----------------------------
(* EntityStore for TLC: tasks and ids are interchangeable.                 *)
EXTENDS EntityStore, TLC

Symmetry == Permutations(Task) \cup Permutations(Entity)
=============================================================================
