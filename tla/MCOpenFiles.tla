---------------------------- MODULE MCOpenFiles ----------------------------
(* OpenFiles for TLC.  Handles are interchangeable.                        *)
EXTENDS OpenFiles, TLC

Symmetry == Permutations(Handle)
=============================================================================
