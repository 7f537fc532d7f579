-------------------------- MODULE MCSharedDetector --------------------------
(***************************************************************************)
(* Model checking of SharedDetector.                                       *)
(***************************************************************************)
EXTENDS SharedDetector, TLC

Symmetry == Permutations(Sessions)
=============================================================================
