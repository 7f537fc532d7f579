------------------------------- MODULE MCActs -------------------------------
(***************************************************************************)
(* Model checking of Acts, for values of the constants small enough that a *)
(* recording holds several segments.                                       *)
(***************************************************************************)
EXTENDS Acts
=============================================================================
