----------------------------- MODULE MCSession -----------------------------
(***************************************************************************)
(* Model checking of Session: two samples make a frame and one frame a     *)
(* window, so that three frames may make a segment.                        *)
(***************************************************************************)
EXTENDS Session

\* std::vector doubles its capacity, from 1.
MCGrowAt == {0, 1, 2, 4, 8, 16}
=============================================================================
