----------------------------- MODULE MCVadTool -----------------------------
(***************************************************************************)
(* Model checking of VadTool and FileCut, for settings small enough that a *)
(* recording is cut in all the ways there are.                             *)
(***************************************************************************)
EXTENDS VadTool
=============================================================================
