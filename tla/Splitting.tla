----------------------------- MODULE Splitting -----------------------------
(***************************************************************************)
(* What the settings of vad/src/common.h promise of the pieces a recording *)
(* is cut into: they follow each other without a gap, none is longer than  *)
(* MaxFrames, and only the last may be shorter than MinFrames.             *)
(***************************************************************************)
EXTENDS Integers, Sequences

CONSTANTS MinFrames, MaxFrames

VARIABLES
  spans,  \* the pieces, each with its first frame and the first after it
  ended   \* no more will follow

vars == <<spans, ended>>

Init == spans = <<>> /\ ended = FALSE

\* Where the next piece begins.
Begin == IF spans = <<>> THEN 0 ELSE spans[Len(spans)][2]

Cut ==
  /\ ended = FALSE
  /\ \E n \in MinFrames..MaxFrames : spans' = Append(spans, <<Begin, Begin + n>>)
  /\ UNCHANGED ended

\* The last piece is what is left; a recording without a frame has an empty one.
Last ==
  /\ ended = FALSE
  /\ \E n \in 0..MaxFrames :
       /\ n = 0 => spans = <<>>
       /\ spans' = Append(spans, <<Begin, Begin + n>>)
  /\ ended' = TRUE

\* The recording cannot be read on: what is left is not cut.
Fail == ended = FALSE /\ ended' = TRUE /\ UNCHANGED spans

Next == Cut \/ Last \/ Fail

Spec == Init /\ [][Next]_vars
=============================================================================
