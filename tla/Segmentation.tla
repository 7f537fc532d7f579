---------------------------- MODULE Segmentation ----------------------------
(***************************************************************************)
(* What class Acts promises: a recording is cut, while it arrives, into    *)
(* speech segments that follow one another.  Only how long a segment must  *)
(* be is fixed; where it starts and ends is left to the voice detector.    *)
(***************************************************************************)
EXTENDS Naturals, Sequences

CONSTANTS
  MinClose,  \* a segment closed while frames arrive is longer than this
  MinTail    \* a segment closed by the end of the recording is longer than this

VARIABLES
  frames,  \* the frames received
  closed,  \* the closed segments, as <<first frame, last frame>>
  open,    \* the first frame of the open segment: a set of at most one frame
  over     \* the recording has ended

vars == <<frames, closed, open, over>>
-----------------------------------------------------------------------------
Init ==
  /\ frames = 0
  /\ closed = <<>>
  /\ open = {}
  /\ over = FALSE

Start ==
  /\ open = {}
  /\ open' = {frames}
  /\ UNCHANGED closed

Close ==
  /\ \E st \in open :
       /\ frames - st > MinClose
       /\ closed' = Append(closed, <<st, frames>>)
  /\ open' = {}

\* A frame arrives; a segment may start or close at it.
Frame ==
  /\ ~over
  /\ frames' = frames + 1
  /\ \/ Start
     \/ Close
     \/ UNCHANGED <<closed, open>>
  /\ UNCHANGED over

\* The recording ends; an open segment that is long enough may be closed at the
\* last frame.
Finish ==
  /\ ~over
  /\ over' = TRUE
  /\ \/ /\ \E st \in open :
             /\ frames - st > MinTail
             /\ closed' = Append(closed, <<st, frames - 1>>)
        /\ open' = {}
     \/ UNCHANGED <<closed, open>>
  /\ UNCHANGED frames

\* The next recording begins.
Reset ==
  /\ over
  /\ frames' = 0
  /\ closed' = <<>>
  /\ open' = {}
  /\ over' = FALSE

Next == Frame \/ Finish \/ Reset

Spec == Init /\ [][Next]_vars
=============================================================================
