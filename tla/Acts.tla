-------------------------------- MODULE Acts --------------------------------
(***************************************************************************)
(* An object of class Acts over its life: frames are added one by one, the *)
(* recording is ended, the object is reset.  The decoding thread is its    *)
(* only user and calls end and reset in this order, once per session; the  *)
(* class itself would take another recording.                              *)
(***************************************************************************)
EXTENDS Segment

CONSTANT MaxFrames  \* bound: the frames of one recording

ASSUME ActsAssumption == MaxFrames \in Nat

VARIABLES
  acts,   \* the object
  ended   \* history: end() was called since the last reset

vars == <<acts, ended>>
-----------------------------------------------------------------------------
Init ==
  /\ acts = reset
  /\ ended = FALSE

AddAct(act) ==
  /\ ~ended
  /\ Len(acts.acts_) < MaxFrames
  /\ acts' = add_act(acts, act)
  /\ UNCHANGED ended

End ==
  /\ ~ended
  /\ acts' = end(acts)
  /\ ended' = TRUE

Reset ==
  /\ ended
  /\ acts' = reset
  /\ ended' = FALSE

Next ==
  \/ \E act \in {0, 1} : AddAct(act)
  \/ End
  \/ Reset

Spec == Init /\ [][Next]_vars
-----------------------------------------------------------------------------
(***************************************************************************)
(* Properties                                                              *)
(***************************************************************************)
\* The fields of the object keep their types.
TypeOK ==
  /\ acts \in ActsObject
  /\ ended \in BOOLEAN

Frames  == Len(acts.acts_)
NClosed == Len(acts.seg_ends_)
NStarts == Len(acts.seg_sts_)

\* Two lists of starts and ends make segments of the n frames received: there
\* is an end for every start but possibly the last one; every segment ends after
\* it starts, by MinClose frames or, if the recording ends it, MinTail; and the
\* next one starts later.
Ordered(sts, ends, n, over) ==
  /\ Len(sts) \in {Len(ends), Len(ends) + 1}
  /\ \A i \in 1..Len(sts) : sts[i] < n
  /\ \A i \in 1..Len(ends) :
       /\ ends[i] < n
       /\ \/ ends[i] - sts[i] > MinClose
          \/ over /\ i = Len(ends) /\ ends[i] - sts[i] >= MinTail
       /\ i < Len(sts) => ends[i] < sts[i + 1]

\* The starts and ends of the object alternate, in the order of the frames.  The
\* decoding thread rests on it wherever it reads seg_sts_ at a position of
\* seg_ends_ and copies the samples between the two.
WellFormed == Ordered(acts.seg_sts_, acts.seg_ends_, Frames, ended)

\* The complete windows received, numbered from 0, and the last frame of each.
Windows      == 0..(Frames \div Window - 1)
LastFrame(w) == (w + 1) * Window - 1

\* Frame f lies in the segment numbered i, or in it so far.
InSegment(f, i) ==
  /\ acts.seg_sts_[i] <= f
  /\ i <= NClosed => f <= acts.seg_ends_[i]

\* No speech is lost between segments: the last frame of every window with
\* enough active frames is in a segment, closed or open.
SpeechIsInSegments ==
  \A w \in Windows :
    Cardinality({f \in (w * Window)..LastFrame(w) : acts.acts_[f + 1] = 1}) >= MinAct
      => \E i \in 1..NStarts : InSegment(LastFrame(w), i)

\* A segment does not run on over silence: the first window without an active
\* frame that completes more than MinClose frames after the start is its end.
ClosesAtFirstSilence ==
  \A w \in Windows :
    (\A f \in (w * Window)..LastFrame(w) : acts.acts_[f + 1] = 0)
      => ~ \E i \in 1..NStarts :
             /\ LastFrame(w) - acts.seg_sts_[i] > MinClose
             /\ i <= NClosed => LastFrame(w) < acts.seg_ends_[i]

\* A step that neither moves nor withdraws a segment, unless it is the reset.
KeepsSegments ==
  \/ ended /\ ~ ended'
  \/ /\ IsPrefix(acts.seg_sts_, acts'.seg_sts_)
     /\ IsPrefix(acts.seg_ends_, acts'.seg_ends_)

\* A segment once found stays what it is until the reset: the decoding thread
\* remembers only how many it has sent to the recogniser (nseg_done_).
SegmentsStable == [][KeepsSegments]_vars
-----------------------------------------------------------------------------
\* Implementation of the abstract segmentation.
Pairs(sts, ends) == [i \in 1..Len(ends) |-> <<sts[i], ends[i]>>]

Segments == INSTANCE Segmentation WITH
  frames <- Frames,
  closed <- Pairs(acts.seg_sts_, acts.seg_ends_),
  open   <- IF IsOpen(acts) THEN {Last(acts.seg_sts_)} ELSE {},
  over   <- ended

\* Every step of an Acts object is a step of Segmentation: add_act receives one
\* frame and starts or closes at most one segment, end closes at most the open
\* one, and neither changes a segment already closed.
ImplementsSegmentation == Segments!Spec
=============================================================================
