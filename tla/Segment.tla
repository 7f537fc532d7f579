------------------------------ MODULE Segment ------------------------------
(***************************************************************************)
(* The methods of class Acts (segment/segment.cc) as operators on the      *)
(* object they update: a sequence of per-frame voice decisions, and the    *)
(* frames where speech segments start and end.  Frames are numbered from   *)
(* 0, as in the code; frame f is element f + 1 of the sequence acts_.      *)
(* Module Acts makes a state machine of these operators, module Session    *)
(* calls them from the decoding thread.                                    *)
(***************************************************************************)
EXTENDS Integers, FiniteSets, SequencesExt

CONSTANTS
  Window,    \* window_  : frames per window (15)
  MinAct,    \* min_act_ : active frames that make a window active (5)
  MinClose,  \* a silent window closes a segment longer than this (200)
  MinTail    \* end() closes a segment longer than this (100)

ASSUME SegmentAssumption ==
  /\ Window \in Nat \ {0}
  /\ MinAct \in 1..Window
  /\ MinClose \in Nat
  /\ MinTail \in Nat \ {0}
-----------------------------------------------------------------------------
\* What check_window returns.
Mixed  == 0
Active == 1
Silent == 2

\* The fields of an Acts object that some method reads or writes after
\* construction.  segs_, last_act_, act_acum_, noact_acum_ and begin_ never
\* receive a value, and get_segs, get_seg_size and lookback_sil, which read
\* the first of them or nothing else, have no caller.
ActsObject ==
  [acts_         : Seq({0, 1}),
   seg_sts_      : Seq(Nat),
   seg_ends_     : Seq(Nat),
   wind_stats_   : Seq({Mixed, Active, Silent}),
   last_seg_idx_ : Nat]

\* Acts::reset
reset ==
  [acts_ |-> <<>>, seg_sts_ |-> <<>>, seg_ends_ |-> <<>>, wind_stats_ |-> <<>>,
   last_seg_idx_ |-> 0]

\* A segment has started and not ended.
IsOpen(a) == Len(a.seg_sts_) = Len(a.seg_ends_) + 1

\* The active frames among frames st .. end-1: what act_percent adds up.
ActiveFrames(acts, st, end) == Cardinality({f \in st..(end - 1) : acts[f + 1] = 1})

\* act_percent(st, end) > num / den.  An empty range makes act_percent 0/0, a
\* NaN, which no comparison finds greater: 0 > 0 is FALSE here as well.
PercentAbove(acts, st, end, num, den) ==
  den * ActiveFrames(acts, st, end) > num * (end - st)
-----------------------------------------------------------------------------
\* A plausible bug: check_window leaves the last frame of the window out.
check_windowShort(acts, w) ==
  LET nacts == ActiveFrames(acts, w * Window, (w + 1) * Window - 1)
  IN  CASE nacts >= MinAct -> Active
        [] nacts = 0       -> Silent
        [] OTHER           -> Mixed

\* Acts::check_window
check_window(acts, w) ==
  LET nacts == ActiveFrames(acts, w * Window, (w + 1) * Window)
  IN  CASE nacts >= MinAct -> Active
        [] nacts = 0       -> Silent
        [] OTHER           -> Mixed
-----------------------------------------------------------------------------
\* A plausible bug: a segment starts in an open one.
StartsSegmentAgain(a, status) == status = Active

\* add_act starts a segment at the end of an active window.
StartsSegment(a, status) ==
  /\ status = Active
  /\ Len(a.seg_sts_) = Len(a.seg_ends_)

\* Plausible bugs: the length of the segment is not tested, or does not count
\* the silent window.
EndsSegmentShort(a, f, status) == status = Silent /\ IsOpen(a)

EndsSegmentLate(a, f, status) ==
  status = Silent /\ IsOpen(a) /\ f - Window - Last(a.seg_sts_) > MinClose

\* add_act closes the open segment at f, the end of a silent window.  (Its
\* parameter last is FALSE in every call.)
EndsSegment(a, f, status) ==
  /\ status = Silent
  /\ IsOpen(a)
  /\ f - Last(a.seg_sts_) > MinClose

\* Acts::add_act
add_act(a, act) ==
  LET acts   == Append(a.acts_, act)
      f      == Len(a.acts_)
      status == check_window(acts, f \div Window)
      starts == StartsSegment(a, status)
      ends   == EndsSegment(a, f, status)
  IN  IF Len(acts) % Window # 0
      THEN [a EXCEPT !.acts_ = acts]
      ELSE [acts_         |-> acts,
            wind_stats_   |-> Append(a.wind_stats_, status),
            seg_sts_      |-> IF starts THEN Append(a.seg_sts_, f) ELSE a.seg_sts_,
            seg_ends_     |-> IF ends THEN Append(a.seg_ends_, f) ELSE a.seg_ends_,
            last_seg_idx_ |-> IF ends THEN f ELSE a.last_seg_idx_]

\* A plausible bug: end withdraws a segment too short to keep.
endWithdraws(a) ==
  LET n      == Len(a.acts_)
      st     == Last(a.seg_sts_)
      closes == n - st > MinTail /\ PercentAbove(a.acts_, st, n - 1, 1, 2)
  IN  IF ~ IsOpen(a) THEN a
      ELSE IF closes THEN [a EXCEPT !.seg_ends_ = Append(@, n - 1), !.last_seg_idx_ = n - 1]
      ELSE [a EXCEPT !.seg_sts_ = Front(@)]

\* Acts::end
end(a) ==
  LET n      == Len(a.acts_)
      st     == Last(a.seg_sts_)
      closes == n - st > MinTail /\ PercentAbove(a.acts_, st, n - 1, 1, 2)
  IN  IF IsOpen(a)
      THEN [a EXCEPT !.seg_ends_ = IF closes THEN Append(@, n - 1) ELSE @,
                     !.last_seg_idx_ = n - 1]
      ELSE a
=============================================================================
