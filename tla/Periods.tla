------------------------------ MODULE Periods ------------------------------
(***************************************************************************)
(* The list of sounding periods of vad/src/period_format.c, which run() of *)
(* main.c fills frame by frame beside the splitter (module VadTool).       *)
(* Times are frames, and an end that is not known yet is -1.  Allocation   *)
(* succeeds.                                                               *)
(***************************************************************************)
EXTENDS Integers, Sequences

CONSTANT PeriodsInited \* PERIODS_SIZE_INITIED (100)

VARIABLES
  is_pervious_active,
  current_frame,
  period_start,    \* the first "size" elements of the array
  period_end,
  size_allocated,
  is_end_filled,
  acts,            \* history: the verdicts, that of call f at f + 1
  ended            \* the call with is_last was made

vars == <<is_pervious_active, current_frame, period_start, period_end, size_allocated,
          is_end_filled, acts, ended>>
-----------------------------------------------------------------------------
\* periods_create
Init ==
  /\ is_pervious_active = 0 /\ current_frame = 0
  /\ period_start = <<>> /\ period_end = <<>>
  /\ size_allocated = PeriodsInited /\ is_end_filled = FALSE
  /\ acts = <<>> /\ ended = FALSE

\* A plausible bug: the array is full before it grows.
GrownLate(size) == IF size > size_allocated + 1 THEN 2 * size_allocated ELSE size_allocated

\* What is allocated once there are so many periods.
Grown(size) == IF size > size_allocated THEN 2 * size_allocated ELSE size_allocated

add_period_start ==
  /\ period_start' = Append(period_start, current_frame)
  /\ period_end' = Append(period_end, -1)
  /\ size_allocated' = Grown(Len(period_start) + 1)
  /\ is_end_filled' = FALSE

add_period_end ==
  /\ period_end' = [period_end EXCEPT ![Len(period_end)] = current_frame]
  /\ is_end_filled' = TRUE
  /\ UNCHANGED <<period_start, size_allocated>>

\* A plausible bug: a period ends only with silence.
EndsPeriodSilent(is_active, is_last) == is_pervious_active = 1 /\ is_active = 0

EndsPeriod(is_active, is_last) == is_pervious_active = 1 /\ (is_active = 0 \/ is_last)

period_add_vad_activity(is_active, is_last) ==
  /\ CASE is_pervious_active = 0 /\ is_active = 1 -> add_period_start
       [] EndsPeriod(is_active, is_last)          -> add_period_end
       [] OTHER -> UNCHANGED <<period_start, period_end, size_allocated, is_end_filled>>
  /\ is_pervious_active' = is_active
  /\ current_frame' = current_frame + 1
  /\ acts' = Append(acts, is_active)
  /\ ended' = is_last
-----------------------------------------------------------------------------
(***************************************************************************)
(* Properties                                                              *)
(***************************************************************************)
\* The variables keep their types.
TypeOK ==
  /\ is_pervious_active \in {0, 1}
  /\ current_frame \in Nat
  /\ period_start \in Seq(Nat)
  /\ period_end \in Seq(Nat \cup {-1})
  /\ size_allocated \in Nat
  /\ is_end_filled \in BOOLEAN
  /\ acts \in Seq({0, 1})
  /\ ended \in BOOLEAN

Begins(f) == acts[f + 1] = 1 /\ (f = 0 \/ acts[f] = 0)

\* The frames after f that end what begins there.
EndsOf(f) ==
  {g \in f + 1..current_frame - 1 : acts[g + 1] = 0 \/ (ended /\ g = current_frame - 1)}

EndOf(f) ==
  IF EndsOf(f) = {} THEN -1 ELSE CHOOSE g \in EndsOf(f) : \A h \in EndsOf(f) : g <= h

\* The periods are the longest stretches of sound, each once and in order; one
\* is open only while its sound lasts, or when it begins with the last frame.
PeriodsAreRuns ==
  /\ {period_start[k] : k \in DOMAIN period_start} = {f \in 0..current_frame - 1 : Begins(f)}
  /\ \A k \in DOMAIN period_start :
       /\ k > 1 => period_start[k - 1] < period_start[k]
       /\ period_end[k] = EndOf(period_start[k])

\* What is stored is within what is allocated, at every doubling.
StoredInBounds == Len(period_start) <= size_allocated
=============================================================================
