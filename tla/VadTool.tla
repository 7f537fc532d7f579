------------------------------ MODULE VadTool ------------------------------
(***************************************************************************)
(* The command line tool of vad/src, run() of main.c (which is commented   *)
(* out): each frame of the recording is judged once, and the verdict goes  *)
(* to the list of sounding periods and then to the splitter of FileCut.    *)
(***************************************************************************)
EXTENDS FileCut

CONSTANT PeriodsInited \* PERIODS_SIZE_INITIED (100)

ASSUME VadToolAssumption == PeriodsInited \in Nat \ {0}

VARIABLES
  per_active, per_frame, period_start, period_end, size_allocated, is_end_filled, \* per
  per_acts, per_ended \* its history

per == <<per_active, per_frame, period_start, period_end, size_allocated, is_end_filled,
         per_acts, per_ended>>
toolVars == <<vars, per>>

P == INSTANCE Periods WITH
       is_pervious_active <- per_active, current_frame <- per_frame,
       acts <- per_acts, ended <- per_ended
-----------------------------------------------------------------------------
ToolInit == Init /\ P!Init

\* A frame of the recording.
JudgeFrame(is_active) ==
  /\ P!period_add_vad_activity(is_active, FALSE)
  /\ \/ MaxCut(is_active)
     \/ ContinuedCut(is_active) \/ Continued(is_active)
     \/ ChangedCut(is_active) \/ Changed(is_active)

\* The end of the file, where the last frame read is judged once more.
JudgeLast(is_active) == P!period_add_vad_activity(is_active, TRUE) /\ Last(is_active)

LeaveUnread == ReadFails /\ UNCHANGED per

\* The list is freed, and the tool is left.
Done == ended /\ UNCHANGED toolVars

ToolNext ==
  \/ \E is_active \in {0, 1} : JudgeFrame(is_active) \/ JudgeLast(is_active)
  \/ LeaveUnread
  \/ Done

ToolSpec == ToolInit /\ [][ToolNext]_toolVars
-----------------------------------------------------------------------------
(***************************************************************************)
(* Properties, beside those of FileCut                                     *)
(***************************************************************************)
\* The list of periods keeps its types.
PeriodsTypeOK == P!TypeOK

\* The periods are the longest stretches of sound, each once and in order.
PeriodsAreRuns == P!PeriodsAreRuns

\* What is stored is within what is allocated, at every doubling of the arrays.
StoredInBounds == P!StoredInBounds
=============================================================================
