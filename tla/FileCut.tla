------------------------------ MODULE FileCut ------------------------------
(***************************************************************************)
(* The splitter of vad/src: file_cut.c, driven as run() of main.c drives   *)
(* it, which is commented out.  Every frame of the recording is judged by  *)
(* the VAD and handed to cut_add_vad_activity, which cuts the recording    *)
(* where it is silent and writes each piece to a file named after the      *)
(* piece's bounds and its label: "A", it contains sound, or "I".           *)
(*                                                                         *)
(* Frames are numbered from 0.  A cut at frame f ends a piece before f.    *)
(* That a file cannot be written is ignored by the code: the cut is made.  *)
(***************************************************************************)
EXTENDS Integers, Sequences

CONSTANTS
  MinFrames,     \* FILE_CUT_MIN_MS in frames (500)
  MaxFrames,     \* FILE_CUT_MAX_MS (1000)
  SilenceAfter,  \* FILE_CUT_SILENCE_AFTER_ACTIVE_MS (25)
  SilenceBefore, \* FILE_CUT_SILENCE_BEFORE_ACTIVE_MS (30)
  FileFrames     \* bound: frames in a recording

ASSUME FileCutAssumption ==
  /\ {MinFrames, MaxFrames, SilenceAfter, SilenceBefore, FileFrames} \subseteq Nat \ {0}
  /\ MinFrames <= MaxFrames

VARIABLES
  is_pervious_active,
  is_contain_active,
  previous_along_frames,
  current_frame,
  cut_begin_frame,
  offset,   \* where the file that the pieces are copied from has been read to
  acts,     \* history: the verdicts, that of frame f at f + 1
  pieces,   \* history: the pieces, and the offset their audio was read from
  ended     \* run() has left its loop

cut  == <<is_pervious_active, is_contain_active, previous_along_frames, current_frame,
          cut_begin_frame>>
vars == <<cut, offset, acts, pieces, ended>>
-----------------------------------------------------------------------------
Init ==
  /\ is_pervious_active = 0 /\ is_contain_active = FALSE
  /\ previous_along_frames = 0 /\ current_frame = 0 /\ cut_begin_frame = 0
  /\ offset = 0 /\ acts = <<>> /\ pieces = <<>> /\ ended = FALSE

\* cut_frame's condition, when the cut is not forced.
LongEnough(last_frame) == last_frame - cut_begin_frame >= MinFrames

\* The piece that ends before last_frame.
PieceBefore(last_frame) ==
  [from  |-> cut_begin_frame,
   to    |-> last_frame,
   audio |-> offset,
   label |-> IF is_contain_active THEN "A" ELSE "I"]

\* cut_frame with cut_write_file, which reads the audio up to read_to.  It also
\* clears is_contain_active, which a caller may set again.
CutReading(last_frame, read_to) ==
  /\ pieces' = Append(pieces, PieceBefore(last_frame))
  /\ offset' = read_to
  /\ cut_begin_frame' = last_frame

\* A plausible bug: the audio is read up to the frame that is judged.
cut_frameReadsAll(last_frame) == CutReading(last_frame, current_frame)

cut_frame(last_frame) == CutReading(last_frame, offset + (last_frame - cut_begin_frame))

NoCut == UNCHANGED <<pieces, offset, cut_begin_frame>>

\* A frame is read and judged, cut_add_vad_activity called and left.
Frame(is_active) ==
  /\ ~ ended
  /\ current_frame < FileFrames
  /\ is_pervious_active' = is_active
  /\ current_frame' = current_frame + 1
  /\ acts' = Append(acts, is_active)
  /\ UNCHANGED ended

\* A plausible bug: one frame later.
AtMaxLate == current_frame - cut_begin_frame = MaxFrames + 1

\* The piece is as long as it may be, which is long enough.
AtMax == current_frame - cut_begin_frame = MaxFrames

MaxCut(is_active) ==
  /\ AtMax
  /\ Frame(is_active)
  /\ cut_frame(current_frame)
  /\ is_contain_active' = FALSE
  /\ UNCHANGED previous_along_frames

\* add_continued: the silence after sound has lasted for so many frames, and the
\* piece is long enough.
SilentFor(frames, is_active) ==
  /\ is_active = 0
  /\ is_contain_active
  /\ previous_along_frames >= frames
  /\ LongEnough(current_frame)

\* Plausible bugs: the silence is forgotten, or one frame more of it waited for.
SilenceEndsEarly(is_active) == SilentFor(0, is_active)
SilenceEndsLate(is_active)  == SilentFor(SilenceAfter + 1, is_active)

SilenceEnds(is_active) == SilentFor(SilenceAfter, is_active)

ContinuedCut(is_active) ==
  /\ ~ AtMax
  /\ is_pervious_active = is_active
  /\ SilenceEnds(is_active)
  /\ Frame(is_active)
  /\ cut_frame(current_frame)
  /\ is_contain_active' = FALSE
  /\ previous_along_frames' = 1

Continued(is_active) ==
  /\ ~ AtMax
  /\ is_pervious_active = is_active
  /\ ~ SilenceEnds(is_active)
  /\ Frame(is_active)
  /\ NoCut
  /\ previous_along_frames' = previous_along_frames + 1
  /\ UNCHANGED is_contain_active

\* add_changed: sound begins, after silence of which enough goes to its piece.
SoundBegins(is_active) ==
  /\ is_active = 1
  /\ previous_along_frames > SilenceBefore
  /\ LongEnough(current_frame - SilenceBefore)

\* A cut before silence that goes to the next piece, in which the sound is noted.
ChangedCut(is_active) ==
  /\ ~ AtMax
  /\ is_pervious_active # is_active
  /\ SoundBegins(is_active)
  /\ Frame(is_active)
  /\ cut_frame(current_frame - SilenceBefore)
  /\ is_contain_active' = TRUE
  /\ previous_along_frames' = 1

Changed(is_active) ==
  /\ ~ AtMax
  /\ is_pervious_active # is_active
  /\ ~ SoundBegins(is_active)
  /\ Frame(is_active)
  /\ NoCut
  /\ is_contain_active' = (is_contain_active \/ is_active = 1)
  /\ previous_along_frames' = 1

\* The end of the file: run() judges the frame it has once more, and the cut is
\* forced.
Last(is_active) ==
  /\ ~ ended
  /\ cut_frame(current_frame)
  /\ is_contain_active' = FALSE
  /\ is_pervious_active' = is_active
  /\ current_frame' = current_frame + 1
  /\ ended' = TRUE
  /\ UNCHANGED <<previous_along_frames, acts>>

\* read_int16_bytes fails.
ReadFails ==
  /\ ~ ended
  /\ ended' = TRUE
  /\ UNCHANGED <<cut, offset, acts, pieces>>

Finished == ended /\ UNCHANGED vars

Next ==
  \/ \E is_active \in {0, 1} :
       \/ MaxCut(is_active)
       \/ ContinuedCut(is_active) \/ Continued(is_active)
       \/ ChangedCut(is_active) \/ Changed(is_active)
       \/ Last(is_active)
  \/ ReadFails
  \/ Finished

Spec == Init /\ [][Next]_vars
-----------------------------------------------------------------------------
(***************************************************************************)
(* Properties                                                              *)
(***************************************************************************)
Piece == [from : Nat, to : Nat, audio : Nat, label : {"A", "I"}]

\* The variables keep their types.
TypeOK ==
  /\ is_pervious_active \in {0, 1}
  /\ is_contain_active \in BOOLEAN
  /\ previous_along_frames \in Nat
  /\ current_frame \in Nat
  /\ cut_begin_frame \in Nat
  /\ offset \in Nat
  /\ acts \in Seq({0, 1})
  /\ pieces \in Seq(Piece)
  /\ ended \in BOOLEAN

SilentIn(from, to) == \A f \in from..to - 1 : acts[f + 1] = 0

\* The frame at which a piece ends and those before it are silent since sound, or
\* it ends as many silent frames before sound as that needs.
EndsInSilence(to) ==
  \/ /\ SilenceAfter <= to
     /\ to < Len(acts)
     /\ SilentIn(to - SilenceAfter, to + 1)
  \/ /\ 0 < to
     /\ to + SilenceBefore < Len(acts)
     /\ SilentIn(to - 1, to + SilenceBefore)
     /\ acts[to + SilenceBefore + 1] = 1

\* A cut that nothing forces is in silence, whatever the flags and the counter
\* went through in the pieces before (a cut at MaxFrames leaves the counter stale).
CutInSilence ==
  \A k \in DOMAIN pieces :
    \/ pieces[k].to - pieces[k].from = MaxFrames
    \/ ended /\ k = Len(pieces)
    \/ EndsInSilence(pieces[k].to)

\* A file holds the audio its name says, whatever was cut before it.
AudioMatchesName == \A k \in DOMAIN pieces : pieces[k].audio = pieces[k].from

\* vad/README.md: "A" says that there is sound in the piece, which the flag must not
\* carry over from the piece before.
SoundInA ==
  \A k \in DOMAIN pieces :
    pieces[k].label = "A" => ~ SilentIn(pieces[k].from, pieces[k].to)

\* vad/README.md: "I" says that all of the piece is silent.  The flag is set only
\* where the splitter sees sound begin, and a cut at MaxFrames clears it: sound that
\* begins with the frame of the cut, or goes on over it, does not set it.
SilentInI ==
  \A k \in DOMAIN pieces :
    pieces[k].label = "I" => SilentIn(pieces[k].from, pieces[k].to)

\* common.h: a piece whose sound was noticed ends when SilenceAfter frames of silence have
\* followed, once it is long enough.
EndsAfterSilence ==
  /\ is_contain_active
  /\ current_frame - SilenceAfter > cut_begin_frame
  /\ SilentIn(current_frame - SilenceAfter - 1, current_frame)
  => current_frame - 1 - cut_begin_frame < MinFrames

Spans == [k \in 1..Len(pieces) |-> <<pieces[k].from, pieces[k].to>>]

Pieces == INSTANCE Splitting WITH spans <- Spans, ended <- ended

\* The pieces are as the settings of common.h promise: without a gap, at most
\* MaxFrames long, and but for the last at least MinFrames.
ImplementsSplitting == Pieces!Spec
=============================================================================
