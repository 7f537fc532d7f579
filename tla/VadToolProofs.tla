--------------------------- MODULE VadToolProofs ---------------------------
(***************************************************************************)
(* Proofs about module FileCut and about module VadTool, for every value   *)
(* of their constants.                                                     *)
(***************************************************************************)
EXTENDS VadTool, Induction, TLAPS

(***************************************************************************)
(* The splitter.                                                           *)
(***************************************************************************)
\* The constants, one by one.
LEMMA ConstantTypes ==
  /\ MinFrames \in Nat /\ MinFrames > 0
  /\ MaxFrames \in Nat /\ MaxFrames >= MinFrames
  /\ SilenceAfter \in Nat /\ SilenceAfter > 0
  /\ SilenceBefore \in Nat /\ SilenceBefore > 0
  /\ FileFrames \in Nat
BY FileCutAssumption DEF FileCutAssumption

USE ConstantTypes

\* Where the frames and the pieces stand while the recording is read.
Progress ==
  /\ cut_begin_frame = IF pieces = <<>> THEN 0 ELSE pieces[Len(pieces)].to
  /\ offset = cut_begin_frame
  /\ ~ ended =>
       /\ Len(acts) = current_frame
       /\ cut_begin_frame \in 0..current_frame
       /\ current_frame - cut_begin_frame <= MaxFrames
       /\ cut_begin_frame = current_frame => current_frame = 0
       /\ cut_begin_frame = 0 => pieces = <<>>

\* Every piece lies within the frames judged, holds the audio of its name, and
\* sound if it is labelled so; it ends in silence, or as long as it may be.
PieceOK(p) ==
  /\ p.from <= p.to
  /\ p.to <= Len(acts)
  /\ p.audio = p.from
  /\ p.label = "A" => ~ SilentIn(p.from, p.to)

EndsWell(p) == p.to - p.from = MaxFrames \/ EndsInSilence(p.to)

PiecesOK ==
  \A k \in DOMAIN pieces :
    /\ PieceOK(pieces[k])
    /\ EndsWell(pieces[k]) \/ (ended /\ k = Len(pieces))

\* What the flags and the counter say of the verdicts.  The counter may be too
\* large after a cut at the greatest length, so that only the frames of this
\* piece are silent for sure; while the flag is set it is exact.
Remembered ==
  ~ ended =>
    /\ is_pervious_active = 1 => current_frame > 0 /\ acts[current_frame] = 1
    /\ is_pervious_active = 0 =>
         \A f \in cut_begin_frame..current_frame - 1 :
           f >= current_frame - previous_along_frames => acts[f + 1] = 0
    /\ is_contain_active /\ is_pervious_active = 0 =>
         /\ current_frame - previous_along_frames > cut_begin_frame
         /\ acts[current_frame - previous_along_frames] = 1

IInv ==
  /\ TypeOK
  /\ Progress
  /\ PiecesOK
  /\ Remembered
  /\ EndsAfterSilence

\* The invariant holds when the recording is opened.
LEMMA InitIInv == Init => IInv
<1> SUFFICES ASSUME Init
             PROVE  IInv
  OBVIOUS
<1>1. TypeOK
  <2>1. \A S : <<>> \in Seq(S)
    OBVIOUS
  <2> QED
    BY <2>1 DEF Init, TypeOK
<1>2. Progress /\ PiecesOK /\ Remembered
  BY DEF Init, Progress, PiecesOK, Remembered
<1>3. EndsAfterSilence
  BY DEF Init, EndsAfterSilence
<1> QED
  BY <1>1, <1>2, <1>3 DEF IInv

\* A sequence with an element more.
LEMMA AppendFacts ==
  ASSUME NEW S, NEW s \in Seq(S), NEW e \in S
  PROVE  /\ Append(s, e) \in Seq(S)
         /\ Append(s, e) # <<>>
         /\ Len(Append(s, e)) = Len(s) + 1
         /\ DOMAIN Append(s, e) = 1..Len(s) + 1
         /\ DOMAIN s = 1..Len(s)
         /\ \A k \in 1..Len(s) : Append(s, e)[k] = s[k]
         /\ Append(s, e)[Len(s) + 1] = e
OBVIOUS

\* What a frame that is judged leaves of the verdicts before it.
LEMMA FrameFacts ==
  ASSUME TypeOK, Progress, NEW act \in {0, 1}, Frame(act)
  PROVE  /\ ~ ended /\ ~ ended' /\ ended' \in BOOLEAN
         /\ is_pervious_active' \in {0, 1}
         /\ current_frame' = current_frame + 1
         /\ acts' \in Seq({0, 1})
         /\ Len(acts') = current_frame'
         /\ \A f \in 0..current_frame - 1 : acts'[f + 1] = acts[f + 1]
         /\ acts'[current_frame + 1] = act
BY AppendFacts DEF TypeOK, Progress, Frame

\* A piece keeps its silence and its sound when more frames are judged.
LEMMA PieceKept ==
  ASSUME acts \in Seq({0, 1}), acts' \in Seq({0, 1}), Len(acts') >= Len(acts),
         \A f \in 0..Len(acts) - 1 : acts'[f + 1] = acts[f + 1],
         NEW p \in Piece, PieceOK(p)
  PROVE  /\ PieceOK(p)'
         /\ EndsWell(p) => EndsWell(p)'
<1>1. Len(acts) \in Nat /\ Len(acts') \in Nat
  OBVIOUS
<1>2. ASSUME NEW from \in Nat, NEW to \in Nat, to <= Len(acts)
      PROVE  SilentIn(from, to)' <=> SilentIn(from, to)
  BY <1>1, <1>2 DEF SilentIn
<1>3. p.from \in Nat /\ p.to \in Nat
  BY DEF Piece
<1>4. PieceOK(p)'
  BY <1>1, <1>2, <1>3 DEF PieceOK
<1>5. ASSUME EndsInSilence(p.to)
      PROVE  EndsInSilence(p.to)'
  <2>1. CASE SilenceAfter <= p.to /\ p.to < Len(acts) /\ SilentIn(p.to - SilenceAfter, p.to + 1)
    BY <1>1, <1>2, <1>3, <2>1 DEF EndsInSilence
  <2>2. CASE /\ 0 < p.to /\ p.to + SilenceBefore < Len(acts)
             /\ SilentIn(p.to - 1, p.to + SilenceBefore)
             /\ acts[p.to + SilenceBefore + 1] = 1
    <3>1. acts'[p.to + SilenceBefore + 1] = acts[p.to + SilenceBefore + 1]
      <4>1. p.to + SilenceBefore \in 0..Len(acts) - 1
        BY <1>1, <1>3, <2>2
      <4> QED
        BY <4>1
    <3> QED
      BY <1>1, <1>2, <1>3, <2>2, <3>1 DEF EndsInSilence
  <2> QED
    BY <1>5, <2>1, <2>2 DEF EndsInSilence
<1> QED
  BY <1>4, <1>5 DEF EndsWell

\* So do all pieces when a frame cuts nothing; the piece grows.
LEMMA NoCutStep ==
  ASSUME IInv, NEW act \in {0, 1}, Frame(act), NoCut, ~ AtMax,
         is_contain_active' \in BOOLEAN, previous_along_frames' \in Nat
  PROVE  TypeOK' /\ Progress' /\ PiecesOK'
<1>1. /\ pieces' = pieces /\ offset' = offset /\ cut_begin_frame' = cut_begin_frame
      /\ ended' = ended
  BY DEF NoCut, Frame
<1>2. /\ ~ ended /\ is_pervious_active' \in {0, 1} /\ current_frame' = current_frame + 1
      /\ acts' \in Seq({0, 1}) /\ Len(acts) \in Nat /\ Len(acts') = current_frame'
      /\ Len(acts) = current_frame
      /\ \A f \in 0..Len(acts) - 1 : acts'[f + 1] = acts[f + 1]
  BY FrameFacts DEF IInv, TypeOK, Progress
<1>3. TypeOK'
  BY <1>1, <1>2 DEF IInv, TypeOK
<1>4. Progress'
  <2>1. /\ cut_begin_frame \in 0..current_frame
        /\ current_frame - cut_begin_frame <= MaxFrames
        /\ current_frame - cut_begin_frame # MaxFrames
        /\ current_frame \in Nat
    BY <1>2 DEF IInv, TypeOK, Progress, AtMax
  <2>2. /\ cut_begin_frame' \in 0..current_frame'
        /\ current_frame' - cut_begin_frame' <= MaxFrames
        /\ cut_begin_frame' # current_frame'
    BY <1>1, <1>2, <2>1
  <2> QED
    BY <1>1, <1>2, <2>2 DEF IInv, Progress
<1>5. ASSUME NEW k \in DOMAIN pieces, NEW p \in Piece, p = pieces[k]
      PROVE  PieceOK(p)' /\ EndsWell(p)'
  <2>1. PieceOK(p) /\ EndsWell(p)
    BY <1>2, <1>5 DEF IInv, PiecesOK
  <2> QED
    BY <1>2, <2>1, PieceKept DEF IInv, TypeOK
<1>6. \A k \in DOMAIN pieces : pieces[k] \in Piece
  BY DEF IInv, TypeOK
<1>7. PiecesOK'
  BY <1>1, <1>5, <1>6 DEF PiecesOK, PieceOK, EndsWell, EndsInSilence, SilentIn
<1> QED
  BY <1>3, <1>4, <1>7

\* The piece that a cut adds, with what is left of the frames after it.
LEMMA CutFacts ==
  ASSUME TypeOK, Progress, ~ ended,
         NEW f \in cut_begin_frame..current_frame, cut_frame(f)
  PROVE  /\ PieceBefore(f) \in Piece
         /\ pieces' \in Seq(Piece) /\ pieces' # <<>>
         /\ DOMAIN pieces = 1..Len(pieces)
         /\ DOMAIN pieces' = 1..Len(pieces) + 1
         /\ Len(pieces') = Len(pieces) + 1
         /\ \A k \in 1..Len(pieces) : pieces'[k] = pieces[k] /\ pieces[k] \in Piece
         /\ pieces'[Len(pieces) + 1] = PieceBefore(f)
         /\ cut_begin_frame' = f /\ offset' = f /\ f \in Nat
         /\ cut_begin_frame' = IF pieces' = <<>> THEN 0 ELSE pieces'[Len(pieces')].to
<1>1. PieceBefore(f) \in Piece
  BY DEF PieceBefore, Piece, TypeOK, Progress
<1>2. /\ pieces' \in Seq(Piece) /\ pieces' # <<>>
      /\ Len(pieces') = Len(pieces) + 1
      /\ DOMAIN pieces' = 1..Len(pieces) + 1
      /\ DOMAIN pieces = 1..Len(pieces)
      /\ \A k \in 1..Len(pieces) : pieces'[k] = pieces[k] /\ pieces[k] \in Piece
      /\ pieces'[Len(pieces) + 1] = PieceBefore(f)
  BY <1>1, AppendFacts DEF cut_frame, CutReading, TypeOK
<1>3. offset' = f /\ cut_begin_frame' = f /\ f \in Nat
  BY DEF cut_frame, CutReading, Progress, TypeOK
<1>4. PieceBefore(f).to = f
  BY DEF PieceBefore
<1> QED
  BY <1>1, <1>2, <1>3, <1>4

\* The pieces are as they should be after a cut, if the new one is.
LEMMA CutPieces ==
  ASSUME IInv, ~ ended,
         NEW f \in cut_begin_frame..current_frame, cut_frame(f),
         acts' \in Seq({0, 1}), Len(acts') >= Len(acts),
         \A g \in 0..Len(acts) - 1 : acts'[g + 1] = acts[g + 1],
         is_contain_active => \E g \in cut_begin_frame..f - 1 : acts[g + 1] = 1,
         f - cut_begin_frame = MaxFrames \/ EndsInSilence(f)' \/ ended'
  PROVE  PiecesOK'
<1>1. /\ Len(acts) = current_frame /\ current_frame \in Nat /\ cut_begin_frame \in Nat
      /\ offset = cut_begin_frame /\ Len(acts') \in Nat
  BY DEF IInv, TypeOK, Progress
<1>2. ASSUME NEW p \in Piece, p = PieceBefore(f)
      PROVE  PieceOK(p)' /\ (EndsWell(p)' \/ ended')
  <2>1. /\ p.from = cut_begin_frame /\ p.to = f /\ p.audio = offset
        /\ p.label = "A" => is_contain_active
    BY <1>2 DEF PieceBefore
  <2>2. p.label = "A" => ~ SilentIn(p.from, p.to)'
    BY <1>1, <2>1 DEF SilentIn
  <2>3. PieceOK(p)'
    BY <1>1, <2>1, <2>2 DEF PieceOK
  <2>4. EndsInSilence(f)' => EndsInSilence(p.to)'
    BY <2>1 DEF EndsInSilence, SilentIn
  <2> QED
    BY <2>1, <2>3, <2>4 DEF EndsWell
<1>3. ASSUME NEW k \in 1..Len(pieces), NEW p \in Piece, p = pieces[k]
      PROVE  PieceOK(p)' /\ EndsWell(p)'
  <2>1. PieceOK(p) /\ EndsWell(p)
    BY <1>3, CutFacts DEF IInv, PiecesOK
  <2> QED
    BY <2>1, PieceKept DEF IInv, TypeOK
<1>4. /\ DOMAIN pieces' = 1..Len(pieces) + 1
      /\ Len(pieces') = Len(pieces) + 1 /\ Len(pieces) \in Nat
      /\ \A k \in 1..Len(pieces) : pieces'[k] = pieces[k] /\ pieces[k] \in Piece
      /\ pieces'[Len(pieces) + 1] = PieceBefore(f) /\ PieceBefore(f) \in Piece
  BY CutFacts DEF IInv, TypeOK
<1>5. SUFFICES ASSUME NEW k \in DOMAIN pieces', NEW p \in Piece, p = pieces'[k]
               PROVE  PieceOK(p)' /\ (EndsWell(p)' \/ (ended' /\ k = Len(pieces')))
  BY <1>4 DEF PiecesOK, PieceOK, EndsWell, EndsInSilence, SilentIn
<1>6. CASE k \in 1..Len(pieces)
  BY <1>3, <1>4, <1>5, <1>6
<1>7. CASE k = Len(pieces) + 1
  BY <1>2, <1>4, <1>5, <1>7
<1> QED
  BY <1>4, <1>6, <1>7

\* A frame that cuts leaves less than the greatest length.
LEMMA CutStep ==
  ASSUME IInv, NEW act \in {0, 1}, Frame(act),
         is_contain_active' \in BOOLEAN, previous_along_frames' \in Nat,
         NEW f \in cut_begin_frame..current_frame, cut_frame(f),
         f > 0, current_frame - f < MaxFrames,
         is_contain_active => \E g \in cut_begin_frame..f - 1 : acts[g + 1] = 1,
         f - cut_begin_frame = MaxFrames \/ EndsInSilence(f)'
  PROVE  TypeOK' /\ Progress' /\ PiecesOK'
<1>1. /\ ~ ended /\ ~ ended' /\ ended' \in BOOLEAN /\ is_pervious_active' \in {0, 1}
      /\ current_frame' = current_frame + 1 /\ current_frame \in Nat
      /\ acts' \in Seq({0, 1}) /\ Len(acts) \in Nat /\ Len(acts') = current_frame'
      /\ Len(acts) = current_frame
      /\ \A g \in 0..Len(acts) - 1 : acts'[g + 1] = acts[g + 1]
  BY FrameFacts DEF IInv, TypeOK, Progress
<1>2. /\ pieces' \in Seq(Piece) /\ cut_begin_frame' = f /\ offset' = f /\ f \in Nat
      /\ cut_begin_frame' = IF pieces' = <<>> THEN 0 ELSE pieces'[Len(pieces')].to
  BY <1>1, CutFacts DEF IInv
<1>3. TypeOK'
  BY <1>1, <1>2 DEF TypeOK
<1>4. /\ cut_begin_frame' \in 0..current_frame'
      /\ current_frame' - cut_begin_frame' <= MaxFrames
      /\ cut_begin_frame' # current_frame' /\ cut_begin_frame' # 0
  BY <1>1, <1>2
<1>5. Progress'
  BY <1>1, <1>2, <1>4 DEF Progress
<1>6. PiecesOK'
  BY <1>1, CutPieces
<1> QED
  BY <1>3, <1>5, <1>6

\* The sound that the flag stands for is in the piece, and before the silence
\* that the counter stands for.
LEMMA Heard ==
  ASSUME IInv, ~ ended, is_contain_active
  PROVE  \E g \in cut_begin_frame..current_frame - 1 :
           /\ acts[g + 1] = 1
           /\ is_pervious_active = 0 => g + 1 = current_frame - previous_along_frames
<1>1. /\ is_pervious_active \in {0, 1} /\ previous_along_frames \in Nat
      /\ current_frame \in Nat /\ cut_begin_frame \in 0..current_frame
      /\ cut_begin_frame = current_frame => current_frame = 0
  BY DEF IInv, TypeOK, Progress
<1>2. CASE is_pervious_active = 1
  <2>1. current_frame > 0 /\ acts[current_frame] = 1
    BY <1>2 DEF IInv, Remembered
  <2>2. current_frame - 1 \in cut_begin_frame..current_frame - 1
    BY <1>1, <2>1
  <2>3. acts[(current_frame - 1) + 1] = 1
    BY <1>1, <2>1
  <2> QED
    BY <1>2, <2>2, <2>3
<1>3. CASE is_pervious_active = 0
  <2> DEFINE g == current_frame - previous_along_frames - 1
  <2>1. /\ current_frame - previous_along_frames > cut_begin_frame
        /\ acts[current_frame - previous_along_frames] = 1
    BY <1>3 DEF IInv, Remembered
  <2>2. g \in cut_begin_frame..current_frame - 1 /\ g + 1 = current_frame - previous_along_frames
    BY <1>1, <2>1
  <2> QED
    BY <2>1, <2>2
<1> QED
  BY <1>1, <1>2, <1>3

\* The facts about a frame that the steps below share.
Judged(act) ==
  /\ ~ ended /\ ~ ended'
  /\ is_pervious_active \in {0, 1} /\ is_pervious_active' = act
  /\ previous_along_frames \in Nat
  /\ current_frame \in Nat /\ current_frame' = current_frame + 1
  /\ cut_begin_frame \in 0..current_frame
  /\ current_frame - cut_begin_frame <= MaxFrames
  /\ cut_begin_frame = current_frame => current_frame = 0
  /\ \A k \in 1..current_frame : acts'[k] = acts[k]
  /\ acts'[current_frame + 1] = act
  /\ Len(acts') = current_frame + 1

LEMMA FrameJudged ==
  ASSUME IInv, NEW act \in {0, 1}, Frame(act)
  PROVE  Judged(act)
<1>1. /\ ~ ended /\ ~ ended'
      /\ is_pervious_active \in {0, 1} /\ is_pervious_active' = act
      /\ previous_along_frames \in Nat
      /\ current_frame \in Nat /\ current_frame' = current_frame + 1
      /\ cut_begin_frame \in 0..current_frame
      /\ current_frame - cut_begin_frame <= MaxFrames
      /\ cut_begin_frame = current_frame => current_frame = 0
  BY DEF IInv, TypeOK, Progress, Frame
<1>2. /\ \A k \in 1..current_frame : acts'[k] = acts[k]
      /\ acts'[current_frame + 1] = act
      /\ Len(acts') = current_frame + 1
  BY <1>1, AppendFacts DEF IInv, TypeOK, Progress, Frame
<1> QED
  BY <1>1, <1>2 DEF Judged

\* A piece of the greatest length is cut.
LEMMA MaxCutStep ==
  ASSUME IInv, NEW act \in {0, 1}, MaxCut(act)
  PROVE  IInv'
<1>1. /\ Frame(act) /\ cut_frame(current_frame) /\ AtMax
      /\ is_contain_active' = FALSE /\ previous_along_frames' = previous_along_frames
  BY DEF MaxCut
<1>0. Judged(act)
  BY <1>1, FrameJudged
<1>2. PICK f \in Nat : f = current_frame
  BY <1>0, <1>1 DEF Judged
<1>3. /\ f \in cut_begin_frame..current_frame /\ f > 0 /\ current_frame - f < MaxFrames
      /\ f - cut_begin_frame = MaxFrames
  BY <1>0, <1>1, <1>2 DEF AtMax, Judged
<1>4. is_contain_active => \E g \in cut_begin_frame..f - 1 : acts[g + 1] = 1
  BY <1>0, <1>1, <1>2, Heard DEF Judged
<1>5. TypeOK' /\ Progress' /\ PiecesOK'
  BY <1>0, <1>1, <1>2, <1>3, <1>4, CutStep DEF Judged
<1>6. cut_begin_frame' = current_frame
  BY <1>1 DEF cut_frame, CutReading
<1>7. Remembered'
  BY <1>0, <1>1, <1>6 DEF Remembered, Judged
<1>8. EndsAfterSilence'
  BY <1>1 DEF EndsAfterSilence
<1> QED
  BY <1>5, <1>7, <1>8 DEF IInv

\* The silence after sound is long enough.
LEMMA ContinuedCutStep ==
  ASSUME IInv, NEW act \in {0, 1}, ContinuedCut(act)
  PROVE  IInv'
<1>1. /\ Frame(act) /\ cut_frame(current_frame) /\ act = 0 /\ is_pervious_active = 0
      /\ is_contain_active /\ previous_along_frames >= SilenceAfter
      /\ LongEnough(current_frame)
      /\ is_contain_active' = FALSE /\ previous_along_frames' = 1
  BY DEF ContinuedCut, SilenceEnds, SilentFor
<1>0. Judged(act)
  BY <1>1, FrameJudged
<1>2. PICK f \in Nat : f = current_frame
  BY <1>0, <1>1 DEF Judged
<1>3. f \in cut_begin_frame..current_frame /\ f > 0 /\ current_frame - f < MaxFrames
  BY <1>0, <1>1, <1>2 DEF LongEnough, Judged
<1>4. is_contain_active => \E g \in cut_begin_frame..f - 1 : acts[g + 1] = 1
  BY <1>0, <1>1, <1>2, Heard DEF Judged
<1>5. EndsInSilence(f)'
  <2>1. current_frame - previous_along_frames > cut_begin_frame
    BY <1>0, <1>1 DEF IInv, Remembered, Judged
  <2>2. \A g \in f - SilenceAfter..f - 1 : acts[g + 1] = 0
    BY <1>0, <1>1, <1>2, <2>1 DEF IInv, Remembered, Judged
  <2>3. \A g \in f - SilenceAfter..(f + 1) - 1 : acts'[g + 1] = 0
    BY <1>0, <1>1, <1>2, <2>1, <2>2 DEF Judged
  <2> QED
    BY <1>0, <1>1, <1>2, <2>1, <2>3 DEF EndsInSilence, SilentIn, Judged
<1>6. TypeOK' /\ Progress' /\ PiecesOK'
  BY <1>1, <1>2, <1>3, <1>4, <1>5, CutStep
<1>7. cut_begin_frame' = current_frame
  BY <1>1 DEF cut_frame, CutReading
<1>8. Remembered'
  BY <1>0, <1>1, <1>7 DEF Remembered, Judged
<1>9. EndsAfterSilence'
  BY <1>1 DEF EndsAfterSilence
<1> QED
  BY <1>6, <1>8, <1>9 DEF IInv

\* A frame like the one before, and no reason to cut.
LEMMA ContinuedStep ==
  ASSUME IInv, NEW act \in {0, 1}, Continued(act)
  PROVE  IInv'
<1>1. /\ Frame(act) /\ NoCut /\ act = is_pervious_active /\ ~ AtMax /\ ~ SilenceEnds(act)
      /\ is_contain_active' = is_contain_active
      /\ previous_along_frames' = previous_along_frames + 1
  BY DEF Continued
<1>0. Judged(act)
  BY <1>1, FrameJudged
<1>2. TypeOK' /\ Progress' /\ PiecesOK'
  BY <1>0, <1>1, NoCutStep DEF IInv, TypeOK, Judged
<1>3. cut_begin_frame' = cut_begin_frame
  BY <1>1 DEF NoCut
<1>4. Remembered'
  BY <1>0, <1>1, <1>3 DEF Remembered, IInv, Judged
<1>5. EndsAfterSilence'
  <2> SUFFICES ASSUME is_contain_active, current_frame + 1 - SilenceAfter > cut_begin_frame,
                      \A g \in current_frame - SilenceAfter..current_frame : acts'[g + 1] = 0
               PROVE  current_frame - cut_begin_frame < MinFrames
    BY <1>0, <1>1, <1>3 DEF EndsAfterSilence, SilentIn, Judged
  <2>1. act = 0
    BY <1>0, <1>1 DEF Judged
  <2>2. /\ current_frame - previous_along_frames > cut_begin_frame
        /\ acts[current_frame - previous_along_frames] = 1
    BY <1>0, <1>1, <2>1 DEF IInv, Remembered, Judged
  <2>3. CASE previous_along_frames < SilenceAfter
    <3> DEFINE g == current_frame - previous_along_frames - 1
    <3>1. g \in current_frame - SilenceAfter..current_frame /\ g \in 0..current_frame - 1
      BY <1>0, <1>1, <2>2, <2>3 DEF Judged
    <3>2. acts'[g + 1] = 1
      BY <1>0, <1>1, <2>2, <3>1 DEF Judged
    <3> QED
      BY <3>1, <3>2
  <2>4. CASE ~ LongEnough(current_frame)
    BY <1>0, <1>1, <2>4 DEF LongEnough, Judged
  <2> QED
    BY <1>0, <1>1, <2>1, <2>3, <2>4 DEF SilenceEnds, SilentFor, Judged
<1> QED
  BY <1>2, <1>4, <1>5 DEF IInv

\* Sound after enough silence: the cut lies back within the silence.
LEMMA ChangedCutStep ==
  ASSUME IInv, NEW act \in {0, 1}, ChangedCut(act)
  PROVE  IInv'
<1>1. /\ Frame(act) /\ cut_frame(current_frame - SilenceBefore) /\ act = 1
      /\ is_pervious_active # act /\ previous_along_frames > SilenceBefore
      /\ LongEnough(current_frame - SilenceBefore)
      /\ is_contain_active' = TRUE /\ previous_along_frames' = 1
  BY DEF ChangedCut, SoundBegins
<1>0. Judged(act)
  BY <1>1, FrameJudged
<1>2. is_pervious_active = 0
  BY <1>0, <1>1 DEF Judged
<1>3. PICK f \in Int : f = current_frame - SilenceBefore
  BY <1>0, <1>1 DEF Judged
<1>4. /\ f \in cut_begin_frame..current_frame /\ f > 0 /\ current_frame - f < MaxFrames
      /\ f > cut_begin_frame
  BY <1>0, <1>1, <1>3 DEF LongEnough, Judged
<1>5. is_contain_active => \E g \in cut_begin_frame..f - 1 : acts[g + 1] = 1
  BY <1>0, <1>1, <1>2, <1>3, Heard DEF Judged
<1>6. EndsInSilence(f)'
  <2>1. \A g \in f - 1..current_frame - 1 : acts[g + 1] = 0
    BY <1>0, <1>1, <1>2, <1>3, <1>4 DEF IInv, Remembered, Judged
  <2>2. \A g \in f - 1..(f + SilenceBefore) - 1 : acts'[g + 1] = 0
    BY <1>0, <1>1, <1>3, <1>4, <2>1 DEF Judged
  <2>3. acts'[f + SilenceBefore + 1] = 1 /\ f + SilenceBefore < Len(acts')
    BY <1>0, <1>1, <1>3 DEF Judged
  <2> QED
    BY <1>4, <2>2, <2>3 DEF EndsInSilence, SilentIn
<1>7. TypeOK' /\ Progress' /\ PiecesOK'
  BY <1>1, <1>3, <1>4, <1>5, <1>6, CutStep
<1>8. cut_begin_frame' = f
  BY <1>1, <1>3 DEF cut_frame, CutReading
<1>9. Remembered'
  BY <1>0, <1>1, <1>8 DEF Remembered, Judged
<1>10. EndsAfterSilence'
  BY <1>0, <1>1, <1>8 DEF EndsAfterSilence, SilentIn, Judged
<1> QED
  BY <1>7, <1>9, <1>10 DEF IInv

\* A frame unlike the one before, and no reason to cut.
LEMMA ChangedStep ==
  ASSUME IInv, NEW act \in {0, 1}, Changed(act)
  PROVE  IInv'
<1>1. /\ Frame(act) /\ NoCut /\ act # is_pervious_active /\ ~ AtMax
      /\ is_contain_active' = (is_contain_active \/ act = 1)
      /\ previous_along_frames' = 1
  BY DEF Changed
<1>0. Judged(act)
  BY <1>1, FrameJudged
<1>2. TypeOK' /\ Progress' /\ PiecesOK'
  BY <1>0, <1>1, NoCutStep DEF IInv, TypeOK, Judged
<1>3. cut_begin_frame' = cut_begin_frame
  BY <1>1 DEF NoCut
<1>4. Remembered'
  <2>1. CASE act = 1
    BY <1>0, <1>1, <2>1 DEF Remembered, Judged
  <2>2. CASE act = 0
    <3>1. current_frame > 0 /\ acts[current_frame] = 1
      BY <1>0, <1>1, <2>2 DEF IInv, Remembered, Judged
    <3>2. acts'[current_frame] = 1
      BY <1>0, <1>1, <3>1 DEF Judged
    <3> QED
      BY <1>0, <1>1, <1>3, <2>2, <3>1, <3>2 DEF Remembered, Judged
  <2> QED
    BY <2>1, <2>2
<1>5. EndsAfterSilence'
  <2> SUFFICES ASSUME \A g \in current_frame - SilenceAfter..current_frame : acts'[g + 1] = 0,
                      current_frame + 1 - SilenceAfter > cut_begin_frame
               PROVE  FALSE
    BY <1>0, <1>1, <1>3 DEF EndsAfterSilence, SilentIn, Judged
  <2>1. act = 0
    BY <1>0, <1>1 DEF Judged
  <2>2. current_frame > 0 /\ acts[current_frame] = 1
    BY <1>0, <1>1, <2>1 DEF IInv, Remembered, Judged
  <2>3. acts'[current_frame] = 1
    BY <1>0, <1>1, <2>2 DEF Judged
  <2> QED
    BY <1>0, <1>1, <2>3 DEF Judged
<1> QED
  BY <1>2, <1>4, <1>5 DEF IInv

\* The last piece is what is left.
LEMMA LastStep ==
  ASSUME IInv, NEW act \in {0, 1}, Last(act)
  PROVE  IInv'
<1>1. /\ ~ ended /\ ended' = TRUE /\ cut_frame(current_frame)
      /\ is_contain_active' = FALSE /\ is_pervious_active' = act
      /\ current_frame' = current_frame + 1
      /\ previous_along_frames' = previous_along_frames /\ acts' = acts
  BY DEF Last
<1>2. /\ current_frame \in cut_begin_frame..current_frame
      /\ current_frame \in Nat /\ acts \in Seq({0, 1}) /\ Len(acts) \in Nat
  BY <1>1 DEF IInv, TypeOK, Progress
<1>3. PICK f \in Nat : f = current_frame
  BY <1>2
<1>4. is_contain_active => \E g \in cut_begin_frame..f - 1 : acts[g + 1] = 1
  BY <1>1, <1>3, Heard
<1>5. PiecesOK'
  BY <1>1, <1>2, <1>3, <1>4, CutPieces
<1>6. /\ pieces' \in Seq(Piece) /\ cut_begin_frame' = f /\ offset' = f
      /\ cut_begin_frame' = IF pieces' = <<>> THEN 0 ELSE pieces'[Len(pieces')].to
  BY <1>1, <1>2, <1>3, CutFacts DEF IInv
<1>7. TypeOK'
  <2>1. /\ previous_along_frames' \in Nat /\ acts' \in Seq({0, 1})
        /\ is_contain_active' \in BOOLEAN /\ ended' \in BOOLEAN
    BY <1>1 DEF IInv, TypeOK
  <2> QED
    BY <1>1, <1>2, <1>6, <2>1 DEF TypeOK
<1>8. Progress'
  BY <1>1, <1>6 DEF Progress
<1>9. Remembered' /\ EndsAfterSilence'
  BY <1>1 DEF Remembered, EndsAfterSilence
<1> QED
  BY <1>5, <1>7, <1>8, <1>9 DEF IInv

\* Every step keeps the invariant.
LEMMA NextIInv == IInv /\ [Next]_vars => IInv'
<1> SUFFICES ASSUME IInv, [Next]_vars
             PROVE  IInv'
  OBVIOUS
<1>1. ASSUME NEW act \in {0, 1}, MaxCut(act)
      PROVE  IInv'
  BY <1>1, MaxCutStep
<1>2. ASSUME NEW act \in {0, 1}, ContinuedCut(act)
      PROVE  IInv'
  BY <1>2, ContinuedCutStep
<1>3. ASSUME NEW act \in {0, 1}, Continued(act)
      PROVE  IInv'
  BY <1>3, ContinuedStep
<1>4. ASSUME NEW act \in {0, 1}, ChangedCut(act)
      PROVE  IInv'
  BY <1>4, ChangedCutStep
<1>5. ASSUME NEW act \in {0, 1}, Changed(act)
      PROVE  IInv'
  BY <1>5, ChangedStep
<1>6. ASSUME NEW act \in {0, 1}, Last(act)
      PROVE  IInv'
  BY <1>6, LastStep
<1>7. CASE ReadFails
  BY <1>7 DEF ReadFails, cut, IInv, TypeOK, Progress, PiecesOK, PieceOK, EndsWell,
              EndsInSilence, SilentIn, Remembered, EndsAfterSilence
<1>8. CASE UNCHANGED vars
  BY <1>8 DEF vars, cut, IInv, TypeOK, Progress, PiecesOK, PieceOK, EndsWell,
              EndsInSilence, SilentIn, Remembered, EndsAfterSilence
<1> QED
  BY <1>1, <1>2, <1>3, <1>4, <1>5, <1>6, <1>7, <1>8 DEF Next, Finished

\* The invariant holds throughout.
LEMMA Invariance == Spec => []IInv
BY InitIInv, NextIInv, PTL DEF Spec

\* The variables keep their types: no piece ends before frame 0.
THEOREM TypeCorrect == Spec => []TypeOK
<1>1. IInv => TypeOK
  BY DEF IInv
<1> QED
  BY <1>1, Invariance, PTL

\* Each file holds the audio that its name says, however the cuts went back.
THEOREM AudioIsNamed == Spec => []AudioMatchesName
<1>1. IInv => AudioMatchesName
  BY DEF IInv, PiecesOK, PieceOK, AudioMatchesName
<1> QED
  BY <1>1, Invariance, PTL

\* A recording is never cut within sound, but for the pieces of the greatest
\* length, for all settings.
THEOREM CutsAreSilent == Spec => []CutInSilence
<1>1. IInv => CutInSilence
  BY DEF IInv, PiecesOK, EndsWell, CutInSilence
<1> QED
  BY <1>1, Invariance, PTL

\* A piece labelled "A" holds sound.
THEOREM LabelAIsTrue == Spec => []SoundInA
<1>1. IInv => SoundInA
  BY DEF IInv, PiecesOK, PieceOK, SoundInA
<1> QED
  BY <1>1, Invariance, PTL

\* Silence after sound that was noticed ends a piece in time.
THEOREM SilenceIsNoticed == Spec => []EndsAfterSilence
<1>1. IInv => EndsAfterSilence
  BY DEF IInv
<1> QED
  BY <1>1, Invariance, PTL
-----------------------------------------------------------------------------
\* The spans of the pieces.
SpansOf(ps) == [k \in 1..Len(ps) |-> <<ps[k].from, ps[k].to>>]

\* A piece more is a span more.
LEMMA SpansAppend ==
  ASSUME NEW ps \in Seq(Piece), NEW p \in Piece
  PROVE  /\ SpansOf(Append(ps, p)) = Append(SpansOf(ps), <<p.from, p.to>>)
         /\ SpansOf(ps) = <<>> <=> ps = <<>>
         /\ Len(SpansOf(ps)) = Len(ps)
<1> DEFINE q == Append(ps, p)
           s == SpansOf(ps)
           x == <<p.from, p.to>>
<1>1. /\ Len(ps) \in Nat
      /\ Len(q) = Len(ps) + 1
      /\ q[Len(ps) + 1] = p
      /\ \A k \in 1..Len(ps) : q[k] = ps[k] /\ ps[k] \in Piece
  OBVIOUS
<1>2. s \in Seq(Nat \X Nat) /\ Len(s) = Len(ps)
  <2>1. \A k \in 1..Len(ps) : <<ps[k].from, ps[k].to>> \in Nat \X Nat
    BY <1>1 DEF Piece
  <2> QED
    BY <1>1, <2>1 DEF SpansOf
<1>3. x \in Nat \X Nat
  BY DEF Piece
<1>4. /\ Append(s, x) \in Seq(Nat \X Nat)
      /\ Len(Append(s, x)) = Len(ps) + 1
      /\ Append(s, x)[Len(ps) + 1] = x
      /\ \A k \in 1..Len(ps) : Append(s, x)[k] = s[k]
  BY <1>2, <1>3
<1>5. \A k \in 1..(Len(ps) + 1) : Append(s, x)[k] = <<q[k].from, q[k].to>>
  BY <1>1, <1>4 DEF SpansOf
<1>6. Append(s, x) = [k \in 1..(Len(ps) + 1) |-> Append(s, x)[k]]
  BY <1>4
<1>7. SpansOf(ps) = <<>> <=> ps = <<>>
  BY <1>1, <1>2
<1> HIDE DEF q, s, x
<1>8. Append(s, x) = [k \in 1..(Len(ps) + 1) |-> <<q[k].from, q[k].to>>]
  BY <1>5, <1>6
<1> QED
  BY <1>1, <1>2, <1>7, <1>8 DEF SpansOf, q, s, x

\* A cut adds a span that begins where the last one ended.
LEMMA SpansCut ==
  ASSUME IInv, ~ ended, NEW f \in cut_begin_frame..current_frame, cut_frame(f)
  PROVE  /\ Spans' = Append(Spans, <<Pieces!Begin, f>>)
         /\ Pieces!Begin = cut_begin_frame
         /\ Spans = <<>> <=> pieces = <<>>
<1>1. pieces \in Seq(Piece) /\ PieceBefore(f) \in Piece
  BY CutFacts DEF IInv, TypeOK
<1>2. Spans = SpansOf(pieces) /\ Spans' = SpansOf(pieces')
  BY DEF Spans, SpansOf
<1>3. pieces' = Append(pieces, PieceBefore(f))
  BY DEF cut_frame, CutReading
<1>4. PieceBefore(f).from = cut_begin_frame /\ PieceBefore(f).to = f
  BY DEF PieceBefore
<1>5. /\ Spans' = Append(Spans, <<cut_begin_frame, f>>)
      /\ Spans = <<>> <=> pieces = <<>>
      /\ Len(Spans) = Len(pieces)
  BY <1>1, <1>2, <1>3, <1>4, SpansAppend
<1>6. Pieces!Begin = cut_begin_frame
  <2>1. CASE pieces = <<>>
    BY <1>5, <2>1 DEF Pieces!Begin, IInv, Progress
  <2>2. CASE pieces # <<>>
    <3>1. Len(pieces) \in 1..Len(pieces)
      BY <1>1, <2>2
    <3>2. Spans[Len(pieces)][2] = pieces[Len(pieces)].to
      BY <3>1 DEF Spans
    <3> QED
      BY <1>5, <2>2, <3>2 DEF Pieces!Begin, IInv, Progress
  <2> QED
    BY <2>1, <2>2
<1> QED
  BY <1>5, <1>6

\* A cut of a length allowed is one of Splitting.
LEMMA CutRefines ==
  ASSUME IInv, NEW act \in {0, 1}, Frame(act),
         NEW f \in cut_begin_frame..current_frame, cut_frame(f),
         f - cut_begin_frame \in MinFrames..MaxFrames
  PROVE  Pieces!Cut
<1>1. ~ ended /\ ended' = ended /\ cut_begin_frame \in Int
  BY DEF Frame, IInv, TypeOK
<1>2. Spans' = Append(Spans, <<Pieces!Begin, f>>) /\ Pieces!Begin = cut_begin_frame
  BY <1>1, SpansCut
<1>3. Spans' = Append(Spans, <<Pieces!Begin, Pieces!Begin + (f - cut_begin_frame)>>)
  BY <1>1, <1>2
<1>4. ended = FALSE
  BY <1>1 DEF IInv, TypeOK
<1> QED
  BY <1>1, <1>3, <1>4 DEF Pieces!Cut

\* What cuts nothing leaves the spans.
LEMMA SpansKept == pieces' = pieces => Spans' = Spans
BY DEF Spans

\* Every step is a step of Splitting, or none.
LEMMA StepRefines ==
  ASSUME IInv, [Next]_vars
  PROVE  [Pieces!Next]_(Pieces!vars)
<1>1. ASSUME NEW act \in {0, 1}, MaxCut(act)
      PROVE  Pieces!Cut
  <2>1. Frame(act) /\ cut_frame(current_frame) /\ AtMax
    BY <1>1 DEF MaxCut
  <2>2. Judged(act)
    BY <2>1, FrameJudged
  <2>3. /\ current_frame \in cut_begin_frame..current_frame
        /\ current_frame - cut_begin_frame \in MinFrames..MaxFrames
    BY <2>1, <2>2 DEF Judged, AtMax
  <2> QED
    BY <2>1, <2>3, CutRefines
<1>2. ASSUME NEW act \in {0, 1}, ContinuedCut(act)
      PROVE  Pieces!Cut
  <2>1. Frame(act) /\ cut_frame(current_frame) /\ LongEnough(current_frame)
    BY <1>2 DEF ContinuedCut, SilenceEnds, SilentFor
  <2>2. Judged(act)
    BY <2>1, FrameJudged
  <2>3. /\ current_frame \in cut_begin_frame..current_frame
        /\ current_frame - cut_begin_frame \in MinFrames..MaxFrames
    BY <2>1, <2>2 DEF Judged, LongEnough
  <2> QED
    BY <2>1, <2>3, CutRefines
<1>3. ASSUME NEW act \in {0, 1}, ChangedCut(act)
      PROVE  Pieces!Cut
  <2> DEFINE f == current_frame - SilenceBefore
  <2>1. Frame(act) /\ cut_frame(f) /\ LongEnough(f)
    BY <1>3 DEF ChangedCut, SoundBegins
  <2>2. Judged(act)
    BY <2>1, FrameJudged
  <2>3. f \in cut_begin_frame..current_frame /\ f - cut_begin_frame \in MinFrames..MaxFrames
    BY <2>1, <2>2 DEF Judged, LongEnough
  <2> QED
    BY <2>1, <2>3, CutRefines
<1>4. ASSUME NEW act \in {0, 1}, Continued(act) \/ Changed(act)
      PROVE  UNCHANGED Pieces!vars
  BY <1>4, SpansKept DEF Continued, Changed, Frame, NoCut, Pieces!vars
<1>5. ASSUME NEW act \in {0, 1}, Last(act)
      PROVE  Pieces!Last
  <2> DEFINE n == current_frame - cut_begin_frame
  <2>1. ended = FALSE /\ ended' = TRUE /\ cut_frame(current_frame)
    BY <1>5 DEF Last, IInv, TypeOK
  <2>2. /\ current_frame \in Nat /\ cut_begin_frame \in 0..current_frame
        /\ n \in 0..MaxFrames
        /\ n = 0 => pieces = <<>>
    BY <2>1 DEF IInv, TypeOK, Progress
  <2>3. /\ Spans' = Append(Spans, <<Pieces!Begin, current_frame>>)
        /\ Pieces!Begin = cut_begin_frame
        /\ Spans = <<>> <=> pieces = <<>>
    BY <2>1, <2>2, SpansCut
  <2>4. Spans' = Append(Spans, <<Pieces!Begin, Pieces!Begin + n>>)
    BY <2>2, <2>3
  <2> HIDE DEF n
  <2> QED
    BY <2>1, <2>2, <2>3, <2>4 DEF Pieces!Last
<1>6. CASE ReadFails
  BY <1>6, SpansKept DEF ReadFails, IInv, TypeOK, Pieces!Next, Pieces!Fail
<1>7. CASE UNCHANGED vars
  BY <1>7, SpansKept DEF vars, Pieces!vars
<1> QED
  BY <1>1, <1>2, <1>3, <1>4, <1>5, <1>6, <1>7 DEF Next, Finished, Pieces!Next

\* The pieces follow one another without a gap, none longer than the settings
\* allow and none but the last shorter.
THEOREM PiecesAsPromised == Spec => ImplementsSplitting
<1>1. Init => Pieces!Init
  BY DEF Init, Pieces!Init, Spans
<1>2. IInv /\ [Next]_vars => [Pieces!Next]_(Pieces!vars)
  BY StepRefines
<1> QED
  BY <1>1, <1>2, Invariance, PTL DEF Spec, ImplementsSplitting, Pieces!Spec

(***************************************************************************)
(* The tool.                                                               *)
(***************************************************************************)
LEMMA PeriodsInitedType == PeriodsInited \in Nat /\ PeriodsInited > 0
BY VadToolAssumption DEF VadToolAssumption

\* What the tool does to the splitter is what run() of FileCut does: all that
\* is shown above of the pieces holds beside the list of periods.
THEOREM CutterAlone == ToolSpec => Spec
<1>1. ToolInit => Init
  BY DEF ToolInit
<1>2. ASSUME [ToolNext]_toolVars
      PROVE  [Next]_vars
  <2>1. ASSUME NEW act \in {0, 1}, JudgeFrame(act) \/ JudgeLast(act)
        PROVE  Next
    BY <2>1 DEF JudgeFrame, JudgeLast, Next
  <2>2. CASE LeaveUnread
    BY <2>2 DEF LeaveUnread, Next
  <2>3. CASE UNCHANGED toolVars
    BY <2>3 DEF toolVars
  <2> QED
    BY <1>2, <2>1, <2>2, <2>3 DEF ToolNext, Done
<1> QED
  BY <1>1, <1>2, PTL DEF ToolSpec, Spec
-----------------------------------------------------------------------------
(***************************************************************************)
(* The list of periods                                                     *)
(***************************************************************************)
ListInv ==
  /\ P!TypeOK
  /\ size_allocated > 0
  /\ Len(period_start) <= size_allocated

\* The list is empty at first, and there is room.
LEMMA InitList == P!Init => ListInv
<1> SUFFICES ASSUME P!Init PROVE ListInv
  OBVIOUS
<1>1. \A S : <<>> \in Seq(S)
  OBVIOUS
<1>2. Len(<<>>) = 0
  OBVIOUS
<1>3. is_end_filled \in BOOLEAN /\ per_ended \in BOOLEAN
  BY is_end_filled = FALSE, per_ended = FALSE DEF P!Init
<1>4. /\ per_active \in {0, 1} /\ per_frame \in Nat /\ period_start \in Seq(Nat)
      /\ period_end \in Seq(Nat \cup {-1}) /\ per_acts \in Seq({0, 1})
      /\ size_allocated \in Nat /\ size_allocated > 0 /\ Len(period_start) <= size_allocated
  BY <1>1, <1>2, PeriodsInitedType DEF P!Init
<1> QED
  BY <1>3, <1>4 DEF P!TypeOK, ListInv

\* A sequence whose last element, if it has one, is replaced.
LEMMA LastReplaced ==
  ASSUME NEW S, NEW s \in Seq(S), NEW e \in S
  PROVE  [s EXCEPT ![Len(s)] = e] \in Seq(S)
<1>1. Len(s) \in Nat /\ s \in [1..Len(s) -> S]
  OBVIOUS
<1>2. [s EXCEPT ![Len(s)] = e] \in [1..Len(s) -> S]
  BY <1>1
<1> QED
  BY <1>1, <1>2

\* What one verdict does to the list: it begins a period, or leaves the starts.
Begun(act) == per_active = 0 /\ act = 1

LEMMA PeriodsJudged ==
  ASSUME ListInv, NEW act \in {0, 1}, NEW last \in BOOLEAN, P!period_add_vad_activity(act, last)
  PROVE  /\ period_start' = IF Begun(act) THEN Append(period_start, per_frame) ELSE period_start
         /\ size_allocated' = IF Begun(act) /\ Len(period_start) + 1 > size_allocated
                                THEN 2 * size_allocated ELSE size_allocated
         /\ period_end' \in Seq(Nat \cup {-1})
         /\ is_end_filled' \in BOOLEAN
         /\ per_active' = act /\ per_frame' = per_frame + 1
         /\ per_acts' = Append(per_acts, act) /\ per_ended' = last
<1>1. /\ per_active' = act /\ per_frame' = per_frame + 1
      /\ per_acts' = Append(per_acts, act) /\ per_ended' = last
  BY DEF P!period_add_vad_activity
<1>2. per_active \in {0, 1} /\ period_end \in Seq(Nat \cup {-1}) /\ is_end_filled \in BOOLEAN
      /\ per_frame \in Nat
  BY DEF ListInv, P!TypeOK
<1>3. CASE Begun(act)
  <2>1. P!add_period_start
    BY <1>3 DEF Begun, P!EndsPeriod, P!period_add_vad_activity
  <2>2. Append(period_end, -1) \in Seq(Nat \cup {-1})
    BY <1>2, AppendFacts
  <2> QED
    BY <1>1, <1>3, <2>1, <2>2 DEF P!add_period_start, P!Grown
<1>4. CASE ~ Begun(act) /\ P!EndsPeriod(act, last)
  <2>1. P!add_period_end
    BY <1>4 DEF Begun, P!EndsPeriod, P!period_add_vad_activity
  <2>2. [period_end EXCEPT ![Len(period_end)] = per_frame] \in Seq(Nat \cup {-1})
    BY <1>2, LastReplaced
  <2>3. is_end_filled' \in BOOLEAN
    BY <2>1, is_end_filled' = TRUE DEF P!add_period_end
  <2>4. period_end' \in Seq(Nat \cup {-1})
    BY <2>1, <2>2 DEF P!add_period_end
  <2> QED
    BY <1>1, <1>4, <2>1, <2>3, <2>4 DEF P!add_period_end
<1>5. CASE ~ Begun(act) /\ ~ P!EndsPeriod(act, last)
  BY <1>1, <1>2, <1>5 DEF Begun, P!period_add_vad_activity
<1> QED
  BY <1>3, <1>4, <1>5

\* The array has doubled whenever it is too small for one period more.
LEMMA ListStep ==
  ASSUME ListInv, NEW act \in {0, 1}, NEW last \in BOOLEAN, P!period_add_vad_activity(act, last)
  PROVE  ListInv'
<1>1. /\ per_active \in {0, 1} /\ per_frame \in Nat /\ size_allocated \in Nat
      /\ period_start \in Seq(Nat) /\ Len(period_start) \in Nat
      /\ per_acts \in Seq({0, 1})
      /\ size_allocated > 0 /\ Len(period_start) <= size_allocated
  BY DEF ListInv, P!TypeOK
<1>2. /\ Append(period_start, per_frame) \in Seq(Nat)
      /\ Len(Append(period_start, per_frame)) = Len(period_start) + 1
      /\ Append(per_acts, act) \in Seq({0, 1})
  BY <1>1, AppendFacts
<1>3. /\ period_start' \in Seq(Nat)
      /\ size_allocated' \in Nat /\ size_allocated' > 0
      /\ Len(period_start') <= size_allocated'
  <2>1. CASE Begun(act)
    <3>1. /\ period_start' = Append(period_start, per_frame)
          /\ size_allocated' = IF Len(period_start) + 1 > size_allocated
                                 THEN 2 * size_allocated ELSE size_allocated
      BY <2>1, PeriodsJudged
    <3>2. Len(period_start') = Len(period_start) + 1 /\ period_start' \in Seq(Nat)
      BY <1>2, <3>1
    <3> QED
      BY <1>1, <3>1, <3>2
  <2>2. CASE ~ Begun(act)
    BY <1>1, <2>2, PeriodsJudged
  <2> QED
    BY <2>1, <2>2
<1>4. /\ period_end' \in Seq(Nat \cup {-1})
      /\ per_active' \in {0, 1} /\ per_frame' \in Nat /\ per_acts' \in Seq({0, 1})
  <2>1. /\ period_end' \in Seq(Nat \cup {-1})
        /\ per_active' = act /\ per_frame' = per_frame + 1
        /\ per_acts' = Append(per_acts, act)
    BY PeriodsJudged
  <2> QED
    BY <1>1, <1>2, <2>1
<1>5. is_end_filled' \in BOOLEAN /\ per_ended' \in BOOLEAN
  BY PeriodsJudged
<1> QED
  BY <1>3, <1>4, <1>5 DEF ListInv, P!TypeOK

LEMMA ListInvariance == ToolSpec => []ListInv
<1>1. ToolInit => ListInv
  BY InitList DEF ToolInit
<1>2. ListInv /\ [ToolNext]_toolVars => ListInv'
  <2> SUFFICES ASSUME ListInv, [ToolNext]_toolVars PROVE ListInv'
    OBVIOUS
  <2>1. ASSUME NEW act \in {0, 1}, JudgeFrame(act) \/ JudgeLast(act)
        PROVE  ListInv'
    BY <2>1, ListStep DEF JudgeFrame, JudgeLast
  <2>2. CASE UNCHANGED per
    BY <2>2 DEF per, ListInv, P!TypeOK
  <2> QED
    BY <2>1, <2>2 DEF ToolNext, LeaveUnread, Done, toolVars
<1> QED
  BY <1>1, <1>2, PTL DEF ToolSpec

\* The list keeps its types.
THEOREM PeriodsTypeCorrect == ToolSpec => []PeriodsTypeOK
<1>1. ListInv => PeriodsTypeOK
  BY DEF ListInv, PeriodsTypeOK
<1> QED
  BY <1>1, ListInvariance, PTL

\* No period is stored outside of the arrays, whatever their size at first.
THEOREM PeriodsFit == ToolSpec => []StoredInBounds
<1>1. ListInv => StoredInBounds
  BY DEF ListInv, StoredInBounds, P!StoredInBounds
<1> QED
  BY <1>1, ListInvariance, PTL
-----------------------------------------------------------------------------
(***************************************************************************)
(* The periods                                                             *)
(***************************************************************************)
\* The flag is the verdict before; a period that is open is the last, and no
\* frame after its first ends it.
RunsInv ==
  /\ Len(per_acts) = per_frame
  /\ per_active = IF per_frame = 0 THEN 0 ELSE per_acts[per_frame]
  /\ per_ended => ended
  /\ Len(period_end) = Len(period_start)
  /\ P!PeriodsAreRuns
  /\ per_active = 1 /\ ~ per_ended =>
       /\ Len(period_start) > 0
       /\ P!EndsOf(period_start[Len(period_start)]) = {}

\* It holds before the first frame.
LEMMA InitRuns == P!Init => RunsInv
<1> SUFFICES ASSUME P!Init PROVE RunsInv
  OBVIOUS
<1>1. /\ per_active = 0 /\ per_frame = 0 /\ per_acts = <<>> /\ per_ended = FALSE
      /\ period_start = <<>> /\ period_end = <<>>
  BY DEF P!Init
<1>2. P!PeriodsAreRuns
  BY <1>1 DEF P!PeriodsAreRuns
<1> QED
  BY <1>1, <1>2 DEF RunsInv

LeastOf(S) == CHOOSE g \in S : \A h \in S : g <= h

\* What is less than every other number of a set is the least of it.
LEMMA LeastIs ==
  ASSUME NEW S, S \subseteq Nat, NEW m \in S, \A h \in S : m <= h
  PROVE  LeastOf(S) = m
<1>1. LeastOf(S) \in S /\ \A h \in S : LeastOf(S) <= h
  BY DEF LeastOf
<1>2. m <= LeastOf(S) /\ LeastOf(S) <= m /\ m \in Nat /\ LeastOf(S) \in Nat
  BY <1>1
<1> QED
  BY <1>2

\* A number above them changes the least of a set only if that is empty.
LEMMA LeastWith ==
  ASSUME NEW S, S \subseteq Nat, NEW n \in Nat, \A h \in S : h < n
  PROVE  LeastOf(S \cup {n}) = IF S = {} THEN n ELSE LeastOf(S)
<1>1. CASE S = {}
  <2>1. S \cup {n} = {n} /\ {n} \subseteq Nat /\ n <= n
    BY <1>1
  <2>2. LeastOf({n}) = n
    BY <2>1, LeastIs
  <2> QED
    BY <1>1, <2>1, <2>2
<1>2. CASE S # {}
  <2>1. PICK m \in S : \A h \in S : m <= h
    BY <1>2, Least
  <2>2. m \in S \cup {n} /\ S \cup {n} \subseteq Nat /\ \A h \in S \cup {n} : m <= h
    BY <2>1
  <2>3. LeastOf(S \cup {n}) = m /\ LeastOf(S) = m
    BY <2>1, <2>2, LeastIs
  <2> QED
    BY <1>2, <2>3
<1> QED
  BY <1>1, <1>2

\* What a verdict leaves of those before it.
HeardByList(act, last) ==
  /\ per_frame \in Nat /\ per_frame' = per_frame + 1
  /\ per_acts'[per_frame + 1] = act
  /\ \A f \in 1..per_frame : per_acts'[f] = per_acts[f]
  /\ per_active \in {0, 1} /\ per_active' = act
  /\ per_active = IF per_frame = 0 THEN 0 ELSE per_acts[per_frame]
  /\ ~ per_ended /\ per_ended' = last

\* Every verdict is heard so.
LEMMA HeardByListKnown ==
  ASSUME ListInv, RunsInv, ~ ended, NEW act \in {0, 1}, NEW last \in BOOLEAN,
         P!period_add_vad_activity(act, last)
  PROVE  HeardByList(act, last) /\ Len(per_acts') = per_frame'
<1>1. /\ per_active' = act /\ per_frame' = per_frame + 1
      /\ per_acts' = Append(per_acts, act) /\ per_ended' = last
  BY PeriodsJudged
<1>2. /\ per_frame \in Nat /\ per_acts \in Seq({0, 1}) /\ Len(per_acts) = per_frame
      /\ per_active \in {0, 1}
      /\ per_active = IF per_frame = 0 THEN 0 ELSE per_acts[per_frame]
      /\ ~ per_ended
  BY DEF ListInv, P!TypeOK, RunsInv
<1>3. /\ Append(per_acts, act)[per_frame + 1] = act
      /\ \A f \in 1..per_frame : Append(per_acts, act)[f] = per_acts[f]
      /\ Len(Append(per_acts, act)) = per_frame + 1
  BY <1>2, AppendFacts
<1> QED
  BY <1>1, <1>2, <1>3 DEF HeardByList

\* The frames that end what begins at f: this one too, if it is silent or last.
LEMMA EndsAfter ==
  ASSUME NEW act \in {0, 1}, NEW last \in BOOLEAN, HeardByList(act, last),
         NEW f \in 0..per_frame - 1
  PROVE  /\ P!EndsOf(f) \subseteq Nat
         /\ \A g \in P!EndsOf(f) : g < per_frame
         /\ P!EndsOf(f)' = IF act = 0 \/ last THEN P!EndsOf(f) \cup {per_frame}
                                              ELSE P!EndsOf(f)
<1>1. /\ per_frame \in Nat /\ per_frame' = per_frame + 1
      /\ per_acts'[per_frame + 1] = act
      /\ \A g \in 1..per_frame : per_acts'[g] = per_acts[g]
      /\ ~ per_ended /\ per_ended' = last
  BY DEF HeardByList
<1>2. P!EndsOf(f) = {g \in f + 1..per_frame - 1 : per_acts[g + 1] = 0}
  BY <1>1 DEF P!EndsOf
<1>3. P!EndsOf(f)' = {g \in f + 1..per_frame : per_acts'[g + 1] = 0 \/ (last /\ g = per_frame)}
  <2>1. per_frame' - 1 = per_frame
    BY <1>1
  <2> QED
    BY <1>1, <2>1 DEF P!EndsOf
<1>4. \A g \in f + 1..per_frame - 1 : per_acts'[g + 1] = per_acts[g + 1]
  BY <1>1
<1>5. f + 1..per_frame = (f + 1..per_frame - 1) \cup {per_frame}
  BY <1>1
<1>6. f + 1..per_frame - 1 \subseteq Nat /\ \A g \in f + 1..per_frame - 1 : g < per_frame
  BY <1>1
<1> QED
  BY <1>1, <1>2, <1>3, <1>4, <1>5, <1>6

\* The end of what begins at f stays, once there is one.
LEMMA EndAfter ==
  ASSUME NEW act \in {0, 1}, NEW last \in BOOLEAN, HeardByList(act, last),
         NEW f \in 0..per_frame - 1
  PROVE  P!EndOf(f)' = IF P!EndsOf(f) # {} THEN P!EndOf(f)
                       ELSE IF act = 0 \/ last THEN per_frame ELSE -1
<1> DEFINE S == P!EndsOf(f)
<1>1. /\ S \subseteq Nat /\ \A g \in S : g < per_frame
      /\ P!EndsOf(f)' = IF act = 0 \/ last THEN S \cup {per_frame} ELSE S
  BY EndsAfter
<1>2. P!EndOf(f) = IF S = {} THEN -1 ELSE LeastOf(S)
  BY DEF P!EndOf, LeastOf
<1>3. P!EndOf(f)' = IF P!EndsOf(f)' = {} THEN -1 ELSE LeastOf(P!EndsOf(f)')
  BY DEF P!EndOf, LeastOf
<1>4. per_frame \in Nat
  BY DEF HeardByList
<1> HIDE DEF S
<1>5. LeastOf(S \cup {per_frame}) = IF S = {} THEN per_frame ELSE LeastOf(S)
  BY <1>1, <1>4, LeastWith
<1>6. S \cup {per_frame} # {}
  OBVIOUS
<1>7. CASE act = 0 \/ last
  <2>1. P!EndsOf(f)' = S \cup {per_frame}
    BY <1>1, <1>7
  <2>2. P!EndOf(f)' = LeastOf(S \cup {per_frame})
    BY <1>3, <1>6, <2>1
  <2>3. P!EndOf(f)' = IF S # {} THEN P!EndOf(f)
                      ELSE IF act = 0 \/ last THEN per_frame ELSE -1
    BY <1>2, <1>5, <1>7, <2>2
  <2> QED
    BY <2>3 DEF S
<1>8. CASE ~ (act = 0 \/ last)
  <2>1. P!EndsOf(f)' = S
    BY <1>1, <1>8
  <2>2. P!EndOf(f)' = IF S # {} THEN P!EndOf(f)
                      ELSE IF act = 0 \/ last THEN per_frame ELSE -1
    BY <1>2, <1>3, <1>8, <2>1
  <2> QED
    BY <2>2 DEF S
<1> QED
  BY <1>7, <1>8

\* What begins with this frame has no end yet.
LEMMA NoEndNow ==
  ASSUME NEW act \in {0, 1}, NEW last \in BOOLEAN, HeardByList(act, last)
  PROVE  \A f : f = per_frame => P!EndsOf(f)' = {} /\ P!EndOf(f)' = -1
<1> TAKE f
<1> HAVE f = per_frame
<1>1. per_frame \in Nat /\ per_frame' - 1 = per_frame
  BY DEF HeardByList
<1>2. P!EndsOf(f)' = {}
  BY <1>1 DEF P!EndsOf
<1> QED
  BY <1>2 DEF P!EndOf

\* This frame begins a period if it sounds after silence, and no frame before it
\* begins one that it did not.
LEMMA BeginsAfter ==
  ASSUME NEW act \in {0, 1}, NEW last \in BOOLEAN, HeardByList(act, last)
  PROVE  {f \in 0..per_frame' - 1 : P!Begins(f)'} =
           {f \in 0..per_frame - 1 : P!Begins(f)}
             \cup (IF Begun(act) THEN {per_frame} ELSE {})
<1>1. /\ per_frame \in Nat /\ per_frame' - 1 = per_frame
      /\ per_acts'[per_frame + 1] = act
      /\ \A g \in 1..per_frame : per_acts'[g] = per_acts[g]
      /\ per_active \in {0, 1}
      /\ per_active = IF per_frame = 0 THEN 0 ELSE per_acts[per_frame]
  BY DEF HeardByList
<1>2. ASSUME NEW f \in 0..per_frame - 1
      PROVE  P!Begins(f)' <=> P!Begins(f)
  <2>1. f + 1 \in 1..per_frame /\ (f = 0 \/ f \in 1..per_frame)
    BY <1>1
  <2> QED
    BY <1>1, <2>1 DEF P!Begins
<1>3. ASSUME NEW f, f = per_frame
      PROVE  P!Begins(f)' <=> Begun(act)
  <2>1. f = 0 \/ f \in 1..per_frame
    BY <1>1, <1>3
  <2>2. P!Begins(f)' <=> act = 1 /\ (f = 0 \/ per_acts'[f] = 0)
    BY <1>1, <1>3 DEF P!Begins
  <2> QED
    BY <1>1, <1>3, <2>1, <2>2 DEF Begun
<1>4. 0..per_frame' - 1 = (0..per_frame - 1) \cup {per_frame}
  BY <1>1
<1>5. ASSUME NEW f \in 0..per_frame' - 1
      PROVE  P!Begins(f)' <=> (f \in 0..per_frame - 1 /\ P!Begins(f)) \/ (f = per_frame /\ Begun(act))
  BY <1>1, <1>2, <1>3, <1>4, <1>5
<1>6. per_frame \in 0..per_frame' - 1
  BY <1>1
<1> QED
  BY <1>4, <1>5, <1>6

\* Every period has an end but the one that goes on.
LEMMA EndedBut ==
  ASSUME ListInv, RunsInv, ~ per_ended, NEW k \in 1..Len(period_start),
         k < Len(period_start) \/ per_active = 0
  PROVE  P!EndsOf(period_start[k]) # {}
<1>1. /\ per_frame \in Nat /\ per_active = IF per_frame = 0 THEN 0 ELSE per_acts[per_frame]
      /\ period_start \in Seq(Nat) /\ DOMAIN period_start = 1..Len(period_start)
      /\ Len(period_start) \in Nat
  BY DEF ListInv, P!TypeOK, RunsInv
<1>2. \A j \in 1..Len(period_start) :
        /\ period_start[j] \in 0..per_frame - 1 /\ per_acts[period_start[j] + 1] = 1
        /\ period_start[j] = 0 \/ per_acts[period_start[j]] = 0
  BY <1>1 DEF RunsInv, P!PeriodsAreRuns, P!Begins
<1>3. CASE k < Len(period_start)
  <2>1. /\ k + 1 \in 1..Len(period_start) /\ (k + 1) - 1 = k /\ k + 1 > 1
    BY <1>1, <1>3
  <2>2. period_start[k] < period_start[k + 1]
    BY <1>1, <2>1 DEF RunsInv, P!PeriodsAreRuns
  <2>3. PICK f, g : f = period_start[k] /\ g = period_start[k + 1]
    OBVIOUS
  <2>4. /\ f \in 0..per_frame - 1 /\ g \in 0..per_frame - 1 /\ f < g
        /\ per_acts[f + 1] = 1 /\ (g = 0 \/ per_acts[g] = 0)
    BY <1>2, <2>1, <2>2, <2>3
  <2>5. g # f + 1 /\ per_acts[g] = 0
    BY <1>1, <2>4
  <2>6. g - 1 \in f + 1..per_frame - 1 /\ (g - 1) + 1 = g
    BY <1>1, <2>4, <2>5
  <2>7. g - 1 \in P!EndsOf(f)
    BY <2>5, <2>6 DEF P!EndsOf
  <2> QED
    BY <2>3, <2>7
<1>4. CASE per_active = 0
  <2>1. PICK f : f = period_start[k]
    OBVIOUS
  <2>2. f \in 0..per_frame - 1 /\ per_acts[f + 1] = 1
    BY <1>2, <2>1
  <2>3. per_acts[per_frame] = 0
    BY <1>1, <1>4, <2>2
  <2>4. f + 1 # per_frame
    BY <1>1, <2>2, <2>3
  <2>5. per_frame - 1 \in f + 1..per_frame - 1 /\ (per_frame - 1) + 1 = per_frame
    BY <1>1, <2>2, <2>4
  <2>6. per_frame - 1 \in P!EndsOf(f)
    BY <2>3, <2>5 DEF P!EndsOf
  <2> QED
    BY <2>1, <2>6
<1> QED
  BY <1>3, <1>4

\* What a verdict does to the ends.
EndsJudged(act, last) ==
  period_end' = IF Begun(act) THEN Append(period_end, -1)
                ELSE IF P!EndsPeriod(act, last)
                THEN [period_end EXCEPT ![Len(period_end)] = per_frame]
                ELSE period_end

\* A verdict begins a period, ends the last, or leaves the ends.
LEMMA EndsKnown ==
  ASSUME NEW act \in {0, 1}, NEW last \in BOOLEAN, P!period_add_vad_activity(act, last),
         per_active \in {0, 1}
  PROVE  EndsJudged(act, last)
<1>1. CASE Begun(act)
  BY <1>1 DEF Begun, P!EndsPeriod, P!period_add_vad_activity, P!add_period_start, EndsJudged
<1>2. CASE ~ Begun(act) /\ P!EndsPeriod(act, last)
  BY <1>2 DEF Begun, P!EndsPeriod, P!period_add_vad_activity, P!add_period_end, EndsJudged
<1>3. CASE ~ Begun(act) /\ ~ P!EndsPeriod(act, last)
  BY <1>3 DEF Begun, P!period_add_vad_activity, EndsJudged
<1> QED
  BY <1>1, <1>2, <1>3

\* A sequence whose last element, if it has one, is replaced.
LEMMA LastReplacedFacts ==
  ASSUME NEW S, NEW s \in Seq(S), NEW e
  PROVE  /\ Len([s EXCEPT ![Len(s)] = e]) = Len(s)
         /\ \A k \in 1..Len(s) : [s EXCEPT ![Len(s)] = e][k] = IF k = Len(s) THEN e ELSE s[k]
<1>1. Len(s) \in Nat /\ DOMAIN s = 1..Len(s)
  OBVIOUS
<1>2. DOMAIN [s EXCEPT ![Len(s)] = e] = 1..Len(s)
  BY <1>1
<1>3. \A k \in 1..Len(s) : [s EXCEPT ![Len(s)] = e][k] = IF k = Len(s) THEN e ELSE s[k]
  BY <1>1
<1>4. [s EXCEPT ![Len(s)] = e] \in Seq(S \cup {e})
  <2>1. s \in [1..Len(s) -> S \cup {e}]
    OBVIOUS
  <2>2. [s EXCEPT ![Len(s)] = e] \in [1..Len(s) -> S \cup {e}]
    BY <1>1, <2>1
  <2> QED
    BY <1>1, <2>2
<1>5. Len([s EXCEPT ![Len(s)] = e]) = Len(s)
  BY <1>1, <1>2, <1>4
<1> QED
  BY <1>3, <1>5

\* A verdict that begins a period.
LEMMA BegunStep ==
  ASSUME ListInv, RunsInv, NEW act \in {0, 1}, NEW last \in BOOLEAN, HeardByList(act, last),
         Begun(act), EndsJudged(act, last),
         period_start' = Append(period_start, per_frame)
  PROVE  /\ P!PeriodsAreRuns'
         /\ Len(period_start') > 0 /\ Len(period_end') = Len(period_start')
         /\ P!EndsOf(period_start[Len(period_start)])' = {}
<1> DEFINE n == Len(period_start)
<1>1. /\ per_frame \in Nat /\ per_active = 0 /\ act = 1 /\ ~ per_ended
      /\ period_start \in Seq(Nat) /\ period_end \in Seq(Nat \cup {-1})
      /\ DOMAIN period_start = 1..n /\ n \in Nat /\ Len(period_end) = n
  BY DEF ListInv, P!TypeOK, RunsInv, HeardByList, Begun
<1>2. period_end' = Append(period_end, -1)
  BY DEF EndsJudged
<1>3. /\ DOMAIN period_start' = 1..n + 1 /\ Len(period_start') = n + 1
      /\ \A k \in 1..n : period_start'[k] = period_start[k]
      /\ period_start'[n + 1] = per_frame
  BY <1>1, AppendFacts
<1>4. /\ Len(period_end') = n + 1
      /\ \A k \in 1..n : period_end'[k] = period_end[k]
      /\ period_end'[n + 1] = -1
  <2>1. -1 \in Nat \cup {-1}
    OBVIOUS
  <2> QED
    BY <1>1, <1>2, <2>1, AppendFacts
<1>5. /\ {period_start[k] : k \in 1..n} = {f \in 0..per_frame - 1 : P!Begins(f)}
      /\ \A k \in 1..n : k > 1 => period_start[k - 1] < period_start[k]
      /\ \A k \in 1..n : period_end[k] = P!EndOf(period_start[k])
  BY <1>1 DEF RunsInv, P!PeriodsAreRuns
<1> HIDE DEF n
<1>6. \A k \in 1..n : period_start[k] \in 0..per_frame - 1
  BY <1>5
<1>7. {period_start'[k] : k \in 1..n + 1} = {period_start[k] : k \in 1..n} \cup {per_frame}
  BY <1>1, <1>3
<1>8. {f \in 0..per_frame' - 1 : P!Begins(f)'} = {f \in 0..per_frame - 1 : P!Begins(f)} \cup {per_frame}
  BY BeginsAfter
<1>9. ASSUME NEW k \in 1..n + 1, k > 1
      PROVE  period_start'[k - 1] < period_start'[k]
  <2>1. CASE k \in 1..n
    <3>1. k - 1 \in 1..n
      BY <1>1, <1>9, <2>1
    <3> QED
      BY <1>3, <1>5, <1>9, <2>1, <3>1
  <2>2. CASE k = n + 1
    <3>1. k - 1 = n /\ n \in 1..n
      BY <1>1, <1>9, <2>2
    <3>2. period_start'[n] = period_start[n] /\ period_start[n] \in 0..per_frame - 1
      BY <1>3, <1>6, <3>1
    <3> QED
      BY <1>1, <1>3, <2>2, <3>1, <3>2
  <2>3. k \in 1..n \/ k = n + 1
    BY <1>1
  <2> QED
    BY <2>1, <2>2, <2>3
<1>10. ASSUME NEW k \in 1..n + 1, NEW f, f = period_start'[k]
       PROVE  period_end'[k] = P!EndOf(f)'
  <2>1. CASE k \in 1..n
    <3>1. f = period_start[k] /\ f \in 0..per_frame - 1
      BY <1>3, <1>6, <1>10, <2>1
    <3>2. P!EndsOf(f) # {}
      BY <1>1, <2>1, <3>1, EndedBut DEF n
    <3>3. P!EndOf(f)' = P!EndOf(f)
      BY <3>1, <3>2, EndAfter
    <3> QED
      BY <1>4, <1>5, <2>1, <3>1, <3>3
  <2>2. CASE k = n + 1
    BY <1>3, <1>4, <1>10, <2>2, NoEndNow
  <2> QED
    BY <1>1, <2>1, <2>2
<1>11. P!PeriodsAreRuns'
  BY <1>3, <1>5, <1>7, <1>8, <1>9, <1>10 DEF P!PeriodsAreRuns
<1>12. ASSUME NEW f, f = period_start'[n + 1]
       PROVE  P!EndsOf(f)' = {}
  BY <1>3, <1>12, NoEndNow
<1>13. P!EndsOf(period_start[Len(period_start)])' = {}
  BY <1>3, <1>12
<1> QED
  BY <1>1, <1>3, <1>4, <1>11, <1>13

\* A verdict that begins none: the last period ends, goes on, or has ended.
LEMMA UnbegunStep ==
  ASSUME ListInv, RunsInv, NEW act \in {0, 1}, NEW last \in BOOLEAN, HeardByList(act, last),
         ~ Begun(act), EndsJudged(act, last), period_start' = period_start
  PROVE  /\ P!PeriodsAreRuns' /\ Len(period_end') = Len(period_start')
         /\ act = 1 /\ ~ last =>
              /\ Len(period_start) > 0
              /\ P!EndsOf(period_start[Len(period_start)])' = {}
<1> DEFINE n == Len(period_start)
<1>1. /\ per_frame \in Nat /\ per_active \in {0, 1} /\ ~ per_ended
      /\ period_start \in Seq(Nat) /\ period_end \in Seq(Nat \cup {-1})
      /\ DOMAIN period_start = 1..n /\ n \in Nat /\ Len(period_end) = n
      /\ per_active = 0 => act = 0
  BY DEF ListInv, P!TypeOK, RunsInv, HeardByList, Begun
<1>2. /\ {period_start[k] : k \in 1..n} = {f \in 0..per_frame - 1 : P!Begins(f)}
      /\ \A k \in 1..n : k > 1 => period_start[k - 1] < period_start[k]
      /\ \A k \in 1..n : period_end[k] = P!EndOf(period_start[k])
  BY <1>1 DEF RunsInv, P!PeriodsAreRuns
<1>3. per_active = 1 => n > 0 /\ P!EndsOf(period_start[n]) = {}
  BY <1>1 DEF RunsInv
<1>4. \A k \in 1..n : k < n \/ per_active = 0 => P!EndsOf(period_start[k]) # {}
  BY <1>1, EndedBut
<1>5. P!EndsPeriod(act, last) <=> per_active = 1 /\ (act = 0 \/ last)
  BY DEF P!EndsPeriod
<1>6. /\ Len(period_end') = n
      /\ \A k \in 1..n : period_end'[k] = IF k = n /\ P!EndsPeriod(act, last)
                                            THEN per_frame ELSE period_end[k]
  <2>1. CASE P!EndsPeriod(act, last)
    <3>1. period_end' = [period_end EXCEPT ![Len(period_end)] = per_frame]
      BY <2>1 DEF EndsJudged
    <3>2. /\ Len([period_end EXCEPT ![Len(period_end)] = per_frame]) = Len(period_end)
          /\ \A k \in 1..Len(period_end) :
               [period_end EXCEPT ![Len(period_end)] = per_frame][k] =
                 IF k = Len(period_end) THEN per_frame ELSE period_end[k]
      BY <1>1, LastReplacedFacts
    <3> QED
      BY <1>1, <2>1, <3>1, <3>2
  <2>2. CASE ~ P!EndsPeriod(act, last)
    BY <1>1, <2>2 DEF EndsJudged
  <2> QED
    BY <2>1, <2>2
<1> HIDE DEF n
<1>7. \A k \in 1..n : period_start[k] \in 0..per_frame - 1
  BY <1>2
<1>8. {f \in 0..per_frame' - 1 : P!Begins(f)'} = {f \in 0..per_frame - 1 : P!Begins(f)}
  BY BeginsAfter
<1>9. ASSUME NEW k \in 1..n, NEW f, f = period_start[k]
      PROVE  period_end'[k] = P!EndOf(f)'
  <2>1. f \in 0..per_frame - 1
    BY <1>7, <1>9
  <2>2. P!EndOf(f)' = IF P!EndsOf(f) # {} THEN P!EndOf(f)
                      ELSE IF act = 0 \/ last THEN per_frame ELSE -1
    BY <2>1, EndAfter
  <2>3. CASE k = n /\ per_active = 1
    <3>1. P!EndsOf(f) = {} /\ P!EndOf(f) = -1
      BY <1>3, <1>9, <2>3 DEF P!EndOf
    <3> QED
      BY <1>2, <1>5, <1>6, <1>9, <2>2, <2>3, <3>1
  <2>4. CASE ~ (k = n /\ per_active = 1)
    <3>1. k < n \/ per_active = 0
      BY <1>1, <2>4
    <3>2. P!EndsOf(f) # {}
      BY <1>4, <1>9, <3>1
    <3>3. ~ (k = n /\ P!EndsPeriod(act, last))
      BY <1>5, <2>4
    <3> QED
      BY <1>2, <1>6, <1>9, <2>2, <3>2, <3>3
  <2> QED
    BY <2>3, <2>4
<1>10. P!PeriodsAreRuns'
  <2>1. DOMAIN period_start' = 1..n
    BY <1>1 DEF n
  <2> QED
    BY <1>2, <1>8, <1>9, <2>1 DEF P!PeriodsAreRuns
<1>11. ASSUME act = 1, ~ last, NEW f, f = period_start[n]
       PROVE  n > 0 /\ P!EndsOf(f)' = {}
  <2>1. n > 0 /\ P!EndsOf(f) = {}
    BY <1>1, <1>3, <1>11
  <2>2. f \in 0..per_frame - 1
    BY <1>1, <1>7, <1>11, <2>1
  <2>3. P!EndsOf(f)' = P!EndsOf(f)
    BY <1>11, <2>2, EndsAfter
  <2> QED
    BY <2>1, <2>3
<1>12. act = 1 /\ ~ last => n > 0 /\ P!EndsOf(period_start[n])' = {}
  BY <1>1, <1>11 DEF n
<1> QED
  BY <1>6, <1>10, <1>12 DEF n

\* Every verdict keeps the invariant.
LEMMA RunsStep ==
  ASSUME ListInv, RunsInv, ~ ended, NEW act \in {0, 1}, NEW last \in BOOLEAN,
         P!period_add_vad_activity(act, last), last => ended'
  PROVE  RunsInv'
<1>1. HeardByList(act, last) /\ Len(per_acts') = per_frame'
  BY HeardByListKnown
<1>2. EndsJudged(act, last)
  BY <1>1, EndsKnown DEF HeardByList
<1>3. period_start' = IF Begun(act) THEN Append(period_start, per_frame) ELSE period_start
  BY PeriodsJudged
<1>4. /\ per_active' = IF per_frame' = 0 THEN 0 ELSE per_acts'[per_frame']
      /\ per_active' = act /\ per_ended' = last
  <2>1. /\ per_frame \in Nat /\ per_frame' = per_frame + 1 /\ per_acts'[per_frame + 1] = act
        /\ per_active' = act /\ per_ended' = last
    BY <1>1 DEF HeardByList
  <2>2. per_frame + 1 # 0
    BY <2>1
  <2> QED
    BY <2>1, <2>2
<1>5. /\ P!PeriodsAreRuns' /\ Len(period_end') = Len(period_start')
      /\ act = 1 /\ ~ last =>
           /\ Len(period_start') > 0
           /\ P!EndsOf(period_start[Len(period_start)])' = {}
  <2>1. CASE Begun(act)
    <3>1. period_start' = Append(period_start, per_frame)
      BY <1>3, <2>1
    <3> QED
      BY <1>1, <1>2, <2>1, <3>1, BegunStep
  <2>2. CASE ~ Begun(act)
    <3>1. period_start' = period_start
      BY <1>3, <2>2
    <3> QED
      BY <1>1, <1>2, <2>2, <3>1, UnbegunStep
  <2> QED
    BY <2>1, <2>2
<1> QED
  BY <1>1, <1>4, <1>5 DEF RunsInv

\* A step that leaves the list leaves what it says.
LEMMA SameRuns ==
  ASSUME P!PeriodsAreRuns, UNCHANGED per
  PROVE  P!PeriodsAreRuns'
<1>1. /\ per_ended' = per_ended /\ per_frame' = per_frame /\ per_acts' = per_acts
      /\ period_start' = period_start /\ period_end' = period_end
  BY DEF per
<1>2. ASSUME NEW f
      PROVE  P!EndOf(f)' = P!EndOf(f) /\ (P!Begins(f)' <=> P!Begins(f))
  <2>1. P!EndsOf(f)' = P!EndsOf(f) /\ (P!Begins(f)' <=> P!Begins(f))
    BY <1>1 DEF P!EndsOf, P!Begins
  <2>2. /\ P!EndOf(f) = IF P!EndsOf(f) = {} THEN -1 ELSE LeastOf(P!EndsOf(f))
        /\ P!EndOf(f)' = IF P!EndsOf(f)' = {} THEN -1 ELSE LeastOf(P!EndsOf(f)')
    BY DEF P!EndOf, LeastOf
  <2> QED
    BY <2>1, <2>2
<1> QED
  BY <1>1, <1>2 DEF P!PeriodsAreRuns

\* The periods are the longest stretches of sound, each once and in order, for
\* every recording and all settings.
THEOREM PeriodsAreTheRuns == ToolSpec => []PeriodsAreRuns
<1>1. ToolInit => RunsInv
  BY InitRuns DEF ToolInit
<1>2. ListInv /\ RunsInv /\ [ToolNext]_toolVars => RunsInv'
  <2> SUFFICES ASSUME ListInv, RunsInv, [ToolNext]_toolVars PROVE RunsInv'
    OBVIOUS
  <2>1. ASSUME NEW act \in {0, 1}, JudgeFrame(act)
        PROVE  RunsInv'
    <3>1. P!period_add_vad_activity(act, FALSE) /\ ~ ended
      BY <2>1 DEF JudgeFrame, MaxCut, ContinuedCut, Continued, ChangedCut, Changed, Frame
    <3> QED
      BY <3>1, RunsStep
  <2>2. ASSUME NEW act \in {0, 1}, JudgeLast(act)
        PROVE  RunsInv'
    <3>1. P!period_add_vad_activity(act, TRUE) /\ ~ ended /\ ended' = TRUE
      BY <2>2 DEF JudgeLast, Last
    <3> QED
      BY <3>1, RunsStep
  <2>3. CASE LeaveUnread \/ UNCHANGED toolVars
    <3>1. UNCHANGED per /\ (ended => ended')
      BY <2>3 DEF LeaveUnread, ReadFails, toolVars, vars
    <3>2. P!PeriodsAreRuns'
      BY <3>1, SameRuns DEF RunsInv
    <3>3. P!EndsOf(period_start[Len(period_start)])' = P!EndsOf(period_start[Len(period_start)])
      BY <3>1 DEF per, P!EndsOf
    <3>4. per_ended' => ended'
      BY <3>1, Zenon DEF per, RunsInv
    <3>5. per_ended' = per_ended /\ per_active' = per_active /\ per_frame' = per_frame
          /\ per_acts' = per_acts /\ period_start' = period_start /\ period_end' = period_end
      BY <3>1 DEF per
    <3> QED
      BY <3>2, <3>3, <3>4, <3>5 DEF RunsInv
  <2> QED
    BY <2>1, <2>2, <2>3 DEF ToolNext, Done
<1>3. RunsInv => PeriodsAreRuns
  BY DEF RunsInv, PeriodsAreRuns
<1> QED
  BY <1>1, <1>2, <1>3, ListInvariance, PTL DEF ToolSpec
=============================================================================
