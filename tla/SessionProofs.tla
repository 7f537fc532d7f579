--------------------------- MODULE SessionProofs ---------------------------
(***************************************************************************)
(* Proofs about module Session, for every value of its constants.          *)
(***************************************************************************)
EXTENDS Session, Induction, SequenceTheorems, TLAPS

\* The decoding thread is not running.
Idle == d_pc \in {"off", "done", "failed", "thrown"}

\* A step of the decoding thread is one of a running thread in a running
\* process; it leaves the reading thread and the stream alone, and can bring
\* the process down only by a fault or by SIGPIPE.
LEMMA DecoderFrame ==
  ASSUME Decoder
  PROVE  /\ ~ Idle
         /\ proc = "up"
         /\ proc' \in {"up", "killed", "fault"}
         /\ d_pc' # "off"
         /\ UNCHANGED <<ranges, state_, r_pc, left, got_start_tag_, got_end_tag_, conn>>
<1> USE DEF Idle, DecoderStep, MayFault, Survives, Goto
<1>1. CASE LoadCurSize
  BY <1>1 DEF LoadCurSize
<1>2. CASE EndRecording
  BY <1>2 DEF EndRecording
<1>3. CASE Turn
  BY <1>3 DEF Turn
<1>4. CASE TakeRanges
  BY <1>4 DEF TakeRanges, Takes
<1>5. CASE LoadNumSamples
  BY <1>5 DEF LoadNumSamples, Looks
<1>6. CASE SkipSegment
  BY <1>6 DEF SkipSegment, AtSegment
<1>7. CASE WriteSegments
  BY <1>7 DEF WriteSegments, Writes
<1>8. CASE NoteSegments
  BY <1>8 DEF NoteSegments
<1>9. CASE WritePreview
  BY <1>9 DEF WritePreview, Writes
<1>10. CASE WriteFinal
  BY <1>10 DEF WriteFinal, Writes
<1>11. CASE WriteEnd
  BY <1>11 DEF WriteEnd, Writes
<1>12. CASE ResetSession
  BY <1>12 DEF ResetSession
<1>13. CASE Rescore
  BY <1>13 DEF Rescore, Writes
<1>14. CASE \E act \in {0, 1} : JudgeFrame(act)
  BY <1>14 DEF JudgeFrame
<1>15. CASE \E result \in Results : PostSegment(result)
  BY <1>15 DEF PostSegment, AtSegment
<1>16. CASE \E result \in Results : PostPreview(result)
  BY <1>16 DEF PostPreview
<1>17. CASE \E result \in Results : PostWhole(result)
  BY <1>17 DEF PostWhole
<1> QED
  BY <1>1, <1>2, <1>3, <1>4, <1>5, <1>6, <1>7, <1>8, <1>9, <1>10, <1>11, <1>12, <1>13,
     <1>14, <1>15, <1>16, <1>17
  DEF Decoder
-----------------------------------------------------------------------------
\* The decoding thread can only fault while the reading thread appends.
LEMMA DecoderFaults ==
  ASSUME Decoder, proc' = "fault"
  PROVE  r_pc = "data"
<1> USE DEF DecoderStep, MayFault, Survives, Growing, GrowingRanges, Appending
<1>1. CASE LoadCurSize
  BY <1>1 DEF LoadCurSize
<1>2. CASE EndRecording
  BY <1>2 DEF EndRecording
<1>3. CASE Turn
  BY <1>3 DEF Turn
<1>4. CASE TakeRanges
  BY <1>4 DEF TakeRanges, Takes
<1>5. CASE LoadNumSamples
  BY <1>5 DEF LoadNumSamples, Looks
<1>6. CASE SkipSegment
  BY <1>6 DEF SkipSegment
<1>7. CASE WriteSegments
  BY <1>7 DEF WriteSegments, Writes
<1>8. CASE NoteSegments
  BY <1>8 DEF NoteSegments
<1>9. CASE WritePreview
  BY <1>9 DEF WritePreview, Writes
<1>10. CASE WriteFinal
  BY <1>10 DEF WriteFinal, Writes
<1>11. CASE WriteEnd
  BY <1>11 DEF WriteEnd, Writes
<1>12. CASE ResetSession
  BY <1>12 DEF ResetSession
<1>13. CASE Rescore
  BY <1>13 DEF Rescore, Writes
<1>14. CASE \E act \in {0, 1} : JudgeFrame(act)
  BY <1>14 DEF JudgeFrame
<1>15. CASE \E result \in Results : PostSegment(result)
  BY <1>15 DEF PostSegment
<1>16. CASE \E result \in Results : PostPreview(result)
  BY <1>16 DEF PostPreview
<1>17. CASE \E result \in Results : PostWhole(result)
  BY <1>17 DEF PostWhole
<1> QED
  BY <1>1, <1>2, <1>3, <1>4, <1>5, <1>6, <1>7, <1>8, <1>9, <1>10, <1>11, <1>12, <1>13,
     <1>14, <1>15, <1>16, <1>17
  DEF Decoder

-----------------------------------------------------------------------------
\* The reading thread that has seen the end of the recording only waits, and then
\* only a post ends the process; a handler is destroyed either with an idle decoding
\* thread or with the process.
ControlInv ==
  /\ got_end_tag_ \in BOOLEAN
  /\ got_end_tag_ => r_pc \in {"join", "done"}
  /\ got_end_tag_ => proc \in {"up", "killed"}
  /\ r_pc = "done" /\ proc = "up" => Idle

\* ControlInv is an invariant, and inductive.
LEMMA ControlInductive == Spec => []ControlInv
<1>1. Init => ControlInv
  BY DEF Init, ControlInv, Idle
<1>2. ASSUME ControlInv, [Next]_vars
      PROVE  ControlInv'
  <2> USE <1>2 DEF ControlInv, Idle, ReaderStep
  <2>1. CASE Decoder
    BY <2>1, DecoderFrame, DecoderFaults
  <2>2. CASE Break
    BY <2>2 DEF Break
  <2>3. CASE Finished \/ UNCHANGED vars
    BY <2>3 DEF Finished, vars
  <2>4. CASE Accept
    BY <2>4 DEF Accept, Moves
  <2>5. CASE ReadThrows
    BY <2>5 DEF ReadThrows, Moves
  <2>6. CASE OnSpeechStart
    BY <2>6 DEF OnSpeechStart
  <2>7. CASE OnError
    BY <2>7 DEF OnError
  <2>8. CASE AppendSample
    BY <2>8 DEF AppendSample
  <2>9. CASE PushRange
    BY <2>9 DEF PushRange, MarksRange
  <2>10. CASE Join
    BY <2>10 DEF Join, Moves, Returned
  <2>11. CASE Unwind
    BY <2>11 DEF Unwind
  <2>12. CASE ReceiveStart
    BY <2>12 DEF ReceiveStart, ReadsText
  <2>13. CASE OnSpeechEnd
    BY <2>13 DEF OnSpeechEnd, EndsWith, ReadsText
  <2>14. CASE ReceiveWrong
    BY <2>14 DEF ReceiveWrong, ReadsText, Moves
  <2>15. ASSUME NEW n \in Chunks, ReceiveBinary(n)
       PROVE  ControlInv'
    BY <2>15 DEF ReceiveBinary
  <2> QED
    BY <2>1, <2>2, <2>3, <2>4, <2>5, <2>6, <2>7, <2>8, <2>9, <2>10, <2>11, <2>12, <2>13,
       <2>14, <2>15
    DEF Next, Reader, Receive
<1> QED
  BY <1>1, <1>2, PTL DEF Spec

\* Once a session has received the end of the recording, whatever the client does
\* then, it takes the process down in one way only: with a post that raises SIGPIPE.
THEOREM EndIsSafeButPosts == Spec => []OnlyPostsKillAfterEnd
<1>1. ControlInv => OnlyPostsKillAfterEnd
  BY DEF ControlInv, OnlyPostsKillAfterEnd
<1> QED
  BY <1>1, ControlInductive, PTL

\* The decoding thread never works on a handler that was destroyed.
THEOREM HandlerOutlivesDecoder == Spec => []OutlivesDecoder
<1>1. ControlInv => OutlivesDecoder
  BY DEF ControlInv, OutlivesDecoder, Idle, Returned
<1> QED
  BY <1>1, ControlInductive, PTL
-----------------------------------------------------------------------------
\* The life of the session, as ImplementsLife maps it.
LifeOf(reader, decoder) ==
  [reader  |-> IF reader = "done" THEN "done" ELSE "running",
   decoder |-> CASE decoder = "off"        -> "off"
                 [] decoder \in Returned -> "over"
                 [] OTHER                  -> "running"]

\* A step of the session is one of SessionLife, or leaves the life as it is.
LifeStep ==
  \/ proc = "up" /\ ServerView!StepsTo(LifeOf(r_pc, d_pc), LifeOf(r_pc', d_pc'), proc')
  \/ r_pc' # "done" /\ r_pc # "done" /\ UNCHANGED <<d_pc, proc>>
  \/ UNCHANGED <<LifeOf(r_pc, d_pc), proc>>

\* Every step does that.
LEMMA StepsAreLife ==
  ASSUME ControlInv, [Next]_vars
  PROVE  LifeStep
<1> USE DEF LifeStep, ReaderStep
<1> USE DEF ServerView!StepsTo, ServerView!Starts, ServerView!Returns, ServerView!Ends,
            ServerView!Terminates, ServerView!Dies, ServerView!Born
<1>1. CASE Decoder
  <2>1. /\ d_pc \notin {"off", "done", "failed", "thrown"} /\ d_pc' # "off"
        /\ proc = "up" /\ proc' \in {"up", "killed", "fault"} /\ r_pc' = r_pc
    BY <1>1, DecoderFrame DEF Idle
  <2>2. r_pc # "done"
    BY <2>1 DEF ControlInv, Idle
  <2> QED
    BY <2>1, <2>2 DEF LifeOf, Returned
<1>2. CASE Break
  BY <1>2 DEF Break
<1>3. CASE Finished \/ UNCHANGED vars
  BY <1>3 DEF Finished, vars
<1>4. CASE Accept
  BY <1>4 DEF Accept, Moves
<1>5. CASE ReadThrows
  BY <1>5 DEF ReadThrows, Moves
<1>6. CASE OnSpeechStart
  BY <1>6 DEF OnSpeechStart, LifeOf, Returned
<1>7. CASE OnError
  BY <1>7 DEF OnError
<1>8. CASE AppendSample
  BY <1>8 DEF AppendSample
<1>9. CASE PushRange
  BY <1>9 DEF PushRange, MarksRange
<1>10. CASE Join
  BY <1>10 DEF Join, Moves, LifeOf, Returned
<1>11. CASE Unwind
  BY <1>11 DEF Unwind, LifeOf, Returned
<1>12. CASE ReceiveStart
  BY <1>12 DEF ReceiveStart, ReadsText
<1>13. CASE OnSpeechEnd
  BY <1>13 DEF OnSpeechEnd, EndsWith, ReadsText
<1>14. CASE ReceiveWrong
  BY <1>14 DEF ReceiveWrong, ReadsText, Moves
<1>15. ASSUME NEW n \in Chunks, ReceiveBinary(n)
     PROVE  LifeStep
  BY <1>15 DEF ReceiveBinary
<1> QED
  BY <1>1, <1>2, <1>3, <1>4, <1>5, <1>6, <1>7, <1>8, <1>9, <1>10, <1>11, <1>12, <1>13,
     <1>14, <1>15
  DEF Next, Reader, Receive

\* A session lives as the server's model of it says.
THEOREM LivesAsPromised == Spec => ImplementsLife
<1>1. Init => ServerView!Init
  BY DEF Init, ServerView!Init, ServerView!Born, Returned
<1>2. ASSUME ControlInv, [Next]_vars
      PROVE  [ServerView!Next]_<<LifeOf(r_pc, d_pc), proc>>
  BY <1>2, StepsAreLife DEF LifeStep, ServerView!Next, LifeOf
<1> QED
  BY <1>1, <1>2, ControlInductive, PTL
  DEF Spec, ImplementsLife, ServerView!Spec, LifeOf
-----------------------------------------------------------------------------
\* If state_ does not start as 2 or 3, it is 3 only when the reading thread has
\* left its loop, and so the decoding thread is in its final branch only then.
FinalInv ==
  /\ state_ \in {0, 1, 3}
  /\ state_ = 3 => r_pc \in {"join", "done"}
  /\ Finalising => r_pc = "join"

\* FinalInv is preserved by the decoding thread.
LEMMA FinalInvDecoder ==
  ASSUME ControlInv, FinalInv, Decoder
  PROVE  FinalInv'
<1>1. /\ ~ Idle /\ proc = "up" /\ r_pc' = r_pc /\ r_pc # "done" /\ state_' = state_
  BY DecoderFrame DEF ControlInv
<1> USE <1>1 DEF FinalInv, Finalising, DecoderStep, Goto
<1>2. CASE LoadCurSize
  BY <1>2 DEF LoadCurSize
<1>3. CASE EndRecording
  BY <1>3 DEF EndRecording
<1>4. CASE Turn
  BY <1>4 DEF Turn
<1>5. CASE TakeRanges
  BY <1>5 DEF TakeRanges, Takes
<1>6. CASE LoadNumSamples
  BY <1>6 DEF LoadNumSamples, Looks
<1>7. CASE SkipSegment
  BY <1>7 DEF SkipSegment, AtSegment
<1>8. CASE WriteSegments
  BY <1>8 DEF WriteSegments, Writes
<1>9. CASE NoteSegments
  BY <1>9 DEF NoteSegments
<1>10. CASE WritePreview
  BY <1>10 DEF WritePreview, Writes
<1>11. CASE WriteFinal
  BY <1>11 DEF WriteFinal, Writes
<1>12. CASE WriteEnd
  BY <1>12 DEF WriteEnd, Writes
<1>13. CASE ResetSession
  BY <1>13 DEF ResetSession
<1>14. CASE Rescore
  BY <1>14 DEF Rescore, Writes
<1>15. CASE \E act \in {0, 1} : JudgeFrame(act)
  BY <1>15 DEF JudgeFrame
<1>16. CASE \E result \in Results : PostSegment(result)
  BY <1>16 DEF PostSegment, AtSegment
<1>17. CASE \E result \in Results : PostPreview(result)
  BY <1>17 DEF PostPreview
<1>18. CASE \E result \in Results : PostWhole(result)
  BY <1>18 DEF PostWhole
<1> QED
  BY <1>2, <1>3, <1>4, <1>5, <1>6, <1>7, <1>8, <1>9, <1>10, <1>11, <1>12, <1>13, <1>14,
     <1>15, <1>16, <1>17, <1>18
  DEF Decoder

\* FinalInv is an invariant, given ControlInv.
LEMMA FinalInductive ==
  ASSUME Uninit \subseteq {0, 1}
  PROVE  Spec => []FinalInv
<1>1. Init => FinalInv
  BY DEF Init, FinalInv, Finalising
<1>2. ASSUME ControlInv, FinalInv, [Next]_vars
      PROVE  FinalInv'
  <2> USE <1>2 DEF FinalInv, Finalising, ReaderStep
  <2>1. CASE Decoder
    BY <2>1, FinalInvDecoder
  <2>2. CASE Break
    BY <2>2 DEF Break
  <2>3. CASE Finished \/ UNCHANGED vars
    BY <2>3 DEF Finished, vars
  <2>4. CASE Accept
    BY <2>4 DEF Accept, Moves
  <2>5. CASE ReadThrows
    BY <2>5 DEF ReadThrows, Moves
  <2>6. CASE OnSpeechStart
    BY <2>6 DEF OnSpeechStart
  <2>7. CASE OnError
    BY <2>7 DEF OnError
  <2>8. CASE AppendSample
    BY <2>8 DEF AppendSample
  <2>9. CASE PushRange
    BY <2>9 DEF PushRange, MarksRange
  <2>10. CASE Join
    BY <2>10 DEF Join, Moves, Returned, Idle
  <2>11. CASE Unwind
    BY <2>11 DEF Unwind
  <2>12. CASE ReceiveStart
    BY <2>12 DEF ReceiveStart, ReadsText
  <2>13. CASE OnSpeechEnd
    BY <2>13 DEF OnSpeechEnd, EndsWith, ReadsText
  <2>14. CASE ReceiveWrong
    BY <2>14 DEF ReceiveWrong, ReadsText, Moves
  <2>15. ASSUME NEW n \in Chunks, ReceiveBinary(n)
       PROVE  FinalInv'
    BY <2>15 DEF ReceiveBinary
  <2> QED
    BY <2>1, <2>2, <2>3, <2>4, <2>5, <2>6, <2>7, <2>8, <2>9, <2>10, <2>11, <2>12, <2>13,
       <2>14, <2>15
    DEF Next, Reader, Receive
<1> QED
  BY <1>1, <1>2, ControlInductive, PTL DEF Spec

\* If the memory of state_ does not happen to hold 2 or 3, the work on the whole
\* recording races with nothing: the reading thread is waiting at the join from
\* before it begins until after the reset.
THEOREM FinalIsUndisturbed ==
  ASSUME Uninit \subseteq {0, 1}
  PROVE  Spec => []FinalUndisturbed
<1>1. FinalInv => FinalUndisturbed
  BY DEF FinalInv, FinalUndisturbed
<1> QED
  BY <1>1, FinalInductive, PTL
-----------------------------------------------------------------------------
\* A client that follows the protocol gets no error message, and its start
\* signal is answered before the decoding thread exists.
PoliteInv ==
  /\ r_pc # "error"
  /\ r_pc \in {"accept", "ready"} => d_pc = "off"
  /\ ~ got_start_tag_ => d_pc = "off"
  /\ r_pc = "ready" => got_start_tag_
  /\ got_start_tag_ \in BOOLEAN

\* PoliteInv is an invariant, and inductive.
LEMMA PoliteInductive ==
  ASSUME Polite = TRUE
  PROVE  Spec => []PoliteInv
<1>1. Init => PoliteInv
  BY DEF Init, PoliteInv
<1>2. ASSUME PoliteInv, [Next]_vars
      PROVE  PoliteInv'
  <2> USE <1>2 DEF PoliteInv, ReaderStep
  <2>1. CASE Decoder
    BY <2>1, DecoderFrame DEF Idle
  <2>2. CASE Break
    BY <2>2 DEF Break
  <2>3. CASE Finished \/ UNCHANGED vars
    BY <2>3 DEF Finished, vars
  <2>4. CASE Accept
    BY <2>4 DEF Accept, Moves
  <2>5. CASE ReadThrows
    BY <2>5 DEF ReadThrows, Moves
  <2>6. CASE OnSpeechStart
    BY <2>6 DEF OnSpeechStart
  <2>7. CASE OnError
    BY <2>7 DEF OnError
  <2>8. CASE AppendSample
    BY <2>8 DEF AppendSample
  <2>9. CASE PushRange
    BY <2>9 DEF PushRange, MarksRange
  <2>10. CASE Join
    BY <2>10 DEF Join, Moves
  <2>11. CASE Unwind
    BY <2>11 DEF Unwind
  <2>12. CASE ReceiveStart
    BY <2>12 DEF ReceiveStart, ReadsText
  <2>13. CASE OnSpeechEnd
    BY <2>13 DEF OnSpeechEnd, EndsWith, ReadsText
  <2>14. CASE ReceiveWrong
    BY <2>14 DEF ReceiveWrong, ReadsText, Moves
  <2>15. ASSUME NEW n \in Chunks, ReceiveBinary(n)
       PROVE  PoliteInv'
    BY <2>15 DEF ReceiveBinary
  <2> QED
    BY <2>1, <2>2, <2>3, <2>4, <2>5, <2>6, <2>7, <2>8, <2>9, <2>10, <2>11, <2>12, <2>13,
       <2>14, <2>15
    DEF Next, Reader, Receive
<1> QED
  BY <1>1, <1>2, PTL DEF Spec

\* With a client that follows the protocol, the two threads never write to the
\* stream at the same time.
THEOREM WritesAreExclusive ==
  ASSUME Polite = TRUE
  PROVE  Spec => []WritesExclusive
<1>1. PoliteInv => WritesExclusive
  BY DEF PoliteInv, WritesExclusive, ReaderWrites, DecoderWrites
<1> QED
  BY <1>1, PoliteInductive, PTL
-----------------------------------------------------------------------------
(***************************************************************************)
(* What the decoding thread reads and how often.  The argument needs the   *)
(* types of what it works with, that the ends of the ranges only grow and  *)
(* lie within the samples, and that the counters of the thread agree with  *)
(* the last range taken, over all turns of its loop.                       *)
(***************************************************************************)
\* add_act adds one frame and keeps the object's types.
LEMMA AddActType ==
  ASSUME NEW a \in ActsObject, NEW act \in {0, 1}
  PROVE  /\ add_act(a, act) \in ActsObject
         /\ add_act(a, act).acts_ = Append(a.acts_, act)
<1> DEFINE acts   == Append(a.acts_, act)
           f      == Len(a.acts_)
           status == check_window(acts, f \div Window)
           sts    == IF StartsSegment(a, status) THEN Append(a.seg_sts_, f) ELSE a.seg_sts_
           ends   == IF EndsSegment(a, f, status) THEN Append(a.seg_ends_, f) ELSE a.seg_ends_
           last   == IF EndsSegment(a, f, status) THEN f ELSE a.last_seg_idx_
<1>1. acts \in Seq({0, 1}) /\ f \in Nat
  BY DEF ActsObject
<1>2. status \in {Mixed, Active, Silent}
  BY DEF check_window
<1> HIDE DEF status
<1>3. /\ sts \in Seq(Nat) /\ ends \in Seq(Nat) /\ last \in Nat
      /\ Append(a.wind_stats_, status) \in Seq({Mixed, Active, Silent})
  BY <1>1, <1>2 DEF ActsObject
<1>4. add_act(a, act) = IF Len(acts) % Window # 0
                        THEN [a EXCEPT !.acts_ = acts]
                        ELSE [acts_         |-> acts,
                              wind_stats_   |-> Append(a.wind_stats_, status),
                              seg_sts_      |-> sts,
                              seg_ends_     |-> ends,
                              last_seg_idx_ |-> last]
  BY DEF add_act, status
<1> HIDE DEF acts, sts, ends, last
<1>5. CASE Len(acts) % Window # 0
  <2>1. add_act(a, act) = [a EXCEPT !.acts_ = acts]
    BY <1>4, <1>5
  <2> QED
    BY <2>1, <1>1 DEF ActsObject, acts
<1>6. CASE ~ (Len(acts) % Window # 0)
  <2>1. add_act(a, act) = [acts_         |-> acts,
                           wind_stats_   |-> Append(a.wind_stats_, status),
                           seg_sts_      |-> sts,
                           seg_ends_     |-> ends,
                           last_seg_idx_ |-> last]
    BY <1>4, <1>6
  <2> QED
    BY <2>1, <1>1, <1>3 DEF ActsObject, acts
<1> QED
  BY <1>5, <1>6

\* end adds no frame and keeps the object's types, if frames came before a start.
LEMMA EndType ==
  ASSUME NEW a \in ActsObject, Len(a.seg_sts_) > 0 => Len(a.acts_) > 0
  PROVE  /\ end(a) \in ActsObject
         /\ end(a).acts_ = a.acts_
         /\ end(a).seg_sts_ = a.seg_sts_
<1> DEFINE n      == Len(a.acts_)
           st     == Last(a.seg_sts_)
           closes == n - st > MinTail /\ PercentAbove(a.acts_, st, n - 1, 1, 2)
           ends   == IF closes THEN Append(a.seg_ends_, n - 1) ELSE a.seg_ends_
<1>1. CASE ~ IsOpen(a)
  BY <1>1 DEF end
<1>2. CASE IsOpen(a)
  <2>1. n - 1 \in Nat
    BY <1>2 DEF IsOpen, ActsObject
  <2>2. ends \in Seq(Nat)
    BY <2>1 DEF ActsObject
  <2>3. end(a) = [a EXCEPT !.seg_ends_ = ends, !.last_seg_idx_ = n - 1]
    BY <1>2 DEF end
  <2> HIDE DEF ends
  <2> QED
    BY <2>1, <2>2, <2>3 DEF ActsObject
<1> QED
  BY <1>1, <1>2

\* The types of what the decoding thread works with.
WorkTypes ==
  /\ samples \in Nat
  /\ ranges \in Seq(Int)
  /\ d_pc \in DecoderPcs
  /\ num_samples \in Nat
  /\ i \in Nat
  /\ last_frame_ \in Nat
  /\ last_nranges_ \in Nat
  /\ nseg_done_ \in Nat
  /\ acts_ \in ActsObject
  /\ Len(acts_.seg_sts_) > 0 => Len(acts_.acts_) > 0

\* The ends of the ranges only grow, and lie within the samples received.
RangesInv ==
  /\ \A k \in 1..Len(ranges) : -1 <= ranges[k] /\ ranges[k] + 1 <= samples
  /\ \A k, l \in 1..Len(ranges) : k <= l => ranges[k] <= ranges[l]

\* The frames judged are those complete at the last range taken, or in the loop
\* over them i of these.
JudgedInv ==
  /\ last_nranges_ <= Len(ranges)
  /\ d_pc \in {"vad", "seg", "seg_write", "temp"} => last_nranges_ > 0
  /\ d_pc = "vad" => i <= nframes /\ Len(acts_.acts_) = i
  /\ d_pc # "vad" => /\ last_frame_ = IF last_nranges_ = 0 THEN 0 ELSE nframes
                     /\ Len(acts_.acts_) = last_frame_

\* The reset empties the samples under the ranges, and nothing is read after it.
WorkInv ==
  /\ WorkTypes
  /\ d_pc # "done" => RangesInv /\ JudgedInv

\* A larger number has at least as large a quotient.
LEMMA QuotientGrows ==
  ASSUME NEW k \in Nat \ {0}, NEW m \in Nat, NEW n \in Nat, m <= n
  PROVE  /\ m \div k \in Nat
         /\ m \div k <= n \div k
         /\ (m \div k) * k <= m
<1> DEFINE q == m \div k
           r == m % k
           p == n \div k
           s == n % k
<1>1. q \in Nat /\ r \in 0..(k - 1) /\ m = k * q + r
  OBVIOUS
<1>2. p \in Nat /\ s \in 0..(k - 1) /\ n = k * p + s
  OBVIOUS
<1> HIDE DEF q, r, p, s
<1>3. q <= p
  <2>1. SUFFICES ASSUME p + 1 <= q
                 PROVE  FALSE
    BY <1>1, <1>2
  <2>2. k * (p + 1) <= k * q /\ k * (p + 1) = k * p + k
    BY <1>1, <1>2, <2>1
  <2> QED
    BY <1>1, <1>2, <2>2
<1>4. q * k <= m
  BY <1>1
<1> QED
  BY <1>1, <1>3, <1>4 DEF q, p

\* The frames complete at the last range taken, and at any that came before.
LEMMA FramesOfRanges ==
  ASSUME WorkTypes, RangesInv, NEW k \in 1..Len(ranges), NEW l \in 1..Len(ranges), k <= l
  PROVE  LET frames(n) == (ranges[n] + 1) \div SamplesPerFrame
         IN  /\ frames(k) \in Nat
             /\ frames(k) <= frames(l)
             /\ frames(k) * SamplesPerFrame <= samples
<1>1. /\ ranges[k] + 1 \in Nat /\ ranges[l] + 1 \in Nat
      /\ ranges[k] + 1 <= ranges[l] + 1
      /\ ranges[k] + 1 <= samples
  <2>1. ranges[k] \in Int /\ ranges[l] \in Int
    BY DEF WorkTypes
  <2> QED
    BY <2>1 DEF RangesInv
<1>2. SamplesPerFrame \in Nat \ {0} /\ samples \in Nat
  BY SessionAssumption DEF WorkTypes
<1> DEFINE m == ranges[k] + 1
           n == ranges[l] + 1
<1>3. /\ m \div SamplesPerFrame \in Nat
      /\ m \div SamplesPerFrame <= n \div SamplesPerFrame
      /\ (m \div SamplesPerFrame) * SamplesPerFrame <= m
  BY <1>1, <1>2, QuotientGrows
<1>4. (m \div SamplesPerFrame) * SamplesPerFrame \in Nat
  BY <1>2, <1>3
<1> QED
  BY <1>1, <1>2, <1>3, <1>4

\* WorkInv is enough for what is passed to the VAD and for the previews to lie
\* within the samples.
LEMMA JudgedInBounds ==
  ASSUME WorkInv
  PROVE  /\ d_pc = "vad" /\ i < nframes => (i + 1) * SamplesPerFrame <= samples
         /\ d_pc = "temp" => end_spl_idx <= samples
<1> USE DEF WorkInv
<1>1. SamplesPerFrame \in Nat \ {0}
  BY SessionAssumption
<1>2. d_pc = "vad" /\ i < nframes => (i + 1) * SamplesPerFrame <= samples
  <2> SUFFICES ASSUME d_pc = "vad", i < nframes
               PROVE  (i + 1) * SamplesPerFrame <= samples
    OBVIOUS
  <2>1. last_nranges_ \in 1..Len(ranges)
    BY DEF JudgedInv, WorkTypes
  <2>2. nframes \in Nat /\ nframes * SamplesPerFrame <= samples
    BY <2>1, FramesOfRanges DEF nframes, end_spl_idx
  <2> DEFINE f == nframes
  <2>3. i \in Nat /\ samples \in Nat /\ f \in Nat /\ i + 1 <= f /\ f * SamplesPerFrame <= samples
    BY <2>2 DEF WorkTypes
  <2> HIDE DEF f
  <2>4. (i + 1) * SamplesPerFrame <= f * SamplesPerFrame
    BY <1>1, <2>3
  <2> QED
    BY <1>1, <2>3, <2>4
<1>3. d_pc = "temp" => end_spl_idx <= samples
  <2> SUFFICES ASSUME d_pc = "temp"
               PROVE  end_spl_idx <= samples
    OBVIOUS
  <2>1. last_nranges_ \in 1..Len(ranges) /\ samples \in Nat /\ ranges[last_nranges_] \in Int
    BY DEF JudgedInv, WorkTypes
  <2> QED
    BY <2>1 DEF RangesInv, end_spl_idx
<1> QED
  BY <1>2, <1>3

-----------------------------------------------------------------------------
\* A step of the reading thread that adds no sample and no range.
LEMMA WorkKept ==
  ASSUME WorkInv, UNCHANGED <<samples, ranges, num_samples, i, work>>,
         d_pc' = d_pc \/ (d_pc = "off" /\ d_pc' = "top")
  PROVE  WorkInv'
BY DEF WorkInv, WorkTypes, RangesInv, JudgedInv, nframes, end_spl_idx, work, DecoderPcs

\* One more sample.
LEMMA WorkAppend ==
  ASSUME WorkInv, AppendSample
  PROVE  WorkInv'
<1>1. /\ samples' = samples + 1
      /\ UNCHANGED <<ranges, num_samples, i, work, d_pc>>
  BY DEF AppendSample, ReaderStep
<1>2. WorkTypes'
  BY <1>1 DEF WorkInv, WorkTypes, work
<1>3. ASSUME d_pc # "done"
      PROVE  RangesInv' /\ JudgedInv'
  <2>1. /\ \A k \in 1..Len(ranges) : ranges[k] \in Int
        /\ samples \in Nat /\ num_samples \in Nat
    BY DEF WorkInv, WorkTypes
  <2>2. RangesInv'
    BY <1>1, <1>3, <2>1 DEF WorkInv, RangesInv
  <2>3. JudgedInv'
    BY <1>1, <1>3, <2>1 DEF WorkInv, JudgedInv, nframes, end_spl_idx, work
  <2> QED
    BY <2>2, <2>3
<1> QED
  BY <1>1, <1>2, <1>3 DEF WorkInv

\* The range of the message that is complete.
LEMMA WorkPush ==
  ASSUME WorkInv, PushRange
  PROVE  WorkInv'
<1>1. /\ ranges' = Append(ranges, samples - 1)
      /\ UNCHANGED <<samples, num_samples, i, work, d_pc>>
  BY DEF PushRange, MarksRange, ReaderStep
<1>2. samples \in Nat /\ ranges \in Seq(Int) /\ last_nranges_ \in Nat
  BY DEF WorkInv, WorkTypes
<1>3. /\ ranges' \in Seq(Int)
      /\ Len(ranges') = Len(ranges) + 1
      /\ Len(ranges) \in Nat
      /\ ranges'[Len(ranges) + 1] = samples - 1
      /\ \A k \in 1..Len(ranges) : ranges'[k] = ranges[k] /\ ranges[k] \in Int
  BY <1>1, <1>2
<1>4. WorkTypes'
  BY <1>1, <1>3 DEF WorkInv, WorkTypes, work
<1>5. ASSUME d_pc # "done"
      PROVE  RangesInv' /\ JudgedInv'
  <2>1. RangesInv /\ JudgedInv
    BY <1>5 DEF WorkInv
  <2>2. \A k \in 1..Len(ranges') : k \in 1..Len(ranges) \/ k = Len(ranges) + 1
    BY <1>3
  <2>3. ASSUME NEW k \in 1..Len(ranges')
        PROVE  -1 <= ranges'[k] /\ ranges'[k] + 1 <= samples
    <3>1. CASE k \in 1..Len(ranges)
      <4>1. -1 <= ranges[k] /\ ranges[k] + 1 <= samples
        BY <2>1, <3>1 DEF RangesInv
      <4> QED
        BY <1>3, <3>1, <4>1
    <3>2. CASE k = Len(ranges) + 1
      BY <1>2, <1>3, <3>2
    <3> QED
      BY <2>2, <3>1, <3>2
  <2>4. ASSUME NEW k \in 1..Len(ranges'), NEW l \in 1..Len(ranges'), k <= l
        PROVE  ranges'[k] <= ranges'[l]
    <3>1. CASE l \in 1..Len(ranges)
      <4>1. k \in 1..Len(ranges)
        BY <1>3, <2>4, <3>1
      <4> QED
        BY <1>3, <2>1, <2>4, <3>1, <4>1 DEF RangesInv
    <3>2. CASE l = Len(ranges) + 1
      <4>1. ranges'[l] = samples - 1 /\ ranges'[k] \in Int
        BY <1>2, <1>3, <2>2, <3>2
      <4> QED
        BY <1>2, <2>3, <4>1
    <3> QED
      BY <2>2, <3>1, <3>2
  <2>5. RangesInv'
    BY <1>1, <2>3, <2>4 DEF RangesInv
  <2>6. last_nranges_ > 0 => ranges'[last_nranges_] = ranges[last_nranges_]
    BY <1>2, <1>3, <2>1 DEF JudgedInv
  <2>7. last_nranges_ > 0 => nframes' = nframes
    BY <1>1, <2>6 DEF nframes, end_spl_idx, work
  <2>8. JudgedInv'
    BY <1>1, <1>2, <1>3, <2>1, <2>7 DEF JudgedInv, work
  <2> QED
    BY <2>5, <2>8
<1> QED
  BY <1>1, <1>4, <1>5 DEF WorkInv

\* The decoding thread takes the ranges that are there.
LEMMA WorkTakes ==
  ASSUME WorkInv, TakeRanges
  PROVE  WorkInv'
<1>1. /\ d_pc = "test" /\ d_pc' = "vad"
      /\ last_nranges_ < Len(ranges) /\ last_nranges_' = Len(ranges)
      /\ i' = last_frame_ /\ num_samples' = 0
      /\ UNCHANGED <<samples, ranges, last_frame_, nseg_done_, acts_>>
  BY DEF TakeRanges, Takes, DecoderStep, Goto
<1>2. WorkTypes /\ RangesInv /\ JudgedInv
  BY <1>1 DEF WorkInv
<1>3. last_nranges_ \in Nat /\ Len(ranges) \in Nat
  BY <1>2 DEF WorkTypes
<1>4. WorkTypes'
  BY <1>1, <1>2, <1>3 DEF WorkTypes, DecoderPcs
<1>5. Len(ranges) \in 1..Len(ranges)
  BY <1>1, <1>3
<1>6. nframes' = (ranges[Len(ranges)] + 1) \div SamplesPerFrame
  BY <1>1 DEF nframes, end_spl_idx
<1>7. last_frame_ <= nframes'
  <2>1. CASE last_nranges_ = 0
    <3>1. nframes' \in Nat /\ last_frame_ = 0
      BY <1>1, <1>2, <1>5, <1>6, <2>1, FramesOfRanges DEF JudgedInv
    <3> QED
      BY <3>1
  <2>2. CASE last_nranges_ # 0
    <3>1. last_nranges_ \in 1..Len(ranges) /\ last_nranges_ <= Len(ranges)
      BY <1>1, <1>3, <2>2
    <3>2. last_frame_ = (ranges[last_nranges_] + 1) \div SamplesPerFrame
      BY <1>1, <1>2, <2>2 DEF JudgedInv, nframes, end_spl_idx
    <3> QED
      BY <1>2, <1>5, <1>6, <3>1, <3>2, FramesOfRanges
  <2> QED
    BY <2>1, <2>2
<1>8. Len(acts_.acts_) = last_frame_
  BY <1>1, <1>2 DEF JudgedInv
<1>9. RangesInv'
  BY <1>1, <1>2 DEF RangesInv
<1>10. JudgedInv'
  BY <1>1, <1>3, <1>7, <1>8 DEF JudgedInv
<1> QED
  BY <1>4, <1>9, <1>10 DEF WorkInv

\* It judges a frame.
LEMMA WorkJudges ==
  ASSUME WorkInv, NEW act \in {0, 1}, JudgeFrame(act)
  PROVE  WorkInv'
<1>1. /\ d_pc = "vad" /\ d_pc' = "vad" /\ i < nframes
      /\ acts_' = add_act(acts_, act)
      /\ i' = i + 1 /\ num_samples' = 0
      /\ UNCHANGED <<samples, ranges, last_frame_, last_nranges_, nseg_done_>>
  BY DEF JudgeFrame, DecoderStep, Goto
<1>2. WorkTypes /\ RangesInv /\ JudgedInv
  BY <1>1 DEF WorkInv
<1>3. /\ acts_' \in ActsObject
      /\ acts_'.acts_ = Append(acts_.acts_, act)
  BY <1>1, <1>2, AddActType DEF WorkTypes
<1>4. Len(acts_'.acts_) = Len(acts_.acts_) + 1 /\ Len(acts_.acts_) \in Nat
  BY <1>2, <1>3 DEF WorkTypes, ActsObject
<1>5. WorkTypes'
  BY <1>1, <1>2, <1>3, <1>4 DEF WorkTypes, DecoderPcs
<1>6. nframes' = nframes
  BY <1>1 DEF nframes, end_spl_idx
<1>7. nframes \in Nat
  <2>1. last_nranges_ \in 1..Len(ranges)
    BY <1>1, <1>2 DEF JudgedInv, WorkTypes
  <2> QED
    BY <1>2, <2>1, FramesOfRanges DEF nframes, end_spl_idx
<1>8. RangesInv'
  BY <1>1, <1>2 DEF RangesInv
<1>9. i \in Nat /\ Len(acts_.acts_) = i /\ last_nranges_ > 0 /\ last_nranges_ <= Len(ranges)
  BY <1>1, <1>2 DEF JudgedInv, WorkTypes
<1>10. JudgedInv'
  BY <1>1, <1>4, <1>6, <1>7, <1>9 DEF JudgedInv
<1> QED
  BY <1>5, <1>8, <1>10 DEF WorkInv

\* A size that is loaded is a number, right or wrong.
LEMMA LoadsAreNumbers == samples \in Nat => \A n \in SizeLoads : n \in Nat
BY SessionAssumption DEF SizeLoads

\* It has judged the frames, and notes how many.
LEMMA WorkLooks ==
  ASSUME WorkInv, LoadNumSamples
  PROVE  WorkInv'
<1>1. PICK n \in SizeLoads :
        /\ d_pc = "vad" /\ d_pc' = "seg" /\ i >= nframes
        /\ last_frame_' = nframes
        /\ i' = nseg_done_ /\ num_samples' = n
        /\ UNCHANGED <<samples, ranges, last_nranges_, nseg_done_, acts_>>
  BY DEF LoadNumSamples, Looks, DecoderStep, Goto
<1>2. WorkTypes /\ RangesInv /\ JudgedInv
  BY <1>1 DEF WorkInv
<1>3. n \in Nat /\ i \in Nat
  BY <1>2, LoadsAreNumbers DEF WorkTypes
<1>4. i <= nframes /\ Len(acts_.acts_) = i /\ last_nranges_ > 0 /\ last_nranges_ <= Len(ranges)
  BY <1>1, <1>2 DEF JudgedInv
<1>5. nframes \in Nat
  <2>1. last_nranges_ \in 1..Len(ranges)
    BY <1>2, <1>4 DEF WorkTypes
  <2> QED
    BY <1>2, <2>1, FramesOfRanges DEF nframes, end_spl_idx
<1>6. WorkTypes'
  BY <1>1, <1>2, <1>3, <1>5 DEF WorkTypes, DecoderPcs
<1>7. RangesInv'
  BY <1>1, <1>2 DEF RangesInv
<1>8. nframes' = nframes /\ i = nframes /\ last_nranges_ # 0
  <2>1. nframes' = nframes
    BY <1>1 DEF nframes, end_spl_idx
  <2>2. last_nranges_ \in Nat
    BY <1>2 DEF WorkTypes
  <2> QED
    BY <1>1, <1>3, <1>4, <1>5, <2>1, <2>2
<1>9. JudgedInv'
  BY <1>1, <1>3, <1>4, <1>8 DEF JudgedInv
<1> QED
  BY <1>6, <1>7, <1>9 DEF WorkInv

\* The end of the recording adds no frame.
LEMMA WorkEnds ==
  ASSUME WorkInv, EndRecording
  PROVE  WorkInv'
<1>1. /\ d_pc = "test" /\ d_pc' = "last"
      /\ acts_' = end(acts_)
      /\ i' = nseg_done_ /\ num_samples' = num_samples
      /\ UNCHANGED <<samples, ranges, last_frame_, last_nranges_, nseg_done_>>
  BY DEF EndRecording, DecoderStep, Goto
<1>2. WorkTypes /\ RangesInv /\ JudgedInv
  BY <1>1 DEF WorkInv
<1>3. /\ acts_' \in ActsObject
      /\ acts_'.acts_ = acts_.acts_
      /\ acts_'.seg_sts_ = acts_.seg_sts_
  BY <1>1, <1>2, EndType DEF WorkTypes
<1>4. WorkTypes'
  BY <1>1, <1>2, <1>3 DEF WorkTypes, DecoderPcs
<1>5. RangesInv'
  BY <1>1, <1>2 DEF RangesInv
<1>6. nframes' = nframes
  BY <1>1 DEF nframes, end_spl_idx
<1>7. JudgedInv'
  BY <1>1, <1>2, <1>3, <1>6 DEF JudgedInv
<1> QED
  BY <1>4, <1>5, <1>7 DEF WorkInv

\* A step of the decoding thread between these: it moves on and touches nothing
\* else that counts.
Passes ==
  /\ d_pc \notin {"vad", "done", "off"} /\ d_pc' \in DecoderPcs \ {"vad", "off"}
  /\ d_pc' \in {"seg", "seg_write", "temp"} => d_pc \in {"seg", "seg_write", "temp"}
  /\ i' \in Nat /\ nseg_done_' \in Nat /\ num_samples' \in Nat
  /\ UNCHANGED <<samples, ranges, last_frame_, last_nranges_, acts_>>

LEMMA WorkPasses ==
  ASSUME WorkInv, Passes
  PROVE  WorkInv'
<1>1. WorkTypes /\ RangesInv /\ JudgedInv
  BY DEF WorkInv, Passes
<1>2. WorkTypes'
  BY <1>1 DEF WorkTypes, Passes
<1>3. RangesInv'
  BY <1>1 DEF RangesInv, Passes
<1>4. nframes' = nframes
  BY DEF nframes, end_spl_idx, Passes
<1>5. JudgedInv'
  BY <1>1, <1>4 DEF JudgedInv, Passes
<1> QED
  BY <1>2, <1>3, <1>5 DEF WorkInv

\* WorkInv is preserved by the decoding thread.
LEMMA WorkDecoder ==
  ASSUME WorkInv, Decoder
  PROVE  WorkInv'
<1>0. WorkTypes /\ ncur_seg_num \in Nat
  BY DEF WorkInv, WorkTypes, ncur_seg_num, ActsObject
<1>a. \A n \in SizeLoads : n \in Nat
  BY <1>0, LoadsAreNumbers DEF WorkTypes
<1> USE DEF DecoderStep, Goto, DecoderPcs
<1>1. CASE LoadCurSize
  <2>1. Passes
    BY <1>0, <1>a, <1>1 DEF LoadCurSize, Passes, WorkTypes, work
  <2> QED
    BY <2>1, WorkPasses
<1>2. CASE EndRecording
  BY <1>2, WorkEnds
<1>3. CASE Turn
  <2>1. Passes
    BY <1>0, <1>3 DEF Turn, Passes, WorkTypes, work
  <2> QED
    BY <2>1, WorkPasses
<1>4. CASE TakeRanges
  BY <1>4, WorkTakes
<1>5. CASE LoadNumSamples
  BY <1>5, WorkLooks
<1>6. CASE SkipSegment
  <2>1. Passes
    BY <1>0, <1>6 DEF SkipSegment, AtSegment, Passes, WorkTypes
  <2> QED
    BY <2>1, WorkPasses
<1>7. CASE WriteSegments
  <2>1. Passes
    BY <1>0, <1>7 DEF WriteSegments, Writes, Passes, WorkTypes, work
  <2> QED
    BY <2>1, WorkPasses
<1>8. CASE NoteSegments
  <2>1. Passes
    BY <1>0, <1>8 DEF NoteSegments, Passes, WorkTypes
  <2> QED
    BY <2>1, WorkPasses
<1>9. CASE WritePreview
  <2>1. Passes
    BY <1>0, <1>9 DEF WritePreview, Writes, Passes, WorkTypes, work
  <2> QED
    BY <2>1, WorkPasses
<1>10. CASE WriteFinal
  <2>1. Passes
    BY <1>0, <1>10 DEF WriteFinal, Writes, Passes, WorkTypes, work
  <2> QED
    BY <2>1, WorkPasses
<1>11. CASE WriteEnd
  <2>1. Passes
    BY <1>0, <1>11 DEF WriteEnd, Writes, Passes, WorkTypes, work
  <2> QED
    BY <2>1, WorkPasses
<1>12. CASE ResetSession
  <2>1. d_pc' = "done" /\ samples' \in Nat /\ acts_' = reset /\ i' = 0 /\ num_samples' = 0
    BY <1>0, <1>12 DEF ResetSession, WorkTypes
  <2>2. \A S : <<>> \in Seq(S)
    OBVIOUS
  <2>3. reset \in ActsObject /\ Len(reset.seg_sts_) = 0
    BY <2>2 DEF reset, ActsObject
  <2> QED
    BY <1>0, <1>12, <2>1, <2>3 DEF ResetSession, WorkInv, WorkTypes
<1>13. CASE Rescore
  <2>1. Passes
    BY <1>0, <1>13 DEF Rescore, Writes, Passes, WorkTypes, work
  <2> QED
    BY <2>1, WorkPasses
<1>14. CASE \E act \in {0, 1} : JudgeFrame(act)
  BY <1>14, WorkJudges
<1>15. ASSUME NEW result \in Results, PostSegment(result)
       PROVE  WorkInv'
  <2>1. Passes
    BY <1>0, <1>15 DEF PostSegment, AtSegment, Passes, WorkTypes
  <2> QED
    BY <2>1, WorkPasses
<1>16. ASSUME NEW result \in Results, PostPreview(result)
       PROVE  WorkInv'
  <2>1. Passes
    BY <1>0, <1>16 DEF PostPreview, Passes, WorkTypes, work
  <2> QED
    BY <2>1, WorkPasses
<1>17. ASSUME NEW result \in Results, PostWhole(result)
       PROVE  WorkInv'
  <2>1. Passes
    BY <1>0, <1>17 DEF PostWhole, Passes, WorkTypes, work
  <2> QED
    BY <2>1, WorkPasses
<1> QED
  BY <1>1, <1>2, <1>3, <1>4, <1>5, <1>6, <1>7, <1>8, <1>9, <1>10, <1>11, <1>12, <1>13,
     <1>14, <1>15, <1>16, <1>17
  DEF Decoder

\* WorkInv is an invariant, and inductive.
LEMMA WorkInductive == Spec => []WorkInv
<1>1. Init => WorkInv
  <2> SUFFICES ASSUME Init
               PROVE  WorkInv
    OBVIOUS
  <2>1. \A S : <<>> \in Seq(S)
    OBVIOUS
  <2>2. reset \in ActsObject /\ Len(reset.seg_sts_) = 0 /\ Len(reset.acts_) = 0
    BY <2>1 DEF reset, ActsObject
  <2>3. WorkTypes
    BY <2>2 DEF Init, WorkTypes, DecoderPcs
  <2>4. RangesInv
    BY DEF Init, RangesInv
  <2>5. JudgedInv
    BY <2>2 DEF Init, JudgedInv
  <2> QED
    BY <2>3, <2>4, <2>5 DEF WorkInv
<1>2. ASSUME WorkInv, [Next]_vars
      PROVE  WorkInv'
  <2> USE <1>2 DEF ReaderStep, Moves, work
  <2>1. CASE Decoder
    BY <2>1, WorkDecoder
  <2>2. CASE Break
    BY <2>2, WorkKept DEF Break
  <2>3. CASE Finished \/ UNCHANGED vars
    BY <2>3, WorkKept DEF Finished, vars
  <2>4. CASE Accept
    BY <2>4, WorkKept DEF Accept
  <2>5. CASE ReadThrows
    BY <2>5, WorkKept DEF ReadThrows
  <2>6. CASE OnSpeechStart
    BY <2>6, WorkKept DEF OnSpeechStart
  <2>7. CASE OnError
    BY <2>7, WorkKept DEF OnError
  <2>8. CASE AppendSample
    BY <2>8, WorkAppend
  <2>9. CASE PushRange
    BY <2>9, WorkPush
  <2>10. CASE Join
    BY <2>10, WorkKept DEF Join
  <2>11. CASE Unwind
    BY <2>11, WorkKept DEF Unwind
  <2>12. CASE ReceiveStart
    BY <2>12, WorkKept DEF ReceiveStart, ReadsText
  <2>13. CASE OnSpeechEnd
    BY <2>13, WorkKept DEF OnSpeechEnd, EndsWith, ReadsText
  <2>14. CASE ReceiveWrong
    BY <2>14, WorkKept DEF ReceiveWrong, ReadsText
  <2>15. ASSUME NEW n \in Chunks, ReceiveBinary(n)
         PROVE  WorkInv'
    BY <2>15, WorkKept DEF ReceiveBinary
  <2> QED
    BY <2>1, <2>2, <2>3, <2>4, <2>5, <2>6, <2>7, <2>8, <2>9, <2>10, <2>11, <2>12, <2>13,
       <2>14, <2>15
    DEF Next, Reader, Receive
<1> QED
  BY <1>1, <1>2, PTL DEF Spec

-----------------------------------------------------------------------------
(***************************************************************************)
(* What has been received: outside of OnSpeechData the last range ends at  *)
(* the last sample, and the bound on the samples is kept.                  *)
(***************************************************************************)
\* The number of samples up to the end of the last range.
RangesEnd == IF Len(ranges) = 0 THEN 0 ELSE ranges[Len(ranges)] + 1

ReceivedInv ==
  /\ left \in Nat
  /\ samples + left <= MaxSamples
  /\ r_pc # "data" => left = 0
  /\ r_pc # "data" /\ d_pc # "done" => samples = RangesEnd

\* A step that receives nothing.
LEMMA ReceivedKept ==
  ASSUME ReceivedInv, UNCHANGED <<samples, ranges, left>>,
         r_pc = "data" <=> r_pc' = "data", d_pc = "done" => d_pc' = "done"
  PROVE  ReceivedInv'
BY DEF ReceivedInv, RangesEnd

\* ReceivedInv is preserved by the decoding thread.
LEMMA ReceivedDecoder ==
  ASSUME WorkInv, ReceivedInv, Decoder
  PROVE  ReceivedInv'
<1>1. /\ UNCHANGED <<ranges, r_pc, left>>
      /\ d_pc # "done"
  BY DecoderFrame DEF Idle
<1>2. samples' = samples \/ (samples' = 0 /\ d_pc' = "done")
  <2>1. CASE ResetSession
    BY <2>1 DEF ResetSession, Goto
  <2>2. CASE UNCHANGED samples
    BY <2>2
  <2> USE <2>2 DEF work
  <2>3. CASE LoadCurSize \/ EndRecording \/ Turn \/ TakeRanges \/ LoadNumSamples
    BY <2>3 DEF LoadCurSize, EndRecording, Turn, TakeRanges, Takes, LoadNumSamples, Looks
  <2>4. CASE SkipSegment \/ WriteSegments \/ NoteSegments \/ WritePreview
    BY <2>4 DEF SkipSegment, WriteSegments, Writes, NoteSegments, WritePreview
  <2>5. CASE WriteFinal \/ WriteEnd \/ Rescore
    BY <2>5 DEF WriteFinal, Writes, WriteEnd, Rescore
  <2>6. CASE \E act \in {0, 1} : JudgeFrame(act)
    BY <2>6 DEF JudgeFrame
  <2>7. CASE \E result \in Results : PostSegment(result)
    BY <2>7 DEF PostSegment
  <2>8. CASE \E result \in Results : PostPreview(result)
    BY <2>8 DEF PostPreview
  <2>9. CASE \E result \in Results : PostWhole(result)
    BY <2>9 DEF PostWhole
  <2> QED
    BY <2>1, <2>3, <2>4, <2>5, <2>6, <2>7, <2>8, <2>9 DEF Decoder
<1>3. CASE samples' = samples
  BY <1>1, <1>3, ReceivedKept
<1>4. CASE samples' = 0 /\ d_pc' = "done"
  <2>1. MaxSamples \in Nat /\ samples \in Nat
    BY SessionAssumption DEF WorkInv, WorkTypes
  <2> QED
    BY <1>1, <1>4, <2>1 DEF ReceivedInv
<1> QED
  BY <1>2, <1>3, <1>4

\* ReceivedInv is an invariant, given WorkInv.
LEMMA ReceivedInductive == Spec => []ReceivedInv
<1>1. Init => ReceivedInv
  BY SessionAssumption DEF Init, ReceivedInv, RangesEnd
<1>2. ASSUME WorkInv, ReceivedInv, [Next]_vars
      PROVE  ReceivedInv'
  <2>1. samples \in Nat /\ ranges \in Seq(Int) /\ left \in Nat /\ MaxSamples \in Nat
    BY <1>2, SessionAssumption DEF WorkInv, WorkTypes, ReceivedInv
  <2> USE <1>2 DEF ReaderStep, Moves
  <2>2. CASE Decoder
    BY <2>2, ReceivedDecoder
  <2>3. CASE Break
    BY <2>3, ReceivedKept DEF Break
  <2>4. CASE Finished \/ UNCHANGED vars
    BY <2>4, ReceivedKept DEF Finished, vars
  <2>5. CASE Accept
    BY <2>5, ReceivedKept DEF Accept
  <2>6. CASE ReadThrows
    BY <2>6, ReceivedKept DEF ReadThrows
  <2>7. CASE OnSpeechStart
    BY <2>7, ReceivedKept DEF OnSpeechStart
  <2>8. CASE OnError
    BY <2>8, ReceivedKept DEF OnError
  <2>9. CASE AppendSample
    BY <2>1, <2>9 DEF AppendSample, ReceivedInv
  <2>10. CASE PushRange
    <3>1. /\ ranges' = Append(ranges, samples - 1) /\ left = 0 /\ r_pc' = "read"
          /\ UNCHANGED <<samples, left>>
      BY <2>10 DEF PushRange, MarksRange
    <3>2. Len(ranges') # 0 /\ ranges'[Len(ranges')] = samples - 1
      BY <2>1, <3>1
    <3>3. RangesEnd' = samples
      BY <2>1, <3>2 DEF RangesEnd
    <3> QED
      BY <3>1, <3>3 DEF ReceivedInv
  <2>11. CASE Join
    BY <2>11, ReceivedKept DEF Join
  <2>12. CASE Unwind
    BY <2>12, ReceivedKept DEF Unwind
  <2>13. CASE ReceiveStart
    BY <2>13, ReceivedKept DEF ReceiveStart, ReadsText
  <2>14. CASE OnSpeechEnd
    BY <2>14, ReceivedKept DEF OnSpeechEnd, EndsWith, ReadsText
  <2>15. CASE ReceiveWrong
    BY <2>15, ReceivedKept DEF ReceiveWrong, ReadsText
  <2>16. ASSUME NEW n \in Chunks, ReceiveBinary(n)
         PROVE  ReceivedInv'
    <3> DEFINE net == IF n > Header THEN n - Header ELSE 0
    <3>1. net \in Nat
      BY SessionAssumption
    <3>2. /\ samples + net <= MaxSamples /\ r_pc = "read"
          /\ left' = IF r_pc' = "data" THEN net ELSE left
          /\ UNCHANGED <<samples, ranges, d_pc>>
      BY <2>16 DEF ReceiveBinary
    <3> HIDE DEF net
    <3> QED
      BY <2>1, <3>1, <3>2 DEF ReceivedInv, RangesEnd
  <2> QED
    BY <2>2, <2>3, <2>4, <2>5, <2>6, <2>7, <2>8, <2>9, <2>10, <2>11, <2>12, <2>13, <2>14,
       <2>15, <2>16
    DEF Next, Reader, Receive
<1> QED
  BY <1>1, <1>2, WorkInductive, PTL DEF Spec

\* The frames judged between the turns are those of the messages taken, and those
\* of all messages are the frames received.
LEMMA ReceivedAreJudged ==
  ASSUME WorkInv, ReceivedInv
  PROVE  FramesJudgedOnce
<1>1. ASSUME d_pc = "vad"
      PROVE  Len(acts_.acts_) = i
  BY <1>1 DEF WorkInv, JudgedInv
<1>2. ASSUME d_pc \notin {"vad", "done"}
      PROVE  Len(acts_.acts_) = FramesIn(last_nranges_)
  BY <1>2 DEF WorkInv, JudgedInv, FramesIn, nframes, end_spl_idx
<1>3. ASSUME r_pc # "data", d_pc # "done"
      PROVE  FramesIn(Len(ranges)) = samples \div SamplesPerFrame
  <2>1. samples = RangesEnd
    BY <1>3 DEF ReceivedInv
  <2>2. CASE Len(ranges) = 0
    <3>1. 0 \div SamplesPerFrame = 0
      BY SessionAssumption
    <3> QED
      BY <2>1, <2>2, <3>1 DEF RangesEnd, FramesIn
  <2>3. CASE Len(ranges) # 0
    BY <2>1, <2>3 DEF RangesEnd, FramesIn
  <2> QED
    BY <2>2, <2>3
<1> QED
  BY <1>1, <1>2, <1>3 DEF FramesJudgedOnce

\* However the messages cut the recording and whenever the decoding thread takes
\* them, the verdicts are those of the frames of the messages taken, each frame of
\* these judged once and in order.
THEOREM EveryFrameOnce == Spec => []FramesJudgedOnce
BY WorkInductive, ReceivedInductive, ReceivedAreJudged, PTL
-----------------------------------------------------------------------------
(***************************************************************************)
(* What Subsequence computes: it is the value, at the length of the        *)
(* sequence, of a function that exists, that depends on the elements and   *)
(* places below only, and that is followed from element to element.        *)
(***************************************************************************)
\* What Subsequence computes, element by element.
Upto(f, s, places, n) ==
  f = [k \in 0..n |-> IF k = 0 THEN <<>>
                      ELSE IF k \in places THEN Append(f[k - 1], s[k])
                      ELSE f[k - 1]]

\* There is such a function, for every number of elements.
LEMMA UptoExists ==
  ASSUME NEW s, NEW places
  PROVE  \A n \in Nat : \E f : Upto(f, s, places, n)
<1> DEFINE P == {n \in Nat : \E f : Upto(f, s, places, n)}
<1>1. 0 \in P
  <2>1. Upto([k \in 0..0 |-> <<>>], s, places, 0)
    BY DEF Upto
  <2> QED
    BY <2>1
<1>2. ASSUME NEW n \in Nat, n \in P
      PROVE  n + 1 \in P
  <2>1. PICK f : Upto(f, s, places, n)
    BY <1>2
  <2> DEFINE last == IF n + 1 \in places THEN Append(f[n], s[n + 1]) ELSE f[n]
             g    == [k \in 0..(n + 1) |-> IF k = n + 1 THEN last ELSE f[k]]
  <2>2. \A k \in 0..(n + 1) : k \in 0..n \/ k = n + 1
    OBVIOUS
  <2>3. ASSUME NEW k \in 0..(n + 1)
        PROVE  g[k] = IF k = 0 THEN <<>>
                      ELSE IF k \in places THEN Append(g[k - 1], s[k])
                      ELSE g[k - 1]
    <3>1. CASE k = n + 1
      <4>1. g[k] = last /\ g[k - 1] = f[n] /\ k # 0 /\ k - 1 = n
        BY <3>1
      <4> QED
        BY <3>1, <4>1
    <3>2. CASE k \in 0..n /\ k # 0
      <4>1. k \in 0..n /\ k - 1 \in 0..(n + 1) /\ k - 1 # n + 1 /\ k # n + 1
        BY <3>2
      <4>2. g[k] = f[k] /\ g[k - 1] = f[k - 1]
        BY <4>1
      <4>3. f[k] = IF k \in places THEN Append(f[k - 1], s[k]) ELSE f[k - 1]
        BY <2>1, <3>2 DEF Upto
      <4> QED
        BY <3>2, <4>2, <4>3
    <3>3. CASE k = 0
      <4>1. 0 \in 0..n /\ 0 # n + 1
        OBVIOUS
      <4>2. g[0] = f[0] /\ f[0] = <<>>
        BY <2>1, <4>1 DEF Upto
      <4> QED
        BY <3>3, <4>2
    <3> QED
      BY <2>2, <3>1, <3>2, <3>3
  <2> DEFINE h == [k \in 0..(n + 1) |-> IF k = 0 THEN <<>>
                      ELSE IF k \in places THEN Append(g[k - 1], s[k])
                      ELSE g[k - 1]]
  <2>4. g = h
    BY <2>3
  <2>5. Upto(g, s, places, n + 1)
    BY <2>4 DEF Upto
  <2> QED
    BY <2>5
<1> HIDE DEF P
<1>3. \A n \in Nat : n \in P
  BY <1>1, <1>2, Induction
<1> QED
  BY <1>3 DEF P

\* Two such functions agree where they are both defined.
LEMMA UptoAgree ==
  ASSUME NEW s, NEW t, NEW M, NEW N, NEW f, NEW g, NEW m \in Nat, NEW n \in Nat, m <= n,
         Upto(f, s, M, m), Upto(g, t, N, n),
         \A k \in 1..m : s[k] = t[k] /\ (k \in M <=> k \in N)
  PROVE  f[m] = g[m]
<1> DEFINE P == {k \in Nat : k <= m => f[k] = g[k]}
<1>1. 0 \in P
  BY DEF Upto
<1>2. ASSUME NEW k \in Nat, k \in P
      PROVE  k + 1 \in P
  <2> SUFFICES ASSUME k + 1 <= m
               PROVE  f[k + 1] = g[k + 1]
    OBVIOUS
  <2>1. f[k] = g[k]
    BY <1>2
  <2>2. k + 1 \in 0..m /\ k + 1 \in 0..n /\ k + 1 \in 1..m /\ k + 1 # 0 /\ (k + 1) - 1 = k
    OBVIOUS
  <2>3. f[k + 1] = IF k + 1 \in M THEN Append(f[k], s[k + 1]) ELSE f[k]
    BY <2>2 DEF Upto
  <2>4. g[k + 1] = IF k + 1 \in N THEN Append(g[k], t[k + 1]) ELSE g[k]
    BY <2>2 DEF Upto
  <2> QED
    BY <2>1, <2>2, <2>3, <2>4
<1> HIDE DEF P
<1>3. \A k \in Nat : k \in P
  BY <1>1, <1>2, Induction
<1> QED
  BY <1>3 DEF P

\* Subsequence is the last value of such a function.
LEMMA SubsequenceIsUpto ==
  ASSUME NEW s, NEW places, Len(s) \in Nat
  PROVE  \E f : Upto(f, s, places, Len(s)) /\ Subsequence(s, places) = f[Len(s)]
<1> DEFINE f == CHOOSE f : Upto(f, s, places, Len(s))
<1>1. Upto(f, s, places, Len(s))
  BY UptoExists
<1>2. Subsequence(s, places) = f[Len(s)]
  BY DEF Subsequence, Upto
<1> QED
  BY <1>1, <1>2

\* It does not depend on places beyond the sequence.
LEMMA SubsequenceSame ==
  ASSUME NEW s, NEW t, NEW M, NEW N, Len(s) \in Nat, Len(t) = Len(s),
         \A k \in 1..Len(s) : s[k] = t[k] /\ (k \in M <=> k \in N)
  PROVE  Subsequence(s, M) = Subsequence(t, N)
<1>1. PICK f : Upto(f, s, M, Len(s)) /\ Subsequence(s, M) = f[Len(s)]
  BY SubsequenceIsUpto
<1>2. PICK g : Upto(g, t, N, Len(s)) /\ Subsequence(t, N) = g[Len(s)]
  BY SubsequenceIsUpto
<1> QED
  BY <1>1, <1>2, UptoAgree

\* One more element, which is at a place or not.
LEMMA SubsequenceAppend ==
  ASSUME NEW s, NEW t, NEW M, NEW N, Len(s) \in Nat, Len(t) = Len(s) + 1,
         \A k \in 1..Len(s) : s[k] = t[k] /\ (k \in M <=> k \in N)
  PROVE  Subsequence(t, N) = IF Len(t) \in N THEN Append(Subsequence(s, M), t[Len(t)])
                             ELSE Subsequence(s, M)
<1> DEFINE n == Len(s)
<1>1. PICK f : Upto(f, s, M, n) /\ Subsequence(s, M) = f[n]
  BY SubsequenceIsUpto
<1>2. PICK g : Upto(g, t, N, n + 1) /\ Subsequence(t, N) = g[n + 1]
  BY SubsequenceIsUpto
<1>3. f[n] = g[n]
  BY <1>1, <1>2, UptoAgree
<1>4. n + 1 \in 0..(n + 1) /\ n + 1 # 0 /\ (n + 1) - 1 = n
  OBVIOUS
<1>5. g[n + 1] = IF n + 1 \in N THEN Append(g[n], t[n + 1]) ELSE g[n]
  BY <1>2, <1>4 DEF Upto
<1> QED
  BY <1>1, <1>2, <1>3, <1>5

\* Nothing of an empty sequence.
LEMMA SubsequenceEmpty ==
  ASSUME NEW s, NEW places, Len(s) = 0
  PROVE  Subsequence(s, places) = <<>>
<1>1. PICK f : Upto(f, s, places, 0) /\ Subsequence(s, places) = f[0]
  BY SubsequenceIsUpto
<1> QED
  BY <1>1 DEF Upto

\* Its elements are those of the sequence.
LEMMA SubsequenceType ==
  ASSUME NEW S, NEW s \in Seq(S), NEW places
  PROVE  Subsequence(s, places) \in Seq(S)
<1> DEFINE n == Len(s)
<1>1. PICK f : Upto(f, s, places, n) /\ Subsequence(s, places) = f[n]
  BY SubsequenceIsUpto
<1> DEFINE P == {k \in Nat : k <= n => f[k] \in Seq(S)}
<1>2. 0 \in P
  <2>1. f[0] = <<>>
    BY <1>1 DEF Upto
  <2>2. <<>> \in Seq(S)
    OBVIOUS
  <2> QED
    BY <2>1, <2>2
<1>3. ASSUME NEW k \in Nat, k \in P
      PROVE  k + 1 \in P
  <2> SUFFICES ASSUME k + 1 <= n
               PROVE  f[k + 1] \in Seq(S)
    OBVIOUS
  <2>1. f[k] \in Seq(S)
    BY <1>3
  <2>2. k + 1 \in 0..n /\ k + 1 # 0 /\ (k + 1) - 1 = k
    OBVIOUS
  <2>3. f[k + 1] = IF k + 1 \in places THEN Append(f[k], s[k + 1]) ELSE f[k]
    BY <1>1, <2>2 DEF Upto
  <2>4. s[k + 1] \in S
    OBVIOUS
  <2> QED
    BY <2>1, <2>3, <2>4
<1> HIDE DEF P
<1>4. \A k \in Nat : k \in P
  BY <1>2, <1>3, Induction
<1> QED
  BY <1>1, <1>4 DEF P
-----------------------------------------------------------------------------
(***************************************************************************)
(* The segments that qualify, of an object of class Acts that gets more    *)
(* frames and segments.                                                    *)
(***************************************************************************)
\* What add_act does to the lists: one of the two may get the frame.
LEMMA AddActLists ==
  ASSUME NEW a \in ActsObject, NEW act \in {0, 1}
  PROVE  LET f == Len(a.acts_)
             b == add_act(a, act)
         IN  \/ b.seg_sts_ = a.seg_sts_ /\ b.seg_ends_ = a.seg_ends_
             \/ /\ b.seg_sts_ = Append(a.seg_sts_, f) /\ b.seg_ends_ = a.seg_ends_
             \/ /\ IsOpen(a)
                /\ b.seg_sts_ = a.seg_sts_ /\ b.seg_ends_ = Append(a.seg_ends_, f)
<1> DEFINE acts   == Append(a.acts_, act)
           f      == Len(a.acts_)
           status == check_window(acts, f \div Window)
<1>1. status \in {Mixed, Active, Silent}
  BY DEF check_window
<1> HIDE DEF status
<1>2. ~ (StartsSegment(a, status) /\ EndsSegment(a, f, status))
  BY DEF StartsSegment, EndsSegment, Active, Silent
<1>3. add_act(a, act) =
        IF Len(acts) % Window # 0
        THEN [a EXCEPT !.acts_ = acts]
        ELSE [acts_         |-> acts,
              wind_stats_   |-> Append(a.wind_stats_, status),
              seg_sts_      |-> IF StartsSegment(a, status) THEN Append(a.seg_sts_, f)
                                ELSE a.seg_sts_,
              seg_ends_     |-> IF EndsSegment(a, f, status) THEN Append(a.seg_ends_, f)
                                ELSE a.seg_ends_,
              last_seg_idx_ |-> IF EndsSegment(a, f, status) THEN f ELSE a.last_seg_idx_]
  BY DEF add_act, status
<1>4. EndsSegment(a, f, status) => IsOpen(a)
  BY DEF EndsSegment
<1> QED
  BY <1>2, <1>3, <1>4 DEF ActsObject

\* What end does to them.
LEMMA EndLists ==
  ASSUME NEW a \in ActsObject
  PROVE  LET n == Len(a.acts_)
         IN  \/ end(a).seg_ends_ = a.seg_ends_
             \/ /\ IsOpen(a) /\ n > 0
                /\ end(a).seg_ends_ = Append(a.seg_ends_, n - 1)
<1> DEFINE n      == Len(a.acts_)
           st     == Last(a.seg_sts_)
           closes == n - st > MinTail /\ PercentAbove(a.acts_, st, n - 1, 1, 2)
<1>1. CASE ~ IsOpen(a)
  BY <1>1 DEF end
<1>2. CASE IsOpen(a)
  <2>1. end(a) = [a EXCEPT !.seg_ends_ = IF closes THEN Append(@, n - 1) ELSE @,
                           !.last_seg_idx_ = n - 1]
    BY <1>2 DEF end
  <2>2. closes => n > 0
    <3>1. Last(a.seg_sts_) \in Nat /\ n \in Nat /\ MinTail \in Nat
      <4>1. a.seg_sts_ \in Seq(Nat) /\ a.seg_ends_ \in Seq(Nat) /\ n \in Nat
        BY DEF ActsObject
      <4>2. Len(a.seg_sts_) \in 1..Len(a.seg_sts_)
        BY <1>2, <4>1 DEF IsOpen
      <4> QED
        BY <4>1, <4>2, SegmentAssumption DEF Last
    <3> HIDE DEF n
    <3> QED
      BY <3>1
  <2> HIDE DEF closes
  <2> QED
    BY <1>2, <2>1, <2>2 DEF ActsObject
<1> QED
  BY <1>1, <1>2

\* The segments of an object of class Acts: as pairs, those that qualify, and
\* those of the first n that do.
SegmentOf(a, k)  == <<a.seg_sts_[k], a.seg_ends_[k]>>
SuitsOf(a, k) ==
  /\ PercentAbove(a.acts_, a.seg_sts_[k], a.seg_ends_[k], 3, 5)
  /\ a.seg_ends_[k] - a.seg_sts_[k] > MinSpeak
Qualifying(a, n) ==
  Subsequence([k \in 1..n |-> SegmentOf(a, k)], {k \in 1..n : SuitsOf(a, k)})

\* Every frame in the lists has been judged, and no end is without its start.
Judged(a) ==
  /\ \A k \in 1..Len(a.seg_sts_) : a.seg_sts_[k] < Len(a.acts_)
  /\ \A k \in 1..Len(a.seg_ends_) : a.seg_ends_[k] < Len(a.acts_)
  /\ Len(a.seg_ends_) <= Len(a.seg_sts_)

\* The object b has more frames than a, and in its lists more segments.
Extends(a, b) ==
  /\ Len(a.acts_) <= Len(b.acts_)
  /\ \A k \in 1..Len(a.acts_) : b.acts_[k] = a.acts_[k]
  /\ Len(a.seg_ends_) <= Len(b.seg_ends_)
  /\ \A k \in 1..Len(a.seg_ends_) : SegmentOf(b, k) = SegmentOf(a, k)

\* A list that is kept or gets one more element below m.
LEMMA ListGrows ==
  ASSUME NEW s \in Seq(Nat), NEW t, NEW x \in Nat, NEW f \in Nat, NEW m \in Nat,
         t = s \/ t = Append(s, x), f <= m, x < m, \A k \in 1..Len(s) : s[k] < f
  PROVE  /\ Len(t) = IF t = s THEN Len(s) ELSE Len(s) + 1
         /\ \A k \in 1..Len(s) : t[k] = s[k]
         /\ \A k \in 1..Len(t) : t[k] < m
<1>1. CASE t = s
  BY <1>1
<1>2. CASE t = Append(s, x) /\ t # s
  <2>1. Len(t) = Len(s) + 1 /\ t[Len(s) + 1] = x /\ \A k \in 1..Len(s) : t[k] = s[k]
    BY <1>2
  <2>2. \A k \in 1..Len(t) : k \in 1..Len(s) \/ k = Len(s) + 1
    BY <2>1
  <2>3. ASSUME NEW k \in 1..Len(t)
        PROVE  t[k] < m
    BY <2>1, <2>2
  <2> QED
    BY <1>2, <2>1, <2>3
<1> QED
  BY <1>1, <1>2

\* The object b comes from a, with at most the frame x in each of its lists.
Grows(a, b, x) ==
  /\ Len(b.acts_) \in Nat
  /\ Len(a.acts_) <= Len(b.acts_)
  /\ \A k \in 1..Len(a.acts_) : b.acts_[k] = a.acts_[k]
  /\ x \in Nat
  /\ x < Len(b.acts_)
  /\ b.seg_sts_ = a.seg_sts_ \/ b.seg_sts_ = Append(a.seg_sts_, x)
  /\ b.seg_ends_ = a.seg_ends_ \/ (b.seg_ends_ = Append(a.seg_ends_, x) /\ IsOpen(a))

\* Then it extends it.
LEMMA ListsGrow ==
  ASSUME NEW a \in ActsObject, NEW b, NEW x, Judged(a), Grows(a, b, x)
  PROVE  Judged(b) /\ Extends(a, b)
<1> USE DEF Grows
<1>1. /\ a.seg_sts_ \in Seq(Nat) /\ a.seg_ends_ \in Seq(Nat) /\ Len(a.acts_) \in Nat
      /\ Len(a.seg_sts_) \in Nat /\ Len(a.seg_ends_) \in Nat
  BY DEF ActsObject
<1>a. /\ \A k \in 1..Len(a.seg_sts_) : a.seg_sts_[k] < Len(a.acts_)
      /\ \A k \in 1..Len(a.seg_ends_) : a.seg_ends_[k] < Len(a.acts_)
  BY DEF Judged
<1>2. /\ Len(b.seg_sts_) = IF b.seg_sts_ = a.seg_sts_ THEN Len(a.seg_sts_)
                           ELSE Len(a.seg_sts_) + 1
      /\ \A k \in 1..Len(a.seg_sts_) : b.seg_sts_[k] = a.seg_sts_[k]
      /\ \A k \in 1..Len(b.seg_sts_) : b.seg_sts_[k] < Len(b.acts_)
  <2> DEFINE s == a.seg_sts_
             t == b.seg_sts_
             f == Len(a.acts_)
             m == Len(b.acts_)
  <2>1. /\ s \in Seq(Nat) /\ f \in Nat /\ m \in Nat /\ f <= m /\ x < m
        /\ t = s \/ t = Append(s, x)
        /\ \A k \in 1..Len(s) : s[k] < f
    BY <1>1, <1>a
  <2> HIDE DEF s, t, f, m
  <2>2. /\ Len(t) = IF t = s THEN Len(s) ELSE Len(s) + 1
        /\ \A k \in 1..Len(s) : t[k] = s[k]
        /\ \A k \in 1..Len(t) : t[k] < m
    BY <2>1, ListGrows
  <2> QED
    BY <2>2 DEF s, t, f, m
<1>3. /\ Len(b.seg_ends_) = IF b.seg_ends_ = a.seg_ends_ THEN Len(a.seg_ends_)
                           ELSE Len(a.seg_ends_) + 1
      /\ \A k \in 1..Len(a.seg_ends_) : b.seg_ends_[k] = a.seg_ends_[k]
      /\ \A k \in 1..Len(b.seg_ends_) : b.seg_ends_[k] < Len(b.acts_)
  BY <1>1, <1>a, ListGrows, Zenon
<1>4. Len(b.seg_ends_) <= Len(b.seg_sts_) /\ Len(a.seg_ends_) <= Len(b.seg_ends_)
  BY <1>1, <1>2, <1>3 DEF Judged, IsOpen
<1>5. \A k \in 1..Len(a.seg_ends_) : k \in 1..Len(a.seg_sts_)
  BY <1>1 DEF Judged
<1>6. \A k \in 1..Len(a.seg_ends_) : SegmentOf(b, k) = SegmentOf(a, k)
  BY <1>2, <1>3, <1>5 DEF SegmentOf
<1> QED
  BY <1>2, <1>3, <1>4, <1>6 DEF Judged, Extends

\* A frame more, and the end, extend the object, and keep the lists to the frames.
LEMMA AddActExtends ==
  ASSUME NEW a \in ActsObject, NEW act \in {0, 1}, Judged(a)
  PROVE  Judged(add_act(a, act)) /\ Extends(a, add_act(a, act))
<1> DEFINE b == add_act(a, act)
           f == Len(a.acts_)
<1>1. a.acts_ \in Seq({0, 1}) /\ f \in Nat
  BY DEF ActsObject
<1>2. b.acts_ = Append(a.acts_, act)
  BY AddActType
<1>3. /\ Len(b.acts_) = f + 1
      /\ \A k \in 1..f : b.acts_[k] = a.acts_[k]
  BY <1>1, <1>2
<1>4. /\ b.seg_sts_ = a.seg_sts_ \/ b.seg_sts_ = Append(a.seg_sts_, f)
      /\ b.seg_ends_ = a.seg_ends_ \/ (b.seg_ends_ = Append(a.seg_ends_, f) /\ IsOpen(a))
  BY AddActLists
<1> HIDE DEF b
<1>5. f < Len(b.acts_) /\ Len(b.acts_) \in Nat /\ Len(a.acts_) <= Len(b.acts_)
  BY <1>1, <1>3
<1>6. Grows(a, b, f)
  BY <1>1, <1>3, <1>4, <1>5 DEF Grows
<1>7. Judged(b) /\ Extends(a, b)
  BY <1>6, ListsGrow
<1> QED
  BY <1>7 DEF b

LEMMA EndExtends ==
  ASSUME NEW a \in ActsObject, Len(a.seg_sts_) > 0 => Len(a.acts_) > 0, Judged(a)
  PROVE  Judged(end(a)) /\ Extends(a, end(a))
<1> DEFINE b == end(a)
           n == Len(a.acts_)
<1>1. n \in Nat
  BY DEF ActsObject
<1>2. b.acts_ = a.acts_ /\ b.seg_sts_ = a.seg_sts_
  BY EndType
<1>3. \/ b.seg_ends_ = a.seg_ends_
      \/ IsOpen(a) /\ n > 0 /\ b.seg_ends_ = Append(a.seg_ends_, n - 1)
  BY EndLists
<1> HIDE DEF b
<1>4. CASE n > 0
  <2>1. n - 1 \in Nat /\ n - 1 < Len(b.acts_) /\ Len(b.acts_) \in Nat
    BY <1>1, <1>2, <1>4
  <2>a. Len(a.acts_) <= Len(b.acts_) /\ \A k \in 1..Len(a.acts_) : b.acts_[k] = a.acts_[k]
    BY <1>1, <1>2
  <2>b. b.seg_sts_ = a.seg_sts_ \/ b.seg_sts_ = Append(a.seg_sts_, n - 1)
    BY <1>2
  <2>c. b.seg_ends_ = a.seg_ends_ \/ (b.seg_ends_ = Append(a.seg_ends_, n - 1) /\ IsOpen(a))
    BY <1>3
  <2> HIDE DEF n
  <2>d. Grows(a, b, n - 1)
    BY <2>1, <2>a, <2>b, <2>c DEF Grows
  <2>2. Judged(b) /\ Extends(a, b)
    BY <2>d, ListsGrow
  <2> QED
    BY <2>2 DEF b
<1>5. CASE n = 0
  <2>1. b.seg_ends_ = a.seg_ends_
    BY <1>3, <1>5
  <2>2. Judged(b) /\ Extends(a, b)
    BY <1>1, <1>2, <2>1 DEF Judged, Extends, SegmentOf, ActsObject
  <2> QED
    BY <2>2 DEF b
<1> QED
  BY <1>1, <1>4, <1>5

\* In an object that extends another the same ones of its segments qualify.
LEMMA QualifyingStable ==
  ASSUME NEW a \in ActsObject, NEW b \in ActsObject, Judged(a), Extends(a, b),
         NEW n \in Nat, n <= Len(a.seg_ends_)
  PROVE  Qualifying(b, n) = Qualifying(a, n)
<1>1. ASSUME NEW k \in 1..n
      PROVE  SegmentOf(b, k) = SegmentOf(a, k) /\ (SuitsOf(b, k) <=> SuitsOf(a, k))
  <2> DEFINE st == a.seg_sts_[k]
             e  == a.seg_ends_[k]
  <2>1. k \in 1..Len(a.seg_ends_) /\ k \in 1..Len(a.seg_sts_)
    BY DEF Judged, ActsObject
  <2>2. st \in Nat /\ e \in Nat /\ e < Len(a.acts_) /\ Len(a.acts_) \in Nat
    <3> DEFINE sts  == a.seg_sts_
               ends == a.seg_ends_
    <3>1. /\ sts \in Seq(Nat) /\ ends \in Seq(Nat) /\ Len(a.acts_) \in Nat
          /\ k \in 1..Len(ends) /\ k \in 1..Len(sts)
      BY <2>1 DEF ActsObject
    <3>2. e < Len(a.acts_)
      BY <2>1 DEF Judged
    <3> HIDE DEF sts, ends
    <3>3. sts[k] \in Nat /\ ends[k] \in Nat
      BY <3>1
    <3> QED
      BY <3>1, <3>2, <3>3 DEF sts, ends
  <2>3. SegmentOf(b, k) = SegmentOf(a, k)
    BY <2>1 DEF Extends
  <2>a. b.seg_sts_[k] = st /\ b.seg_ends_[k] = e
    BY <2>3 DEF SegmentOf
  <2>4. \A f \in st..(e - 1) : b.acts_[f + 1] = a.acts_[f + 1]
    <3> SUFFICES ASSUME NEW f \in st..(e - 1)
                 PROVE  b.acts_[f + 1] = a.acts_[f + 1]
      OBVIOUS
    <3>1. f + 1 \in 1..Len(a.acts_)
      BY <2>2
    <3> QED
      BY <3>1 DEF Extends
  <2>5. ActiveFrames(b.acts_, st, e) = ActiveFrames(a.acts_, st, e)
    <3>1. {f \in st..(e - 1) : b.acts_[f + 1] = 1} = {f \in st..(e - 1) : a.acts_[f + 1] = 1}
      BY <2>4
    <3> QED
      BY <3>1 DEF ActiveFrames
  <2> QED
    BY <2>3, <2>a, <2>5 DEF SuitsOf, PercentAbove
<1>2. [k \in 1..n |-> SegmentOf(b, k)] = [k \in 1..n |-> SegmentOf(a, k)]
  BY <1>1
<1>3. {k \in 1..n : SuitsOf(b, k)} = {k \in 1..n : SuitsOf(a, k)}
  BY <1>1
<1> QED
  BY <1>2, <1>3 DEF Qualifying

\* One segment more, which qualifies or not.
LEMMA QualifyingNext ==
  ASSUME NEW a, NEW n \in Nat
  PROVE  Qualifying(a, n + 1) = IF SuitsOf(a, n + 1)
                                THEN Append(Qualifying(a, n), SegmentOf(a, n + 1))
                                ELSE Qualifying(a, n)
<1> DEFINE s == [k \in 1..n |-> SegmentOf(a, k)]
           t == [k \in 1..(n + 1) |-> SegmentOf(a, k)]
           M == {k \in 1..n : SuitsOf(a, k)}
           N == {k \in 1..(n + 1) : SuitsOf(a, k)}
<1>1. Len(s) = n /\ Len(t) = n + 1
  OBVIOUS
<1>2. \A k \in 1..n : s[k] = t[k] /\ (k \in M <=> k \in N)
  OBVIOUS
<1>3. t[n + 1] = SegmentOf(a, n + 1) /\ (n + 1 \in N <=> SuitsOf(a, n + 1))
  OBVIOUS
<1> HIDE DEF s, t, M, N
<1>4. Subsequence(t, N) = IF n + 1 \in N THEN Append(Subsequence(s, M), t[n + 1])
                          ELSE Subsequence(s, M)
  BY <1>1, <1>2, SubsequenceAppend
<1> QED
  BY <1>3, <1>4 DEF Qualifying, s, t, M, N
-----------------------------------------------------------------------------
(***************************************************************************)
(* Every segment that qualifies is posted once.                            *)
(***************************************************************************)
\* The pairs that were posted.
PostedOf(infos) == [k \in 1..Len(infos) |-> <<infos[k].st_frm, infos[k].end_frm>>]

LEMMA PostedOfAppend ==
  ASSUME NEW infos \in Seq(Seginfo), NEW info \in Seginfo
  PROVE  PostedOf(Append(infos, info)) =
           Append(PostedOf(infos), <<info.st_frm, info.end_frm>>)
<1> DEFINE n == Len(infos)
           s == PostedOf(infos)
           t == PostedOf(Append(infos, info))
           p == <<info.st_frm, info.end_frm>>
<1>1. /\ n \in Nat /\ Len(Append(infos, info)) = n + 1
      /\ Append(infos, info)[n + 1] = info
      /\ \A k \in 1..n : Append(infos, info)[k] = infos[k]
  OBVIOUS
<1>2. s = [k \in 1..n |-> <<infos[k].st_frm, infos[k].end_frm>>]
  BY DEF PostedOf
<1>3. t = [k \in 1..(n + 1) |-> IF k = n + 1 THEN p ELSE s[k]]
  <2>1. ASSUME NEW k \in 1..(n + 1)
        PROVE  <<Append(infos, info)[k].st_frm, Append(infos, info)[k].end_frm>> =
                 IF k = n + 1 THEN p ELSE s[k]
    <3>1. CASE k = n + 1
      BY <1>1, <3>1
    <3>2. CASE k \in 1..n
      <4>1. Append(infos, info)[k] = infos[k] /\ k # n + 1
        BY <1>1, <3>2
      <4>2. s[k] = <<infos[k].st_frm, infos[k].end_frm>>
        BY <1>2, <3>2
      <4> QED
        BY <4>1, <4>2
    <3> QED
      BY <1>1, <3>1, <3>2
  <2> QED
    BY <1>1, <2>1 DEF PostedOf
<1> HIDE DEF t, s, p
<1>4. Len(s) = n
  BY <1>1, <1>2
<1>5. t = Append(s, p)
  <2> DEFINE S == Nat \X Nat
  <2>1. p \in S /\ \A k \in 1..n : <<infos[k].st_frm, infos[k].end_frm>> \in S
    <3>1. \A x \in Seginfo : <<x.st_frm, x.end_frm>> \in S
      BY DEF Seginfo
    <3>2. \A k \in 1..n : infos[k] \in Seginfo
      OBVIOUS
    <3> QED
      BY <3>1, <3>2 DEF p
  <2> HIDE DEF S
  <2>2. s \in Seq(S)
    BY <1>1, <1>2, <2>1
  <2>3. /\ Append(s, p) \in Seq(S) /\ Len(Append(s, p)) = n + 1
        /\ Append(s, p)[n + 1] = p
        /\ \A k \in 1..n : Append(s, p)[k] = s[k] /\ s[k] \in S
    BY <1>1, <1>4, <2>1, <2>2
  <2>4. t \in Seq(S) /\ Len(t) = n + 1
    BY <1>1, <1>3, <2>1, <2>3
  <2>5. \A k \in 1..(n + 1) : t[k] = Append(s, p)[k]
    BY <1>1, <1>3, <2>3
  <2> QED
    BY <2>3, <2>4, <2>5, SeqEqual
<1> QED
  BY <1>5 DEF s, t, p

\* The decoding thread has posted what qualifies of the segments it has dealt
\* with, and a number of samples that is not 0 covers the frames judged, so that
\* the guards let every segment pass.
PostsRight ==
  /\ Judged(acts_)
  /\ d_pc \in {"test", "seg", "seg_write", "last"} /\ num_samples # 0 =>
       Len(acts_.acts_) * SamplesPerFrame <= num_samples
  /\ nseg_done_ <= Len(acts_.seg_ends_)
  /\ Reached <= Len(acts_.seg_ends_)
  /\ ~ lost => PostedOf(seginfos_) = Qualifying(acts_, Reached)

PostedInv ==
  /\ seginfos_ \in Seq(Seginfo)
  /\ d_pc \notin {"done", "failed", "thrown"} => PostsRight

\* Which is what SegmentsPosted says.
LEMMA PostedIsRight == PostedInv => SegmentsPosted
BY DEF PostedInv, PostsRight, SegmentsPosted, Returned, Posted, PostedOf, QualifyingOf, Qualifying,
       Segment_, SegmentOf, Qualifies, SuitsOf

\* An object extends itself.
LEMMA ExtendsItself ==
  ASSUME NEW a \in ActsObject
  PROVE  Extends(a, a)
<1>1. Len(a.acts_) \in Nat /\ Len(a.seg_ends_) \in Nat
  BY DEF ActsObject
<1> QED
  BY <1>1 DEF Extends

\* A step that posts nothing and has dealt with no other segments.
LEMMA PostedStep ==
  ASSUME WorkInv, WorkInv', PostedInv, d_pc \notin {"done", "failed", "thrown"},
         Judged(acts_'), Extends(acts_, acts_'),
         UNCHANGED <<seginfos_, lost, nseg_done_>>,
         d_pc' \notin {"done", "failed", "thrown"} => Reached' = Reached,
         d_pc' \in {"test", "seg", "seg_write", "last"} /\ num_samples' # 0 =>
           Len(acts_'.acts_) * SamplesPerFrame <= num_samples'
  PROVE  PostedInv'
<1> SUFFICES ASSUME d_pc' \notin {"done", "failed", "thrown"}
             PROVE  PostsRight'
  BY DEF PostedInv
<1>1. PostsRight
  BY DEF PostedInv
<1>2. acts_ \in ActsObject /\ acts_' \in ActsObject
  BY DEF WorkInv, WorkTypes
<1>3. Reached \in Nat
  <2>1. ncur_seg_num \in Nat
    BY <1>2 DEF ncur_seg_num, ActsObject
  <2>2. i \in Nat /\ nseg_done_ \in Nat
    BY DEF WorkInv, WorkTypes
  <2> QED
    BY <2>1, <2>2 DEF Reached
<1>4. /\ Len(acts_.seg_ends_) \in Nat /\ Len(acts_'.seg_ends_) \in Nat /\ nseg_done_ \in Nat
      /\ Len(acts_.seg_ends_) <= Len(acts_'.seg_ends_)
  <2>1. Len(acts_.seg_ends_) \in Nat /\ Len(acts_'.seg_ends_) \in Nat
    BY <1>2 DEF ActsObject
  <2>2. nseg_done_ \in Nat
    BY DEF WorkInv, WorkTypes
  <2> QED
    BY <2>1, <2>2 DEF Extends
<1>5. Qualifying(acts_', Reached) = Qualifying(acts_, Reached)
  BY <1>1, <1>2, <1>3, QualifyingStable DEF PostsRight
<1>6. Reached' = Reached
  OBVIOUS
<1>7. nseg_done_' <= Len(acts_'.seg_ends_) /\ Reached' <= Len(acts_'.seg_ends_)
  BY <1>1, <1>3, <1>4, <1>6 DEF PostsRight
<1>8. ~ lost' => PostedOf(seginfos_') = Qualifying(acts_', Reached')
  BY <1>1, <1>5, <1>6 DEF PostsRight
<1> QED
  BY <1>7, <1>8 DEF PostsRight

\* A step that leaves the segments alone as well.
LEMMA PostedKept ==
  ASSUME WorkInv, WorkInv', PostedInv,
         UNCHANGED <<acts_, seginfos_, lost, nseg_done_>>,
         d_pc' \notin {"done", "failed", "thrown"} =>
           d_pc \notin {"done", "failed", "thrown"} /\ Reached' = Reached,
         d_pc' \in {"test", "seg", "seg_write", "last"} /\ num_samples' # 0 =>
           Len(acts_.acts_) * SamplesPerFrame <= num_samples'
  PROVE  PostedInv'
<1>1. CASE d_pc \in {"done", "failed", "thrown"}
  BY <1>1 DEF PostedInv
<1>2. CASE d_pc \notin {"done", "failed", "thrown"}
  <2>1. Judged(acts_') /\ Extends(acts_, acts_')
    BY <1>2, ExtendsItself DEF PostedInv, PostsRight, WorkInv, WorkTypes
  <2> QED
    BY <1>2, <2>1, PostedStep
<1> QED
  BY <1>1, <1>2

\* The frames judged are within the samples received.
LEMMA FramesWithinSamples ==
  ASSUME WorkInv, d_pc \notin {"vad", "done"} \/ (d_pc = "vad" /\ i >= nframes)
  PROVE  Len(acts_.acts_) * SamplesPerFrame <= samples
<1>1. WorkTypes /\ RangesInv /\ JudgedInv
  BY DEF WorkInv
<1>2. last_nranges_ > 0 => /\ last_nranges_ \in 1..Len(ranges)
                           /\ nframes \in Nat /\ nframes * SamplesPerFrame <= samples
  <2> SUFFICES ASSUME last_nranges_ > 0
               PROVE  /\ last_nranges_ \in 1..Len(ranges)
                      /\ nframes \in Nat /\ nframes * SamplesPerFrame <= samples
    OBVIOUS
  <2>1. last_nranges_ \in 1..Len(ranges)
    BY <1>1 DEF WorkTypes, JudgedInv
  <2> QED
    BY <1>1, <2>1, FramesOfRanges DEF nframes, end_spl_idx
<1>3. CASE d_pc \notin {"vad", "done"}
  <2>1. Len(acts_.acts_) = IF last_nranges_ = 0 THEN 0 ELSE nframes
    BY <1>1, <1>3 DEF JudgedInv
  <2>2. samples \in Nat /\ last_nranges_ \in Nat /\ SamplesPerFrame \in Nat
    BY <1>1, SessionAssumption DEF WorkTypes
  <2> QED
    BY <1>2, <2>1, <2>2
<1>4. CASE d_pc = "vad" /\ i >= nframes
  <2>1. Len(acts_.acts_) = nframes
    BY <1>1, <1>2, <1>4 DEF JudgedInv, WorkTypes
  <2> QED
    BY <1>1, <1>2, <1>4, <2>1 DEF JudgedInv
<1> QED
  BY <1>3, <1>4

\* A segment that is skipped does not qualify, unless a wrong size lost it.
LEMMA PostedSkips ==
  ASSUME WorkInv, WorkInv', PostedInv, SkipSegment
  PROVE  PostedInv'
<1>1. /\ d_pc \in {"seg", "last"} /\ d_pc' = d_pc /\ i < ncur_seg_num /\ i' = i + 1
      /\ ~ (Arrived /\ Suits)
      /\ lost' = (lost \/ (num_samples = 0 /\ Suits))
      /\ UNCHANGED <<acts_, seginfos_, nseg_done_, num_samples>>
  BY DEF SkipSegment, AtSegment, DecoderStep, Goto
<1>2. PostsRight
  BY <1>1 DEF PostedInv
<1>3. /\ acts_ \in ActsObject /\ i \in Nat /\ num_samples \in Nat
      /\ SamplesPerFrame \in Nat \ {0}
  BY SessionAssumption DEF WorkInv, WorkTypes
<1>4. /\ i + 1 \in 1..Len(acts_.seg_ends_) /\ i + 1 \in 1..Len(acts_.seg_sts_)
      /\ Len(acts_.seg_ends_) \in Nat
  BY <1>1, <1>2, <1>3 DEF ncur_seg_num, PostsRight, Judged, ActsObject
<1>5. num_samples # 0 => Arrived
  <2> SUFFICES ASSUME num_samples # 0
               PROVE  Arrived
    OBVIOUS
  <2> DEFINE n  == Len(acts_.acts_)
             st == acts_.seg_sts_[i + 1]
             e  == acts_.seg_ends_[i + 1]
  <2>1. n \in Nat /\ st \in Nat /\ e \in Nat
    BY <1>3, <1>4 DEF ActsObject
  <2>2. st < n /\ e < n
    BY <1>2, <1>4 DEF PostsRight, Judged
  <2>3. n * SamplesPerFrame <= num_samples
    BY <1>1, <1>2 DEF PostsRight
  <2> HIDE DEF n, st, e
  <2>4. st * SamplesPerFrame < n * SamplesPerFrame /\ e * SamplesPerFrame < n * SamplesPerFrame
    BY <1>3, <2>1, <2>2
  <2>5. /\ st * SamplesPerFrame \in Nat /\ e * SamplesPerFrame \in Nat
        /\ n * SamplesPerFrame \in Nat
    BY <1>3, <2>1
  <2>6. st * SamplesPerFrame < num_samples /\ e * SamplesPerFrame < num_samples
    BY <1>3, <2>3, <2>4, <2>5
  <2> QED
    BY <2>6 DEF Arrived, st, e
<1>6. ~ lost' => ~ lost /\ ~ SuitsOf(acts_, i + 1)
  BY <1>1, <1>5 DEF Suits, Qualifies, SuitsOf
<1>7. Reached = i /\ Reached' = i + 1
  BY <1>1 DEF Reached
<1>8. ~ lost' => Qualifying(acts_, i + 1) = Qualifying(acts_, i)
  BY <1>3, <1>6, QualifyingNext
<1>9. ~ lost' => PostedOf(seginfos_') = Qualifying(acts_', Reached')
  BY <1>1, <1>2, <1>6, <1>7, <1>8 DEF PostsRight
<1>10. PostsRight'
  BY <1>1, <1>2, <1>4, <1>7, <1>9 DEF PostsRight
<1> QED
  BY <1>1, <1>10 DEF PostedInv

\* A segment that is posted has its start and its end.
LEMMA PostsInfo ==
  ASSUME WorkInv, PostedInv, NEW result \in Results, PostSegment(result), result \in TextKinds
  PROVE  /\ i + 1 \in 1..Len(acts_.seg_ends_)
         /\ \E info \in Seginfo : /\ seginfos_' = Append(seginfos_, info)
                                  /\ <<info.st_frm, info.end_frm>> = SegmentOf(acts_, i + 1)
<1> DEFINE info == [st_frm  |-> acts_.seg_sts_[i + 1],
                    end_frm |-> acts_.seg_ends_[i + 1],
                    result  |-> result]
<1>1. acts_ \in ActsObject /\ i \in Nat
  BY DEF WorkInv, WorkTypes
<1>2. d_pc \in {"seg", "last"} /\ i < ncur_seg_num /\ seginfos_' = Append(seginfos_, info)
  BY DEF PostSegment, AtSegment, DecoderStep
<1>3. Len(acts_.seg_ends_) <= Len(acts_.seg_sts_)
  BY <1>2 DEF PostedInv, PostsRight, Judged
<1>4. i + 1 \in 1..Len(acts_.seg_ends_) /\ i + 1 \in 1..Len(acts_.seg_sts_)
  BY <1>1, <1>2, <1>3 DEF ncur_seg_num, ActsObject
<1>5. acts_.seg_sts_[i + 1] \in Nat /\ acts_.seg_ends_[i + 1] \in Nat
  <2>1. acts_.seg_sts_ \in Seq(Nat) /\ acts_.seg_ends_ \in Seq(Nat)
    BY <1>1 DEF ActsObject
  <2> QED
    BY <1>4, <2>1
<1>6. result \in TextKinds
  OBVIOUS
<1>7. info \in Seginfo /\ <<info.st_frm, info.end_frm>> = SegmentOf(acts_, i + 1)
  BY <1>5, <1>6 DEF Seginfo, SegmentOf
<1> QED
  BY <1>2, <1>4, <1>7

\* One that is posted does.
LEMMA PostedPosts ==
  ASSUME WorkInv, WorkInv', PostedInv, NEW result \in Results, PostSegment(result)
  PROVE  PostedInv'
<1>1. /\ d_pc \in {"seg", "last"} /\ i < ncur_seg_num /\ Suits
      /\ UNCHANGED <<acts_, nseg_done_, lost>>
  BY DEF PostSegment, AtSegment, DecoderStep
<1>2. PostsRight
  BY <1>1 DEF PostedInv
<1>3. acts_ \in ActsObject /\ i \in Nat /\ seginfos_ \in Seq(Seginfo)
  BY DEF WorkInv, WorkTypes, PostedInv
<1>4. /\ i + 1 \in 1..Len(acts_.seg_ends_) /\ i + 1 \in 1..Len(acts_.seg_sts_)
      /\ Len(acts_.seg_ends_) \in Nat
  BY <1>1, <1>2, <1>3 DEF ncur_seg_num, PostsRight, Judged, ActsObject
<1>5. CASE result \notin TextKinds
  BY <1>3, <1>5 DEF PostSegment, Goto, PostedInv
<1>6. CASE result \in TextKinds
  <2>1. /\ \/ d_pc = "last" /\ d_pc' = "last" /\ i' = i + 1
           \/ d_pc = "seg" /\ d_pc' = "seg_write" /\ i' = i
        /\ num_samples' = num_samples
    BY <1>1, <1>6 DEF PostSegment, Goto
  <2>2. PICK info \in Seginfo : /\ seginfos_' = Append(seginfos_, info)
                                /\ <<info.st_frm, info.end_frm>> = SegmentOf(acts_, i + 1)
    BY <1>6, PostsInfo
  <2>5. seginfos_' \in Seq(Seginfo)
    BY <1>3, <2>2
  <2>6. PostedOf(seginfos_') = Append(PostedOf(seginfos_), SegmentOf(acts_, i + 1))
    BY <1>3, <2>2, PostedOfAppend
  <2>7. Reached = i /\ Reached' = i + 1
    BY <1>1, <2>1 DEF Reached
  <2>8. Qualifying(acts_, i + 1) = Append(Qualifying(acts_, i), SegmentOf(acts_, i + 1))
    <3>1. SuitsOf(acts_, i + 1)
      BY <1>1 DEF Suits, Qualifies, SuitsOf
    <3> QED
      BY <1>3, <3>1, QualifyingNext
  <2>9. ~ lost' => PostedOf(seginfos_') = Qualifying(acts_', Reached')
    BY <1>1, <1>2, <2>6, <2>7, <2>8 DEF PostsRight
  <2>10. PostsRight'
    BY <1>1, <1>2, <1>4, <2>1, <2>7, <2>9 DEF PostsRight
  <2> QED
    BY <2>5, <2>10 DEF PostedInv
<1> QED
  BY <1>5, <1>6

\* PostedInv is preserved by the decoding thread.
LEMMA PostedDecoder ==
  ASSUME WorkInv, WorkInv', ReceivedInv, PostedInv, Decoder
  PROVE  PostedInv'
<1> DEFINE Covers(n) == n # 0 => Len(acts_.acts_) * SamplesPerFrame <= n
<1>1. d_pc \notin {"done", "failed", "thrown"}
  BY DecoderFrame DEF Idle
<1>2. /\ PostsRight
      /\ acts_ \in ActsObject /\ nseg_done_ \in Nat /\ i \in Nat
      /\ Len(acts_.seg_sts_) > 0 => Len(acts_.acts_) > 0
      /\ ncur_seg_num \in Nat
  BY <1>1 DEF PostedInv, WorkInv, WorkTypes, ncur_seg_num, ActsObject
<1>3. d_pc \in {"test", "seg", "seg_write", "last"} => Covers(num_samples)
  BY <1>2 DEF PostsRight
<1>4. ASSUME samples \in Nat, d_pc = "top" \/ (d_pc = "vad" /\ i >= nframes)
      PROVE  \A n \in SizeLoads : Covers(n)
  <2>1. \A n \in SizeLoads : n = samples \/ n = 0 \/ n = MaxSamples + 1
    BY DEF SizeLoads
  <2> DEFINE judged == Len(acts_.acts_) * SamplesPerFrame
  <2>2. judged <= samples
    BY <1>4, FramesWithinSamples
  <2>3. samples <= MaxSamples /\ MaxSamples \in Nat
    BY <1>4, SessionAssumption DEF ReceivedInv
  <2>4. judged \in Nat
    BY <1>2, SessionAssumption DEF ActsObject
  <2> HIDE DEF judged
  <2>5. judged <= MaxSamples + 1
    BY <1>4, <2>2, <2>3, <2>4
  <2> QED
    BY <2>1, <2>2, <2>5 DEF judged
<1>5. samples \in Nat
  BY DEF WorkInv, WorkTypes
<1> USE <1>1, <1>2 DEF DecoderStep, Goto, Reached
<1>6. CASE LoadCurSize
  BY <1>4, <1>5, <1>6, PostedKept DEF LoadCurSize, work
<1>7. CASE EndRecording
  <2>1. Judged(acts_') /\ Extends(acts_, acts_')
    BY <1>7, EndExtends DEF EndRecording, PostsRight
  <2>2. acts_'.acts_ = acts_.acts_
    BY <1>7, EndType DEF EndRecording
  <2> QED
    BY <1>3, <1>7, <2>1, <2>2, PostedStep DEF EndRecording
<1>8. CASE Turn
  BY <1>8, PostedKept DEF Turn, work
<1>9. CASE TakeRanges
  BY <1>9, PostedKept DEF TakeRanges, Takes
<1>10. CASE LoadNumSamples
  <2>1. PICK n \in SizeLoads :
          /\ d_pc = "vad" /\ i >= nframes /\ d_pc' = "seg" /\ i' = nseg_done_ /\ num_samples' = n
          /\ UNCHANGED <<nseg_done_, acts_, seginfos_, lost>>
    BY <1>10 DEF LoadNumSamples, Looks
  <2>2. Covers(n)
    BY <1>4, <1>5, <2>1
  <2> QED
    BY <2>1, <2>2, PostedKept
<1>11. CASE SkipSegment
  BY <1>11, PostedSkips
<1>12. CASE WriteSegments
  BY <1>3, <1>12, PostedKept DEF WriteSegments, Writes, work
<1>13. CASE NoteSegments
  <2>1. /\ d_pc = "seg" /\ i >= ncur_seg_num /\ nseg_done_' = ncur_seg_num
        /\ d_pc' \in {"temp", "top"}
        /\ UNCHANGED <<acts_, seginfos_, lost>>
    BY <1>13 DEF NoteSegments
  <2>2. Reached = ncur_seg_num /\ Reached' = ncur_seg_num
    BY <2>1 DEF PostsRight, ncur_seg_num
  <2> QED
    BY <2>1, <2>2 DEF PostedInv, PostsRight, ncur_seg_num
<1>14. CASE WritePreview
  BY <1>14, PostedKept DEF WritePreview, Writes, work
<1>15. CASE WriteFinal
  BY <1>15, PostedKept DEF WriteFinal, Writes, work, ncur_seg_num
<1>16. CASE WriteEnd
  BY <1>16, PostedKept DEF WriteEnd, Writes, work, ncur_seg_num
<1>17. CASE ResetSession
  BY <1>17 DEF ResetSession, PostedInv
<1>18. CASE Rescore
  BY <1>18, PostedKept DEF Rescore, Writes, work
<1>19. ASSUME NEW act \in {0, 1}, JudgeFrame(act)
       PROVE  PostedInv'
  <2>1. Judged(acts_') /\ Extends(acts_, acts_')
    BY <1>19, AddActExtends DEF JudgeFrame, PostsRight
  <2> QED
    BY <1>19, <2>1, PostedStep DEF JudgeFrame
<1>20. ASSUME NEW result \in Results, PostSegment(result)
       PROVE  PostedInv'
  BY <1>20, PostedPosts
<1>21. ASSUME NEW result \in Results, PostPreview(result)
       PROVE  PostedInv'
  BY <1>21, PostedKept DEF PostPreview, work
<1>22. ASSUME NEW result \in Results, PostWhole(result)
       PROVE  PostedInv'
  <2>1. /\ d_pc = "last" /\ i >= ncur_seg_num /\ d_pc' \in {"thrown", "final_write"}
        /\ UNCHANGED <<acts_, seginfos_, lost, nseg_done_>>
    BY <1>22 DEF PostWhole, work
  <2>2. Reached = ncur_seg_num /\ ncur_seg_num' = ncur_seg_num
    BY <2>1 DEF PostsRight, ncur_seg_num
  <2> QED
    BY <2>1, <2>2, PostedKept
<1> QED
  BY <1>6, <1>7, <1>8, <1>9, <1>10, <1>11, <1>12, <1>13, <1>14, <1>15, <1>16, <1>17,
     <1>18, <1>19, <1>20, <1>21, <1>22
  DEF Decoder

\* PostedInv is an invariant, given WorkInv and ReceivedInv.
LEMMA PostedInductive == Spec => []PostedInv
<1>1. Init => PostedInv
  <2> SUFFICES ASSUME Init
               PROVE  PostedInv
    OBVIOUS
  <2>1. /\ seginfos_ = <<>> /\ d_pc = "off" /\ nseg_done_ = 0
        /\ Len(acts_.seg_sts_) = 0 /\ Len(acts_.seg_ends_) = 0
    BY DEF Init, reset
  <2>2. seginfos_ \in Seq(Seginfo) /\ Judged(acts_) /\ Reached = 0
    BY <2>1 DEF Judged, Reached
  <2>3. Qualifying(acts_, 0) = <<>>
    <3>1. Len([k \in 1..0 |-> SegmentOf(acts_, k)]) = 0
      OBVIOUS
    <3> QED
      BY <3>1, SubsequenceEmpty DEF Qualifying
  <2>4. PostedOf(seginfos_) = <<>>
    BY <2>1 DEF PostedOf
  <2> QED
    BY <2>1, <2>2, <2>3, <2>4 DEF PostedInv, PostsRight
<1>2. ASSUME WorkInv, WorkInv', ReceivedInv, PostedInv, [Next]_vars
      PROVE  PostedInv'
  <2>1. CASE Decoder
    BY <1>2, <2>1, PostedDecoder
  <2>2. CASE UNCHANGED <<num_samples, i, work>> /\ (d_pc' = d_pc \/ (d_pc = "off" /\ d_pc' = "top"))
    <3>1. d_pc' \in {"test", "seg", "seg_write", "last"} /\ num_samples' # 0 =>
             Len(acts_.acts_) * SamplesPerFrame <= num_samples'
      BY <1>2, <2>2 DEF PostedInv, PostsRight
    <3> QED
      BY <1>2, <2>2, <3>1, PostedKept DEF work, Reached, ncur_seg_num
  <2> USE <1>2, <2>2 DEF ReaderStep, Moves
  <2>3. CASE Break
    BY <2>3 DEF Break
  <2>4. CASE Finished \/ UNCHANGED vars
    BY <2>4 DEF Finished, vars
  <2>5. CASE Accept
    BY <2>5 DEF Accept
  <2>6. CASE ReadThrows
    BY <2>6 DEF ReadThrows
  <2>7. CASE OnSpeechStart
    BY <2>7 DEF OnSpeechStart
  <2>8. CASE OnError
    BY <2>8 DEF OnError
  <2>9. CASE AppendSample
    BY <2>9 DEF AppendSample
  <2>10. CASE PushRange
    BY <2>10 DEF PushRange, MarksRange
  <2>11. CASE Join
    BY <2>11 DEF Join
  <2>12. CASE Unwind
    BY <2>12 DEF Unwind
  <2>13. CASE ReceiveStart
    BY <2>13 DEF ReceiveStart, ReadsText
  <2>14. CASE OnSpeechEnd
    BY <2>14 DEF OnSpeechEnd, EndsWith, ReadsText
  <2>15. CASE ReceiveWrong
    BY <2>15 DEF ReceiveWrong, ReadsText
  <2>16. ASSUME NEW n \in Chunks, ReceiveBinary(n)
         PROVE  PostedInv'
    BY <2>16 DEF ReceiveBinary
  <2> QED
    BY <2>1, <2>3, <2>4, <2>5, <2>6, <2>7, <2>8, <2>9, <2>10, <2>11, <2>12, <2>13,
       <2>14, <2>15, <2>16
    DEF Next, Reader, Receive
<1> QED
  BY <1>1, <1>2, WorkInductive, ReceivedInductive, PTL DEF Spec

\* Every segment that qualifies is posted once and in order, in every turn of the
\* loop and in both branches, unless a size that was loaded too small lost one.
THEOREM SegmentsPostedOnce == Spec => []SegmentsPosted
BY PostedInductive, PostedIsRight, PTL

\* A segment that is copied for a post ends at a frame that was judged, whatever
\* number of samples the guards were tested with.
LEMMA SegmentInBounds ==
  ASSUME WorkInv, PostedInv, AtSegment
  PROVE  acts_.seg_ends_[i + 1] * SamplesPerFrame + 1 <= samples
<1> DEFINE e == acts_.seg_ends_[i + 1]
           m == Len(acts_.acts_)
<1>1. /\ acts_ \in ActsObject /\ i \in Nat /\ samples \in Nat
      /\ SamplesPerFrame \in Nat \ {0}
  BY SessionAssumption DEF WorkInv, WorkTypes
<1>2. i + 1 \in 1..Len(acts_.seg_ends_) /\ acts_.seg_ends_ \in Seq(Nat) /\ m \in Nat
  BY <1>1 DEF AtSegment, ncur_seg_num, ActsObject
<1>3. e \in Nat /\ e < m
  BY <1>2 DEF AtSegment, PostedInv, PostsRight, Judged
<1>4. m * SamplesPerFrame <= samples
  BY FramesWithinSamples DEF AtSegment
<1> HIDE DEF e, m
<1>5. e + 1 <= m
  BY <1>2, <1>3
<1>6. (e + 1) * SamplesPerFrame <= m * SamplesPerFrame
  BY <1>1, <1>2, <1>3, <1>5
<1>7. (e + 1) * SamplesPerFrame = e * SamplesPerFrame + SamplesPerFrame
  BY <1>1, <1>3
<1>8. e * SamplesPerFrame \in Nat /\ m * SamplesPerFrame \in Nat
  BY <1>1, <1>2, <1>3
<1>9. e * SamplesPerFrame + 1 <= samples
  BY <1>1, <1>4, <1>6, <1>7, <1>8
<1> QED
  BY <1>9 DEF e

\* Whatever the messages and the verdicts are, and whenever the sizes are loaded,
\* the decoding thread copies and judges only samples that were received.
THEOREM NothingReadOutside == Spec => []CopiesInBounds
<1>1. WorkInv /\ PostedInv => CopiesInBounds
  BY JudgedInBounds, SegmentInBounds DEF CopiesInBounds
<1> QED
  BY <1>1, WorkInductive, PostedInductive, PTL
-----------------------------------------------------------------------------
(***************************************************************************)
(* The types of all variables.                                             *)
(***************************************************************************)
\* The types of what WorkInv says nothing of.
OtherTypes ==
  /\ state_ \in 0..3
  /\ stop_recognition_ \in BOOLEAN
  /\ r_pc \in ReaderPcs
  /\ left \in Nat
  /\ got_start_tag_ \in BOOLEAN
  /\ got_end_tag_ \in BOOLEAN
  /\ lost \in BOOLEAN
  /\ conn \in {"open", "broken", "closed"}
  /\ sent \in [type : {"none", "ready", "partial", "final", "end"}, text : Seq(Seginfo)]
  /\ proc \in {"up", "terminated", "killed", "fault"}

\* The text of a result is of segments that were posted.
LEMMA ResultType ==
  ASSUME seginfos_ \in Seq(Seginfo)
  PROVE  Get_segs_result \in Seq(Seginfo)
BY SubsequenceType DEF Get_segs_result

\* OtherTypes is preserved by a write of the decoding thread.
LEMMA TypesOfWrite ==
  ASSUME OtherTypes, NEW type \in {"partial", "final", "end"}, NEW text \in Seq(Seginfo),
         NEW pc, NEW k, NEW n, Writes(type, text, pc, k, n), stop_recognition_' \in BOOLEAN,
         UNCHANGED <<ranges, state_, r_pc, left, got_start_tag_, got_end_tag_, conn>>
  PROVE  OtherTypes'
BY DEF Writes, OtherTypes, work

\* OtherTypes is preserved by the decoding thread.
LEMMA TypesOfDecoder ==
  ASSUME WorkInv, PostedInv, OtherTypes, Decoder
  PROVE  OtherTypes'
<1>1. /\ proc' \in {"up", "killed", "fault"}
      /\ UNCHANGED <<ranges, state_, r_pc, left, got_start_tag_, got_end_tag_, conn>>
  BY DecoderFrame
<1>2. Get_segs_result \in Seq(Seginfo) /\ <<>> \in Seq(Seginfo) /\ sent.text \in Seq(Seginfo)
  BY ResultType DEF OtherTypes, PostedInv
<1>3. OtherTypes
  OBVIOUS
<1> USE <1>1
<1>4. CASE UNCHANGED <<stop_recognition_, lost, sent>>
  BY <1>3, <1>4 DEF OtherTypes
<1>5. CASE LoadCurSize
  BY <1>4, <1>5 DEF LoadCurSize, work
<1>6. CASE EndRecording
  BY <1>4, <1>6 DEF EndRecording
<1>7. CASE Turn
  BY <1>4, <1>7 DEF Turn, work
<1>8. CASE TakeRanges
  BY <1>4, <1>8 DEF TakeRanges, Takes
<1>9. CASE LoadNumSamples
  BY <1>4, <1>9 DEF LoadNumSamples, Looks
<1>10. CASE SkipSegment
  BY <1>3, <1>10 DEF SkipSegment, OtherTypes
<1>11. CASE WriteSegments
  BY <1>2, <1>3, <1>11, TypesOfWrite DEF WriteSegments, OtherTypes
<1>12. CASE NoteSegments
  BY <1>4, <1>12 DEF NoteSegments
<1>13. CASE WritePreview
  BY <1>2, <1>3, <1>13, TypesOfWrite DEF WritePreview, OtherTypes
<1>14. CASE WriteFinal
  BY <1>2, <1>3, <1>14, TypesOfWrite DEF WriteFinal, OtherTypes
<1>15. CASE WriteEnd
  BY <1>2, <1>3, <1>15, TypesOfWrite DEF WriteEnd, OtherTypes
<1>16. CASE ResetSession
  BY <1>3, <1>16 DEF ResetSession, OtherTypes
<1>17. CASE Rescore
  BY <1>2, <1>3, <1>17, TypesOfWrite DEF Rescore
<1>18. CASE \E act \in {0, 1} : JudgeFrame(act)
  BY <1>4, <1>18 DEF JudgeFrame
<1>19. CASE \E result \in Results : PostSegment(result)
  BY <1>4, <1>19 DEF PostSegment
<1>20. CASE \E result \in Results : PostPreview(result)
  BY <1>4, <1>20 DEF PostPreview, work
<1>21. CASE \E result \in Results : PostWhole(result)
  BY <1>4, <1>21 DEF PostWhole, work
<1> QED
  BY <1>5, <1>6, <1>7, <1>8, <1>9, <1>10, <1>11, <1>12, <1>13, <1>14, <1>15, <1>16, <1>17,
     <1>18, <1>19, <1>20, <1>21
  DEF Decoder

\* OtherTypes is an invariant, given WorkInv and PostedInv.
LEMMA TypesInductive == Spec => []OtherTypes
<1>1. ASSUME Init
      PROVE  OtherTypes
  <2>1. <<>> \in Seq(Seginfo)
    OBVIOUS
  <2>2. [type |-> "none", text |-> <<>>] \in
          [type : {"none", "ready", "partial", "final", "end"}, text : Seq(Seginfo)]
    BY <2>1
  <2>3. state_ \in 0..3
    BY <1>1, SessionAssumption DEF Init
  <2> QED
    BY <1>1, <2>2, <2>3 DEF Init, OtherTypes, ReaderPcs
<1>2. ASSUME WorkInv, PostedInv, OtherTypes, [Next]_vars
      PROVE  OtherTypes'
  <2>1. CASE Decoder
    BY <1>2, <2>1, TypesOfDecoder
  <2> USE <1>2 DEF OtherTypes, ReaderStep, Moves, ReaderPcs, work
  <2>2. CASE Break
    BY <2>2 DEF Break
  <2>3. CASE Finished \/ UNCHANGED vars
    BY <2>3 DEF Finished, vars
  <2>4. CASE Accept
    BY <2>4 DEF Accept
  <2>5. CASE ReadThrows
    BY <2>5 DEF ReadThrows
  <2>6. CASE OnSpeechStart
    BY <2>6 DEF OnSpeechStart
  <2>7. CASE OnError
    BY <2>7 DEF OnError
  <2>8. CASE AppendSample
    BY <2>8 DEF AppendSample
  <2>9. CASE PushRange
    BY <2>9 DEF PushRange, MarksRange
  <2>10. CASE Join
    BY <2>10 DEF Join
  <2>11. CASE Unwind
    BY <2>11 DEF Unwind
  <2>12. CASE ReceiveStart
    BY <2>12 DEF ReceiveStart, ReadsText
  <2>13. CASE OnSpeechEnd
    BY <2>13 DEF OnSpeechEnd, EndsWith, ReadsText
  <2>14. CASE ReceiveWrong
    BY <2>14 DEF ReceiveWrong, ReadsText
  <2>15. ASSUME NEW n \in Chunks, ReceiveBinary(n)
         PROVE  OtherTypes'
    <3>1. (IF n > Header THEN n - Header ELSE 0) \in Nat
      BY SessionAssumption
    <3> QED
      BY <2>15, <3>1 DEF ReceiveBinary
  <2> QED
    BY <2>1, <2>2, <2>3, <2>4, <2>5, <2>6, <2>7, <2>8, <2>9, <2>10, <2>11, <2>12, <2>13,
       <2>14, <2>15
    DEF Next, Reader, Receive
<1> QED
  BY <1>1, <1>2, WorkInductive, PostedInductive, PTL DEF Spec

\* The variables keep their types.
THEOREM TypesKept == Spec => []TypeOK
<1>1. WorkInv /\ PostedInv /\ OtherTypes => TypeOK
  BY DEF WorkInv, WorkTypes, PostedInv, OtherTypes, TypeOK
<1> QED
  BY <1>1, WorkInductive, PostedInductive, TypesInductive, PTL
-----------------------------------------------------------------------------
(***************************************************************************)
(* What the client is shown: the session implements Transcript.            *)
(***************************************************************************)
\* A sequence is a prefix of itself, and remains one of a sequence that grows.
LEMMA PrefixOfSelf ==
  ASSUME NEW S, NEW s \in Seq(S)
  PROVE  IsPrefix(s, s)
BY DEF IsPrefix

LEMMA PrefixAppend ==
  ASSUME NEW S, NEW s \in Seq(S), NEW t \in Seq(S), NEW e \in S, IsPrefix(s, t)
  PROVE  IsPrefix(s, Append(t, e))
<1>1. Len(s) <= Len(t) /\ SubSeq(s, 1, Len(s)) = SubSeq(t, 1, Len(s))
  BY DEF IsPrefix
<1>2. SubSeq(Append(t, e), 1, Len(s)) = SubSeq(t, 1, Len(s))
  BY <1>1
<1>3. Len(s) <= Len(Append(t, e))
  BY <1>1
<1> QED
  BY <1>1, <1>2, <1>3 DEF IsPrefix

\* One more segment posted leaves the text as it is or adds to its end.
LEMMA ResultGrows ==
  ASSUME seginfos_ \in Seq(Seginfo), NEW info \in Seginfo,
         seginfos_' = Append(seginfos_, info)
  PROVE  \/ Get_segs_result' = Get_segs_result
         \/ Get_segs_result' = Append(Get_segs_result, info)
<1> DEFINE s == seginfos_
           t == Append(seginfos_, info)
           M == {k \in DOMAIN s : Check(s[k].result)}
           N == {k \in DOMAIN t : Check(t[k].result)}
<1>1. /\ Len(s) \in Nat /\ Len(t) = Len(s) + 1 /\ t[Len(s) + 1] = info
      /\ DOMAIN s = 1..Len(s) /\ DOMAIN t = 1..(Len(s) + 1)
      /\ \A k \in 1..Len(s) : t[k] = s[k]
  OBVIOUS
<1>2. \A k \in 1..Len(s) : s[k] = t[k] /\ (k \in M <=> k \in N)
  BY <1>1
<1>3. Get_segs_result = Subsequence(s, M) /\ Get_segs_result' = Subsequence(t, N)
  BY DEF Get_segs_result
<1> HIDE DEF s, t, M, N
<1>4. Subsequence(t, N) = IF Len(t) \in N THEN Append(Subsequence(s, M), t[Len(t)])
                          ELSE Subsequence(s, M)
  BY <1>1, <1>2, SubsequenceAppend
<1> QED
  BY <1>1, <1>3, <1>4

\* What the client was shown last, wherever the decoding thread stands: nothing
\* before it exists, then the ready message or a partial result until the final
\* one, of a text that the next result keeps.
ShownInv ==
  /\ d_pc = "off" => sent = [type |-> "none", text |-> <<>>]
  /\ d_pc \notin {"off", "end_write", "reset", "done", "failed", "thrown"} =>
       sent.type \in {"ready", "partial"}
  /\ d_pc = "end_write" => sent.type = "final"
  /\ d_pc \notin {"off", "reset", "done", "failed", "thrown"} =>
       IsPrefix(sent.text, Get_segs_result)
  /\ d_pc # "rescore"

\* What a step shows the client is a step of a Transcript.
ShowsStep == [ClientView!Next]_<<sent.type, sent.text>>

\* A result is written: it keeps the text of the one before.
LEMMA ShownWrites ==
  ASSUME ShownInv, OtherTypes, PostedInv, NEW type \in {"partial", "final"}, NEW pc,
         NEW k, NEW n, Writes(type, Get_segs_result, pc, k, n),
         d_pc \in {"seg_write", "temp_write", "final_write"},
         type = "partial" => pc \in {"seg", "top"},
         type = "final" => pc = "end_write"
  PROVE  ShownInv' /\ ShowsStep
<1>1. /\ sent.type \in {"ready", "partial"}
      /\ IsPrefix(sent.text, Get_segs_result)
  BY DEF ShownInv
<1>2. Get_segs_result' = Get_segs_result
  BY DEF Writes, work, Get_segs_result
<1>3. IsPrefix(Get_segs_result, Get_segs_result)
  BY ResultType, PrefixOfSelf DEF PostedInv
<1>4. CASE sent' = [type |-> type, text |-> Get_segs_result] /\ d_pc' = pc
  <2>1. ShownInv'
    BY <1>2, <1>3, <1>4 DEF ShownInv
  <2>2. type = "partial" => ClientView!Partial
    BY <1>1, <1>4 DEF ClientView!Partial, ClientView!IsPrefix, IsPrefix
  <2>3. type = "final" => ClientView!Final
    BY <1>1, <1>4 DEF ClientView!Final, ClientView!IsPrefix, IsPrefix
  <2> QED
    BY <2>1, <2>2, <2>3 DEF ShowsStep, ClientView!Next
<1>5. CASE sent' = sent /\ d_pc' = "failed"
  BY <1>5 DEF ShownInv, ShowsStep
<1> QED
  BY <1>4, <1>5 DEF Writes, Goto

\* A step that shows nothing.
LEMMA ShownKept ==
  ASSUME ShownInv, UNCHANGED sent,
         d_pc' \notin {"reset", "done", "failed", "thrown"} => UNCHANGED seginfos_,
         \/ d_pc' \in {"reset", "done", "failed", "thrown"}
         \/ d_pc' = d_pc
         \/ /\ d_pc \notin {"off", "end_write", "reset", "done", "failed", "thrown"}
            /\ d_pc' \notin {"off", "end_write", "rescore"}
  PROVE  ShownInv' /\ ShowsStep
<1>1. d_pc' \notin {"reset", "done", "failed", "thrown"} => Get_segs_result' = Get_segs_result
  BY DEF Get_segs_result
<1> QED
  BY <1>1 DEF ShownInv, ShowsStep

\* ShownInv is preserved by the decoding thread, given the others.
LEMMA ShownDecoder ==
  ASSUME ShownInv, OtherTypes, PostedInv, WorkInv, FinalInv, Decoder
  PROVE  ShownInv' /\ ShowsStep
<1> USE DEF DecoderStep, Goto
<1>1. CASE LoadCurSize
  BY <1>1, ShownKept DEF LoadCurSize, work
<1>2. CASE EndRecording
  BY <1>2, ShownKept DEF EndRecording
<1>3. CASE Turn
  <2>1. state_ # 2
    BY DEF FinalInv
  <2> QED
    BY <1>3, <2>1, ShownKept DEF Turn, work
<1>4. CASE TakeRanges
  BY <1>4, ShownKept DEF TakeRanges, Takes
<1>5. CASE LoadNumSamples
  BY <1>5, ShownKept DEF LoadNumSamples, Looks
<1>6. CASE SkipSegment
  BY <1>6, ShownKept DEF SkipSegment, AtSegment
<1>7. CASE WriteSegments
  BY <1>7, ShownWrites DEF WriteSegments
<1>8. CASE NoteSegments
  BY <1>8, ShownKept DEF NoteSegments
<1>9. CASE WritePreview
  BY <1>9, ShownWrites DEF WritePreview
<1>10. CASE WriteFinal
  BY <1>10, ShownWrites DEF WriteFinal
<1>11. CASE WriteEnd
  <2>1. d_pc = "end_write" /\ sent.type = "final"
    BY <1>11 DEF WriteEnd, ShownInv
  <2>2. CASE sent' = [type |-> "end", text |-> sent.text] /\ d_pc' = "reset"
    BY <2>1, <2>2 DEF ShownInv, ShowsStep, ClientView!Next, ClientView!End
  <2>3. CASE sent' = sent /\ d_pc' = "failed"
    BY <2>3 DEF ShownInv, ShowsStep
  <2> QED
    BY <1>11, <2>2, <2>3 DEF WriteEnd, Writes
<1>12. CASE ResetSession
  BY <1>12, ShownKept DEF ResetSession
<1>13. CASE Rescore
  BY <1>13 DEF Rescore, ShownInv
<1>14. CASE \E act \in {0, 1} : JudgeFrame(act)
  BY <1>14, ShownKept DEF JudgeFrame
<1>15. ASSUME NEW result \in Results, PostSegment(result)
       PROVE  ShownInv' /\ ShowsStep
  <2>1. sent' = sent /\ d_pc \in {"seg", "last"}
    BY <1>15 DEF PostSegment, AtSegment
  <2>2. CASE result \notin TextKinds
    BY <1>15, <2>1, <2>2, ShownKept DEF PostSegment
  <2>3. CASE result \in TextKinds
    <3>1. PICK info : seginfos_' = Append(seginfos_, info) /\ info \in Seginfo
      BY <1>15, <2>3, PostsInfo DEF PostSegment
    <3>2. d_pc' \in {"last", "seg_write"}
      BY <1>15, <2>1, <2>3 DEF PostSegment
    <3>3. /\ sent.type \in {"ready", "partial"}
          /\ IsPrefix(sent.text, Get_segs_result)
      BY <2>1 DEF ShownInv
    <3>4. /\ sent.text \in Seq(Seginfo) /\ Get_segs_result \in Seq(Seginfo)
          /\ seginfos_ \in Seq(Seginfo)
      BY ResultType DEF OtherTypes, PostedInv
    <3>5. IsPrefix(sent.text, Get_segs_result')
      BY <3>1, <3>3, <3>4, ResultGrows, PrefixAppend
    <3> QED
      BY <2>1, <3>2, <3>3, <3>5 DEF ShownInv, ShowsStep
  <2> QED
    BY <2>2, <2>3
<1>16. ASSUME NEW result \in Results, PostPreview(result)
       PROVE  ShownInv' /\ ShowsStep
  BY <1>16, ShownKept DEF PostPreview, work
<1>17. ASSUME NEW result \in Results, PostWhole(result)
       PROVE  ShownInv' /\ ShowsStep
  BY <1>17, ShownKept DEF PostWhole, work
<1> QED
  BY <1>1, <1>2, <1>3, <1>4, <1>5, <1>6, <1>7, <1>8, <1>9, <1>10, <1>11, <1>12, <1>13,
     <1>14, <1>15, <1>16, <1>17
  DEF Decoder

\* Every step keeps ShownInv and shows what a Transcript shows.
LEMMA ShownNext ==
  ASSUME ShownInv, OtherTypes, PostedInv, WorkInv, FinalInv, PoliteInv, [Next]_vars
  PROVE  ShownInv' /\ ShowsStep
<1>1. CASE Decoder
  BY <1>1, ShownDecoder
<1>2. CASE UNCHANGED <<sent, seginfos_, d_pc>>
  BY <1>2, ShownKept
<1>3. CASE OnSpeechStart
  <2>1. /\ d_pc = "off" /\ sent = [type |-> "none", text |-> <<>>]
        /\ seginfos_' = seginfos_
    BY <1>3 DEF OnSpeechStart, ReaderStep, PoliteInv, ShownInv, work
  <2>2. CASE sent' = [sent EXCEPT !.type = "ready"] /\ d_pc' = "top"
    <3>1. sent' = [type |-> "ready", text |-> <<>>]
      BY <2>1, <2>2
    <3>2. IsPrefix(<<>>, Get_segs_result')
      <4>1. Get_segs_result' \in Seq(Seginfo)
        BY <2>1, ResultType DEF PostedInv, Get_segs_result
      <4> QED
        BY <4>1 DEF IsPrefix
    <3>3. ClientView!Ready
      BY <2>1, <3>1 DEF ClientView!Ready
    <3> QED
      BY <2>2, <3>1, <3>2, <3>3 DEF ShownInv, ShowsStep, ClientView!Next
  <2>3. CASE sent' = sent /\ d_pc' = d_pc
    BY <2>1, <2>3, ShownKept
  <2> QED
    BY <1>3, <2>1, <2>2, <2>3 DEF OnSpeechStart
<1> USE <1>2 DEF ReaderStep, Moves, work
<1>4. CASE Break
  BY <1>4 DEF Break
<1>5. CASE Finished \/ UNCHANGED vars
  BY <1>5 DEF Finished, vars
<1>6. CASE Accept
  BY <1>6 DEF Accept
<1>7. CASE ReadThrows
  BY <1>7 DEF ReadThrows
<1>8. CASE OnError
  BY <1>8 DEF OnError
<1>9. CASE AppendSample
  BY <1>9 DEF AppendSample
<1>10. CASE PushRange
  BY <1>10 DEF PushRange, MarksRange
<1>11. CASE Join
  BY <1>11 DEF Join
<1>12. CASE Unwind
  BY <1>12 DEF Unwind
<1>13. CASE ReceiveStart
  BY <1>13 DEF ReceiveStart, ReadsText
<1>14. CASE OnSpeechEnd
  BY <1>14 DEF OnSpeechEnd, EndsWith, ReadsText
<1>15. CASE ReceiveWrong
  BY <1>15 DEF ReceiveWrong, ReadsText
<1>16. ASSUME NEW n \in Chunks, ReceiveBinary(n)
       PROVE  ShownInv' /\ ShowsStep
  BY <1>16 DEF ReceiveBinary
<1> QED
  BY <1>1, <1>3, <1>4, <1>5, <1>6, <1>7, <1>8, <1>9, <1>10, <1>11, <1>12, <1>13, <1>14,
     <1>15, <1>16
  DEF Next, Reader, Receive

\* A client that follows the protocol is shown a Transcript, if the memory of
\* state_ does not happen to hold 2 or 3: the messages come in their order, and a
\* text that was shown is never changed or taken back by a later one.
THEOREM ShowsTranscript ==
  ASSUME Polite = TRUE, Uninit \subseteq {0, 1}
  PROVE  Spec => ImplementsTranscript
<1>1. ASSUME Init
      PROVE  ShownInv /\ ClientView!Init
  <2>1. Get_segs_result = <<>>
    BY <1>1, SubsequenceEmpty DEF Init, Get_segs_result
  <2>2. IsPrefix(<<>>, <<>>)
    BY DEF IsPrefix
  <2> QED
    BY <1>1, <2>1, <2>2 DEF Init, ShownInv, ClientView!Init
<1>2. ASSUME ShownInv, OtherTypes, PostedInv, WorkInv, FinalInv, PoliteInv, [Next]_vars
      PROVE  ShownInv' /\ [ClientView!Next]_<<sent.type, sent.text>>
  BY <1>2, ShownNext DEF ShowsStep
<1>3. Spec => [](OtherTypes /\ PostedInv /\ WorkInv /\ FinalInv /\ PoliteInv)
  BY TypesInductive, PostedInductive, WorkInductive, FinalInductive, PoliteInductive, PTL
<1>4. Spec => ClientView!Spec
  BY <1>1, <1>2, <1>3, PTL DEF Spec, ClientView!Spec, ClientView!vars
<1> QED
  BY <1>4 DEF ImplementsTranscript
=============================================================================
