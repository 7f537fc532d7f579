--------------------------- MODULE DetectorProofs ---------------------------
(***************************************************************************)
(* Proofs about Detector, for all tables of hangovers, and about Minima,   *)
(* for every number of entries and every age they are kept for.            *)
(***************************************************************************)
EXTENDS Detector, Minima, Induction, FiniteSetTheorems, SequenceTheorems, TLAPS

(***************************************************************************)
(* The hangover.                                                           *)
(***************************************************************************)

\* The counter is the number of frames of speech that came last, up to
\* MaxSpeechFrames.
RunCounted ==
  /\ num_of_speech \in 0..MaxSpeechFrames
  /\ num_of_speech <= Len(frames)
  /\ \A k \in Len(frames) - num_of_speech + 1..Len(frames) : frames[k].speech
  /\ \/ num_of_speech = MaxSpeechFrames
     \/ num_of_speech = Len(frames)
     \/ ~ frames[Len(frames) - num_of_speech].speech

\* What is left after frame n of the hangover of the speech that ended with m.
LeftOf(n, m) == IF HangOf(m) > n - m THEN HangOf(m) - (n - m) ELSE 0

\* The other counter is what is left of the hangover of the last speech.
HangoverLeft ==
  \/ /\ \A k \in 1..Len(frames) : ~ frames[k].speech
     /\ over_hang = 0
  \/ \E m \in 1..Len(frames) :
       SpeechBefore(Len(frames), m) /\ over_hang = LeftOf(Len(frames), m)

IInv ==
  /\ TypeOK
  /\ init_flag # kInitCheck => frames = <<>>
  /\ init_flag = kInitCheck => RunCounted /\ HangoverLeft
  /\ DecisionIsHangover

\* The invariant holds of a created instance.
LEMMA InitIInv == Init => IInv
<1> SUFFICES ASSUME Init
             PROVE  IInv
  OBVIOUS
<1>1. <<>> \in Seq(Frame)
  OBVIOUS
<1>2. TypeOK
  BY <1>1, DetectorAssumption DEF Init, TypeOK
<1> QED
  BY <1>2 DEF Init, IInv, DecisionIsHangover, kInitCheck

\* Nothing about the frames is left after WebRtcVad_Init.
LEMMA InitCoreIInv ==
  ASSUME IInv, InitCore
  PROVE  IInv'
<1>1. <<>> \in Seq(Frame) /\ Len(<<>>) = 0
  OBVIOUS
<1>2. TypeOK'
  BY <1>1, DetectorAssumption DEF IInv, TypeOK, InitCore
<1>3. RunCounted'
  BY <1>1, DetectorAssumption DEF InitCore, RunCounted
<1>4. HangoverLeft'
  BY <1>1 DEF InitCore, HangoverLeft
<1>5. DecisionIsHangover'
  BY DEF InitCore, DecisionIsHangover
<1> QED
  BY <1>2, <1>3, <1>4, <1>5 DEF IInv, InitCore

\* What holds of the frames does not depend on the mode.
LEMMA SetModeIInv ==
  ASSUME IInv, NEW new_mode \in Modes, set_mode(new_mode)
  PROVE  IInv'
BY DEF IInv, set_mode, TypeOK, RunCounted, HangoverLeft, DecisionIsHangover,
       Decided, SpeechBefore, LeftOf, HangOf, LongSpeech

\* A frame is added to the history.
LEMMA FrameAppended ==
  ASSUME TypeOK, NEW length \in Lengths, NEW speech \in BOOLEAN,
         WebRtcVad_Process(length, speech)
  PROVE  /\ frames' \in Seq(Frame)
         /\ Len(frames) \in Nat
         /\ Len(frames') = Len(frames) + 1
         /\ \A k \in 1..Len(frames) : frames'[k] = frames[k]
         /\ frames'[Len(frames) + 1] = IF speech THEN Speech(length) ELSE Silence
         /\ \A k \in 1..Len(frames) : frames[k] \in Frame
<1> DEFINE f == IF speech THEN Speech(length) ELSE Silence
<1>1. Silence \in Frame
  BY DEF Silence, Frame
<1>2. Speech(length) \in Frame
  <2>1. OverHangMax1[mode][length] \in Nat /\ OverHangMax2[mode][length] \in Nat
    BY DetectorAssumption DEF TypeOK, Hangs
  <2> QED
    BY <2>1 DEF Speech, Frame
<1>3. f \in Frame /\ frames \in Seq(Frame) /\ frames' = Append(frames, f)
  BY <1>1, <1>2 DEF TypeOK, WebRtcVad_Process
<1> HIDE DEF f
<1>4. /\ frames' \in Seq(Frame)
      /\ Len(frames) \in Nat
      /\ Len(frames') = Len(frames) + 1
      /\ \A k \in 1..Len(frames) : frames'[k] = frames[k]
      /\ frames'[Len(frames) + 1] = f
      /\ \A k \in 1..Len(frames) : frames[k] \in Frame
  BY <1>3
<1> QED
  BY <1>4 DEF f

\* A stretch of speech keeps its hangover.
LEMMA HangKept ==
  ASSUME Len(frames) \in Nat,
         \A k \in 1..Len(frames) : frames'[k] = frames[k],
         NEW m \in 1..Len(frames)
  PROVE  HangOf(m)' = HangOf(m)
<1>1. \A k \in m - MaxSpeechFrames..m :
        m > MaxSpeechFrames => frames'[k] = frames[k]
  BY DetectorAssumption
<1>2. LongSpeech(m)' <=> LongSpeech(m)
  BY <1>1 DEF LongSpeech
<1> QED
  BY <1>2 DEF HangOf

\* The definitions after a step, at a given frame.
LEMMA LongSpeechNext ==
  ASSUME NEW m \in Nat
  PROVE  LongSpeech(m)' <=>
           /\ m > MaxSpeechFrames
           /\ \A k \in m - MaxSpeechFrames..m : frames'[k].speech
BY DEF LongSpeech

LEMMA DecisionNext ==
  ASSUME NEW m \in Nat, Len(frames') = m, Decided(m, vad)'
  PROVE  DecisionIsHangover'
BY DEF DecisionIsHangover, Decided

\* The hangover of a frame is a number of frames.
LEMMA HangIsNat ==
  ASSUME \A k \in 1..Len(frames) : frames[k] \in Frame, NEW m \in 1..Len(frames)
  PROVE  HangOf(m) \in Nat
BY DEF HangOf, Frame

\* A frame of speech has the hangover that its stretch of speech deserves.
LEMMA SpeechIInv ==
  ASSUME IInv, NEW length \in Lengths, WebRtcVad_Process(length, TRUE),
         NEW n \in Nat, n = Len(frames)
  PROVE  IInv'
<1>1. /\ frames' \in Seq(Frame)
      /\ Len(frames) = n
      /\ Len(frames') = n + 1
      /\ \A k \in 1..n : frames'[k] = frames[k]
      /\ frames'[n + 1] = Speech(length)
  BY FrameAppended DEF IInv
<1>2. Active(length) /\ init_flag = kInitCheck /\ init_flag' = init_flag /\ mode' = mode
  BY DEF WebRtcVad_Process
<1>3. RunCounted
  BY <1>2 DEF IInv
<1> num_of_speech \in 0..n /\ MaxSpeechFrames \in Nat
  BY <1>1, <1>3, DetectorAssumption DEF RunCounted
<1>4. frames'[n + 1].speech /\ frames'[n + 1].short = OverHangMax1[mode][length]
        /\ frames'[n + 1].long = OverHangMax2[mode][length]
  BY <1>1 DEF Speech
<1>5. OverHangMax1[mode][length] \in Nat /\ OverHangMax2[mode][length] \in Nat
  BY DetectorAssumption DEF IInv, TypeOK, Hangs
<1>6. TypeOK'
  BY <1>1, <1>2, <1>5, DetectorAssumption DEF IInv, TypeOK, Active
<1>7. RunCounted'
  <2>1. CASE num_of_speech = MaxSpeechFrames
    <3>1. num_of_speech' = MaxSpeechFrames
      BY <1>2, <2>1, DetectorAssumption DEF Active
    <3>2. ASSUME NEW k \in n + 1 - MaxSpeechFrames + 1..n + 1
          PROVE  frames'[k].speech
      <4>1. CASE k = n + 1
        BY <1>4, <4>1
      <4>2. CASE k # n + 1
        <5>1. k \in 1..n /\ k \in n - num_of_speech + 1..n
          BY <1>1, <1>3, <2>1, <4>2, DetectorAssumption DEF RunCounted
        <5> QED
          BY <1>1, <1>3, <5>1 DEF RunCounted
      <4> QED
        BY <4>1, <4>2
    <3> QED
      BY <1>1, <1>3, <2>1, <3>1, <3>2, DetectorAssumption DEF RunCounted
  <2>2. CASE num_of_speech # MaxSpeechFrames
    <3>1. num_of_speech' = num_of_speech + 1 /\ num_of_speech' <= MaxSpeechFrames
      BY <1>2, <1>3, <2>2, DetectorAssumption DEF Active, RunCounted
    <3>2. ASSUME NEW k \in n + 1 - num_of_speech' + 1..n + 1
          PROVE  frames'[k].speech
      <4>1. CASE k = n + 1
        BY <1>4, <4>1
      <4>2. CASE k # n + 1
        <5>1. k \in 1..n /\ k \in n - num_of_speech + 1..n
          BY <1>1, <1>3, <3>1, <4>2, DetectorAssumption DEF RunCounted
        <5> QED
          BY <1>1, <1>3, <5>1 DEF RunCounted
      <4> QED
        BY <4>1, <4>2
    <3>3. \/ num_of_speech' = n + 1
          \/ ~ frames'[n + 1 - num_of_speech'].speech
      <4>1. n + 1 - num_of_speech' = n - num_of_speech
        BY <1>1, <1>3, <3>1, DetectorAssumption DEF RunCounted
      <4>2. CASE num_of_speech = n
        BY <3>1, <4>2
      <4>3. CASE num_of_speech # n
        <5>1. n - num_of_speech \in 1..n
          BY <1>1, <1>3, <4>3, DetectorAssumption DEF RunCounted
        <5> QED
          BY <1>1, <1>3, <2>2, <4>1, <4>3, <5>1 DEF RunCounted
      <4> QED
        BY <4>2, <4>3
    <3> QED
      BY <1>1, <1>3, <3>1, <3>2, <3>3, DetectorAssumption DEF RunCounted
  <2> QED
    BY <2>1, <2>2
<1>8. LongSpeech(n + 1)' <=> num_of_speech = MaxSpeechFrames
  <2>1. CASE num_of_speech = MaxSpeechFrames
    <3>1. n + 1 > MaxSpeechFrames
      BY <1>1, <1>3, <2>1, DetectorAssumption DEF RunCounted
    <3>2. ASSUME NEW k \in n + 1 - MaxSpeechFrames..n + 1
          PROVE  frames'[k].speech
      <4>1. CASE k = n + 1
        BY <1>4, <4>1
      <4>2. CASE k # n + 1
        <5>1. k \in 1..n /\ k \in n - num_of_speech + 1..n
          BY <1>1, <1>3, <2>1, <4>2, DetectorAssumption DEF RunCounted
        <5> QED
          BY <1>1, <1>3, <5>1 DEF RunCounted
      <4> QED
        BY <4>1, <4>2
    <3>3. LongSpeech(n + 1)'
      BY <3>1, <3>2, LongSpeechNext
    <3> QED
      BY <2>1, <3>3
  <2>2. CASE num_of_speech # MaxSpeechFrames /\ num_of_speech = n
    BY <1>1, <1>3, <2>2, DetectorAssumption DEF RunCounted, LongSpeech
  <2>3. CASE num_of_speech # MaxSpeechFrames /\ num_of_speech # n
    <3>1. /\ n - num_of_speech \in 1..n
          /\ n - num_of_speech \in n + 1 - MaxSpeechFrames..n + 1
      BY <1>1, <1>3, <2>3, DetectorAssumption DEF RunCounted
    <3>2. ~ frames'[n - num_of_speech].speech
      BY <1>1, <1>3, <2>3, <3>1 DEF RunCounted
    <3>3. ~ LongSpeech(n + 1)'
      BY <3>1, <3>2, LongSpeechNext
    <3> QED
      BY <2>3, <3>3
  <2> QED
    BY <2>1, <2>2, <2>3
<1>9. over_hang' = HangOf(n + 1)' /\ HangOf(n + 1)' \in Nat
  <2>1. CASE num_of_speech = MaxSpeechFrames
    BY <1>2, <1>4, <1>5, <1>8, <2>1, DetectorAssumption DEF Active, HangOf
  <2>2. CASE num_of_speech # MaxSpeechFrames
    BY <1>2, <1>3, <1>4, <1>5, <1>8, <2>2, DetectorAssumption DEF Active, HangOf, RunCounted
  <2> QED
    BY <2>1, <2>2
<1>10. HangoverLeft'
  <2>1. SpeechBefore(n + 1, n + 1)'
    BY <1>1, <1>4 DEF SpeechBefore
  <2>2. over_hang' = LeftOf(n + 1, n + 1)'
    BY <1>1, <1>9 DEF LeftOf
  <2> QED
    BY <1>1, <2>1, <2>2 DEF HangoverLeft
<1>11. DecisionIsHangover'
  BY <1>1, <1>2, <1>4 DEF Active, DecisionIsHangover, Decided
<1> QED
  BY <1>2, <1>6, <1>7, <1>10, <1>11 DEF IInv

\* A frame without speech takes one from the hangover of the last speech.
LEMMA SilenceIInv ==
  ASSUME IInv, NEW length \in Lengths, WebRtcVad_Process(length, FALSE),
         NEW n \in Nat, n = Len(frames)
  PROVE  IInv'
<1>1. /\ frames' \in Seq(Frame)
      /\ Len(frames) = n
      /\ Len(frames') = n + 1
      /\ \A k \in 1..n : frames'[k] = frames[k]
      /\ frames'[n + 1] = Silence
      /\ \A k \in 1..n : frames[k] \in Frame
  BY FrameAppended DEF IInv
<1>2. Hangover /\ init_flag = kInitCheck /\ init_flag' = init_flag /\ mode' = mode
  BY DEF WebRtcVad_Process
<1>3. HangoverLeft /\ over_hang \in Nat
  BY <1>2 DEF IInv, TypeOK
<1>4. ~ frames'[n + 1].speech
  BY <1>1 DEF Silence
<1>5. TypeOK'
  BY <1>1, <1>2 DEF IInv, TypeOK, Hangover
<1>6. RunCounted'
  BY <1>1, <1>2, <1>4, DetectorAssumption DEF Hangover, RunCounted
<1>7. CASE \A k \in 1..n : ~ frames[k].speech
  <2>1. \A k \in 1..n + 1 : ~ frames'[k].speech
    BY <1>1, <1>4, <1>7
  <2>2. over_hang = 0
    BY <1>1, <1>3, <1>7 DEF HangoverLeft, SpeechBefore
  <2>3. vad' = 0 /\ over_hang' = 0
    BY <1>2, <2>2 DEF Hangover
  <2>4. HangoverLeft'
    BY <1>1, <2>1, <2>3 DEF HangoverLeft
  <2>5. Decided(n + 1, 0)'
    BY <1>4, <2>1 DEF Decided, SpeechBefore
  <2>6. DecisionIsHangover'
    BY <1>1, <2>3, <2>5 DEF DecisionIsHangover
  <2> QED
    BY <1>2, <1>5, <1>6, <2>4, <2>6 DEF IInv
<1>8. CASE \E k \in 1..n : frames[k].speech
  <2>1. PICK m \in 1..n : SpeechBefore(n, m) /\ over_hang = LeftOf(n, m)
    BY <1>1, <1>3, <1>8 DEF HangoverLeft
  <2>2. HangOf(m)' = HangOf(m) /\ HangOf(m) \in Nat
    BY <1>1, HangKept, HangIsNat
  <2>3. SpeechBefore(n + 1, m)'
    BY <1>1, <1>4, <2>1 DEF SpeechBefore
  <2>4. over_hang' = LeftOf(n + 1, m)'
    BY <1>2, <1>3, <2>1, <2>2 DEF Hangover, LeftOf
  <2>5. HangoverLeft'
    BY <1>1, <2>3, <2>4 DEF HangoverLeft
  <2>6. \A k \in 1..n : SpeechBefore(n + 1, k)' => k = m
    BY <2>3 DEF SpeechBefore
  <2>7. ASSUME over_hang > 0
        PROVE  DecisionIsHangover'
    <3>1. n + 1 - m <= HangOf(m)' /\ vad' = 3 + HangOf(m)' - (n + 1 - m)
      BY <1>2, <2>1, <2>2, <2>7 DEF Hangover, LeftOf
    <3>2. m \in 1..n + 1 - 1
      OBVIOUS
    <3>3. Decided(n + 1, vad)'
      BY <1>4, <2>3, <3>1, <3>2 DEF Decided
    <3> QED
      BY <1>1, <3>3, DecisionNext
  <2>8. ASSUME over_hang = 0
        PROVE  DecisionIsHangover'
    <3>1. n + 1 - m > HangOf(m)' /\ vad' = 0
      BY <1>2, <2>1, <2>2, <2>8 DEF Hangover, LeftOf
    <3>2. \A k \in 1..n + 1 - 1 :
            SpeechBefore(n + 1, k)' => n + 1 - k > HangOf(k)'
      BY <2>6, <3>1
    <3>3. Decided(n + 1, vad)'
      BY <1>4, <3>1, <3>2 DEF Decided
    <3> QED
      BY <1>1, <3>3, DecisionNext
  <2> QED
    BY <1>2, <1>3, <1>5, <1>6, <2>5, <2>7, <2>8 DEF IInv
<1> QED
  BY <1>7, <1>8

LEMMA IInvInductive == Spec => []IInv
<1>1. ASSUME IInv, [Next]_vars
      PROVE  IInv'
  <2>1. CASE InitCore
    BY <1>1, <2>1, InitCoreIInv
  <2>2. CASE \E new_mode \in Modes : set_mode(new_mode)
    BY <1>1, <2>2, SetModeIInv
  <2>3. ASSUME NEW length \in Lengths, NEW speech \in BOOLEAN,
               WebRtcVad_Process(length, speech)
        PROVE  IInv'
    <3>1. Len(frames) \in Nat
      BY <1>1 DEF IInv, TypeOK
    <3>2. PICK n \in Nat : n = Len(frames)
      BY <3>1
    <3>3. CASE speech
      BY <1>1, <2>3, <3>2, <3>3, SpeechIInv
    <3>4. CASE ~ speech
      BY <1>1, <2>3, <3>2, <3>4, SilenceIInv
    <3> QED
      BY <3>3, <3>4
  <2>4. CASE UNCHANGED vars
    BY <1>1, <2>4 DEF vars, IInv, TypeOK, RunCounted, HangoverLeft, DecisionIsHangover,
                      Decided, SpeechBefore, LeftOf, HangOf, LongSpeech
  <2> QED
    BY <1>1, <2>1, <2>2, <2>3, <2>4 DEF Next
<1> QED
  BY InitIInv, <1>1, PTL DEF Spec

\* The fields of an instance keep their types.
THEOREM TypeCorrect == Spec => []TypeOK
<1>1. IInv => TypeOK
  BY DEF IInv
<1> QED
  BY <1>1, IInvInductive, PTL

\* The decisions are those of the reference definition, which sees the frames only:
\* speech, and after its end the hangover it deserves.
THEOREM HangoverCorrect == Spec => []DecisionIsHangover
<1>1. IInv => DecisionIsHangover
  BY DEF IInv
<1> QED
  BY <1>1, IInvInductive, PTL

(***************************************************************************)
(* The moving minimum.                                                     *)
(***************************************************************************)
\* What an entry is, in all its uses.
Entry == [value : 0..Big, age : Nat, born : Nat]

\* The entries of a channel: Size, in order.
Places(entries) == entries \in Seq(Entry) /\ Len(entries) = Size

\* s without its element at place k, and with e at the end.
Shifted(s, k, e) == Append(RemoveAt(s, k), e)

\* An entry taken out of its place, and another at the end.
LEMMA Replaced ==
  ASSUME NEW s, Places(s), NEW k \in 1..Size, NEW e \in Entry,
         NEW t, t = Shifted(s, k, e)
  PROVE  /\ Places(t)
         /\ \A j \in 1..Size :
              t[j] = IF j < k THEN s[j] ELSE IF j < Size THEN s[j + 1] ELSE e
<1> DEFINE low == SubSeq(s, 1, k - 1)
           high == SubSeq(s, k + 1, Len(s))
           left == low \o high
<1>1. Size \in Nat /\ k \in Nat /\ k \in 1..Size /\ Len(s) = Size /\ s \in Seq(Entry)
  BY MinimaAssumption DEF Places
<1>2. \A j \in 1..Size : s[j] \in Entry
  BY <1>1
<1>3. /\ low \in Seq(Entry) /\ Len(low) = k - 1
      /\ \A j \in 1..k - 1 : low[j] = s[j]
  <2>1. 1 \in Int /\ k - 1 \in Int /\ \A j \in 1..k - 1 : s[j] \in Entry
    BY <1>1, <1>2
  <2> QED
    BY <2>1, <1>1, SubSeqProperties
<1>4. /\ high \in Seq(Entry) /\ Len(high) = Size - k
      /\ \A j \in 1..Size - k : high[j] = s[k + j]
  <2>1. k + 1 \in Int /\ Len(s) \in Int /\ \A j \in k + 1..Len(s) : s[j] \in Entry
    BY <1>1, <1>2
  <2> HIDE DEF high
  <2>2. /\ high \in Seq(Entry)
        /\ Len(high) = IF k + 1 <= Len(s) THEN Len(s) - (k + 1) + 1 ELSE 0
        /\ \A j \in 1..Len(s) - (k + 1) + 1 : high[j] = s[k + 1 + j - 1]
    BY <2>1, SubSeqProperties DEF high
  <2> QED
    BY <2>2, <1>1
<1> HIDE DEF low, high
<1>5. /\ left \in Seq(Entry) /\ Len(left) = Size - 1
      /\ \A j \in 1..Size - 1 : left[j] = IF j < k THEN s[j] ELSE s[j + 1]
  <2>1. /\ left \in Seq(Entry) /\ Len(left) = Len(low) + Len(high)
        /\ \A j \in 1..Len(low) + Len(high) :
             left[j] = IF j <= Len(low) THEN low[j] ELSE high[j - Len(low)]
    BY <1>3, <1>4, ConcatProperties
  <2> HIDE DEF left
  <2>2. Len(left) = Size - 1
    BY <2>1, <1>1, <1>3, <1>4
  <2>3. ASSUME NEW j \in 1..Size - 1
        PROVE  left[j] = IF j < k THEN s[j] ELSE s[j + 1]
    <3>1. CASE j < k
      BY <3>1, <2>1, <1>1, <1>3, <1>4
    <3>2. CASE ~ (j < k)
      <4>1. left[j] = high[j - (k - 1)] /\ j - (k - 1) \in 1..Size - k /\ k + (j - (k - 1)) = j + 1
        BY <3>2, <2>1, <1>1, <1>3, <1>4
      <4> QED
        BY <4>1, <1>4, <3>2
    <3> QED
      BY <3>1, <3>2
  <2> QED
    BY <2>1, <2>2, <2>3
<1>6. t = Append(left, e)
  BY DEF Shifted, RemoveAt, left, low, high
<1> HIDE DEF left
<1>7. /\ t \in Seq(Entry) /\ Len(t) = Size
      /\ \A j \in 1..Size : t[j] = IF j < Size THEN left[j] ELSE e
  BY <1>1, <1>5, <1>6
<1>8. Places(t)
  BY <1>7 DEF Places
<1>9. ASSUME NEW j \in 1..Size
      PROVE  t[j] = IF j < k THEN s[j] ELSE IF j < Size THEN s[j + 1] ELSE e
  BY <1>1, <1>5, <1>7
<1> QED
  BY <1>8, <1>9

\* s with e before its element at place p, and without its last.
PutAt(s, p, e) == SubSeq(InsertAt(s, p, e), 1, Size)

\* An entry put before another, and the last of them left out.
LEMMA PutBefore ==
  ASSUME NEW s, Places(s), NEW p \in 1..Size, NEW e \in Entry,
         NEW t, t = PutAt(s, p, e)
  PROVE  /\ Places(t)
         /\ \A j \in 1..Size :
              t[j] = IF j < p THEN s[j] ELSE IF j = p THEN e ELSE s[j - 1]
<1> DEFINE low == SubSeq(s, 1, p - 1)
           high == SubSeq(s, p, Len(s))
           front == low \o <<e>>
           all == front \o high
<1>1. Size \in Nat /\ p \in Nat /\ p \in 1..Size /\ Len(s) = Size /\ s \in Seq(Entry)
  BY MinimaAssumption DEF Places
<1>2. \A j \in 1..Size : s[j] \in Entry
  BY <1>1
<1>3. /\ low \in Seq(Entry) /\ Len(low) = p - 1
      /\ \A j \in 1..p - 1 : low[j] = s[j]
  <2>1. 1 \in Int /\ p - 1 \in Int /\ \A j \in 1..p - 1 : s[j] \in Entry
    BY <1>1, <1>2
  <2> QED
    BY <2>1, <1>1, SubSeqProperties
<1>4. /\ high \in Seq(Entry) /\ Len(high) = Size - p + 1
      /\ \A j \in 1..Size - p + 1 : high[j] = s[p + j - 1]
  <2>1. p \in Int /\ Len(s) \in Int /\ \A j \in p..Len(s) : s[j] \in Entry
    BY <1>1, <1>2
  <2> HIDE DEF high
  <2>2. /\ high \in Seq(Entry)
        /\ Len(high) = IF p <= Len(s) THEN Len(s) - p + 1 ELSE 0
        /\ \A j \in 1..Len(s) - p + 1 : high[j] = s[p + j - 1]
    BY <2>1, SubSeqProperties DEF high
  <2> QED
    BY <2>2, <1>1
<1> HIDE DEF low, high
<1>5. /\ front \in Seq(Entry) /\ Len(front) = p
      /\ \A j \in 1..p : front[j] = IF j < p THEN s[j] ELSE e
  <2>1. front = Append(low, e)
    BY <1>3
  <2> HIDE DEF front
  <2> QED
    BY <2>1, <1>1, <1>3
<1> HIDE DEF front
<1>6. /\ all \in Seq(Entry) /\ Len(all) = Size + 1
      /\ \A j \in 1..Size + 1 :
           all[j] = IF j < p THEN s[j] ELSE IF j = p THEN e ELSE s[j - 1]
  <2>1. /\ all \in Seq(Entry) /\ Len(all) = Len(front) + Len(high)
        /\ \A j \in 1..Len(front) + Len(high) :
             all[j] = IF j <= Len(front) THEN front[j] ELSE high[j - Len(front)]
    BY <1>5, <1>4, ConcatProperties
  <2> HIDE DEF all
  <2>2. Len(all) = Size + 1
    BY <2>1, <1>1, <1>5, <1>4
  <2>3. ASSUME NEW j \in 1..Size + 1
        PROVE  all[j] = IF j < p THEN s[j] ELSE IF j = p THEN e ELSE s[j - 1]
    <3>0. p \in Nat /\ j \in Nat /\ Len(front) = p /\ Len(high) = Size - p + 1
      BY <1>1, <1>4, <1>5
    <3>1. CASE j <= p
      <4>1. j \in 1..p /\ j \in 1..Len(front) + Len(high) /\ j <= Len(front)
        BY <1>1, <3>0, <3>1
      <4>2. all[j] = front[j]
        BY <2>1, <4>1
      <4> QED
        BY <1>5, <3>1, <4>1, <4>2
    <3>2. CASE ~ (j <= p)
      <4>1. /\ j \in 1..Len(front) + Len(high) /\ ~ (j <= Len(front)) /\ j - Len(front) = j - p
            /\ j - p \in 1..Size - p + 1 /\ p + (j - p) - 1 = j - 1
        BY <1>1, <3>0, <3>2
      <4>2. all[j] = high[j - p]
        BY <2>1, <4>1
      <4>3. high[j - p] = s[j - 1]
        BY <1>4, <4>1
      <4>4. ~ (j < p) /\ j # p
        BY <3>0, <3>2
      <4> QED
        BY <4>2, <4>3, <4>4
    <3> QED
      BY <3>1, <3>2
  <2> QED
    BY <2>1, <2>2, <2>3
<1>7. t = SubSeq(all, 1, Size)
  BY DEF PutAt, InsertAt, all, front, low, high
<1> HIDE DEF all
<1>8. /\ t \in Seq(Entry) /\ Len(t) = Size
      /\ \A j \in 1..Size : t[j] = all[j]
  <2>1. 1 \in Int /\ Size \in Int /\ \A j \in 1..Size : all[j] \in Entry
    BY <1>1, <1>6
  <2>2. /\ t \in Seq(Entry) /\ Len(t) = IF 1 <= Size THEN Size - 1 + 1 ELSE 0
        /\ \A j \in 1..Size - 1 + 1 : t[j] = all[1 + j - 1]
    BY <1>7, <2>1, SubSeqProperties
  <2> QED
    BY <2>2, <1>1
<1>9. Places(t)
  BY <1>8 DEF Places
<1>10. ASSUME NEW j \in 1..Size
       PROVE  t[j] = IF j < p THEN s[j] ELSE IF j = p THEN e ELSE s[j - 1]
  BY <1>1, <1>6, <1>8
<1> QED
  BY <1>9, <1>10

\* The places the entries had: 0 for one that was removed.
Origins == [1..Size -> 0..Size]

\* The loop passed over the entry at place j, as the one before it was removed.
PassedOver(o, j) ==
  /\ o[j] > 1
  /\ minima[o[j] - 1].age = MaxAge
  /\ \A i \in 1..Size : o[i] # o[j] - 1

\* What is where one was removed.
Void(entry) == entry.value = Big /\ entry.born = 0

\* The origins are in order, and the removed are the last.
InOrder(o) == \A i, j \in 1..Size : i < j /\ o[j] # 0 => o[i] # 0 /\ o[i] < o[j]

\* What the loop has done after place k.
Traced(s, o, k) ==
  /\ Places(s)
  /\ o \in Origins
  /\ InOrder(o)
  /\ \A j \in 1..Size : o[j] = 0 => Void(s[j])
  /\ \A j \in 1..k : o[j] # 0 =>
       \/ minima[o[j]].age # MaxAge /\ s[j] = [minima[o[j]] EXCEPT !.age = @ + 1]
       \/ PassedOver(o, j) /\ s[j] = minima[o[j]]
  /\ \A j \in k + 1..Size : o[j] # 0 => s[j] = minima[o[j]]
  /\ \A j \in k + 1..Size - 1 : o[j + 1] # 0 => o[j + 1] = o[j] + 1

\* The loop at a place: the entry there gets older, or is removed.
LEMMA AgeAtTraced ==
  ASSUME Places(minima), NEW k \in 0..Size - 1, NEW s, NEW o, Traced(s, o, k)
  PROVE  \E p : Traced(AgeAt(s, k + 1), p, k + 1)
<1> DEFINE q == k + 1
           t == AgeAt(s, q)
<1>1. /\ Size \in Nat /\ k \in Nat /\ q \in 1..Size /\ MaxAge \in Nat /\ MaxAge > 0
      /\ Big \in Nat /\ Big > 0
  BY MinimaAssumption DEF Big
<1>2. Places(s) /\ o \in Origins /\ InOrder(o)
  BY DEF Traced
<1>3. \A j \in 1..Size : s[j] \in Entry /\ minima[j] \in Entry /\ o[j] \in 0..Size
  BY <1>2 DEF Places, Origins
<1>4. \A j \in 1..Size : o[j] = 0 => Void(s[j])
  BY DEF Traced
<1>5. \A j \in 1..k : o[j] # 0 =>
        \/ minima[o[j]].age # MaxAge /\ s[j] = [minima[o[j]] EXCEPT !.age = @ + 1]
        \/ PassedOver(o, j) /\ s[j] = minima[o[j]]
  BY DEF Traced
<1>6. \A j \in q..Size : o[j] # 0 => s[j] = minima[o[j]]
  BY DEF Traced
<1>7. \A j \in q..Size - 1 : o[j + 1] # 0 => o[j + 1] = o[j] + 1
  BY DEF Traced
<1>8. CASE s[q].age # MaxAge
  <2> DEFINE e == [s[q] EXCEPT !.age = @ + 1]
  <2>1. t = [s EXCEPT ![q] = e]
    BY <1>8 DEF AgeAt
  <2>2. e \in Entry /\ e.value = s[q].value /\ e.born = s[q].born
    BY <1>1, <1>3 DEF Entry
  <2> HIDE DEF t
  <2>3. /\ t \in Seq(Entry) /\ Len(t) = Size
        /\ \A j \in 1..Size : t[j] = IF j = q THEN e ELSE s[j]
    <3> HIDE DEF e
    <3>1. s \in Seq(Entry) /\ Len(s) = Size /\ q \in 1..Len(s)
      BY <1>1, <1>2 DEF Places
    <3> HIDE DEF q
    <3> QED
      BY <2>1, <2>2, <3>1, ExceptSeq
  <2>4. Places(t)
    BY <2>3 DEF Places
  <2>5. \A j \in 1..Size : o[j] = 0 => Void(t[j])
    BY <1>1, <1>4, <2>2, <2>3 DEF Void
  <2>6. ASSUME NEW j \in 1..q, o[j] # 0
        PROVE  \/ minima[o[j]].age # MaxAge /\ t[j] = [minima[o[j]] EXCEPT !.age = @ + 1]
               \/ PassedOver(o, j) /\ t[j] = minima[o[j]]
    <3>1. CASE j = q
      BY <1>1, <1>6, <1>8, <2>3, <2>6, <3>1
    <3>2. CASE j # q
      <4>1. j \in 1..k /\ j \in 1..Size
        BY <1>1, <3>2
      <4>2. t[j] = s[j]
        BY <2>3, <3>2, <4>1
      <4> QED
        BY <1>5, <2>6, <4>1, <4>2
    <3> QED
      BY <3>1, <3>2
  <2>7. ASSUME NEW j \in q + 1..Size, o[j] # 0
        PROVE  t[j] = minima[o[j]]
    BY <1>1, <1>6, <2>3, <2>7
  <2>8. \A j \in q + 1..Size - 1 : o[j + 1] # 0 => o[j + 1] = o[j] + 1
    BY <1>1, <1>7
  <2>9. Traced(t, o, q)
    BY <1>2, <2>4, <2>5, <2>6, <2>7, <2>8 DEF Traced
  <2> QED
    BY <2>9 DEF t
<1>9. CASE s[q].age = MaxAge
  <2>1. Removed \in Entry /\ Void(Removed)
    BY <1>1 DEF Removed, Entry, Void
  <2>2. t = Shifted(s, q, Removed)
    BY <1>9 DEF AgeAt, Shifted
  <2> HIDE DEF t
  <2>3. Places(t) /\ \A j \in 1..Size :
          t[j] = IF j < q THEN s[j] ELSE IF j < Size THEN s[j + 1] ELSE Removed
    <3>1. q \in 1..Size /\ Places(s) /\ Removed \in Entry
      BY <1>1, <1>2, <2>1
    <3> HIDE DEF q
    <3> QED
      BY <2>2, <3>1, Replaced
  <2> DEFINE p == [j \in 1..Size |-> IF j < q THEN o[j] ELSE IF j < Size THEN o[j + 1] ELSE 0]
  <2>4. \A j \in 1..Size : p[j] = IF j < q THEN o[j] ELSE IF j < Size THEN o[j + 1] ELSE 0
    OBVIOUS
  <2>5. p \in Origins
    BY <1>1, <1>3 DEF Origins
  <2> HIDE DEF p
  <2>6. InOrder(p)
    <3> SUFFICES ASSUME NEW i \in 1..Size, NEW j \in 1..Size, i < j, p[j] # 0
                 PROVE  p[i] # 0 /\ p[i] < p[j]
      BY DEF InOrder
    <3>1. PICK a \in 1..Size, b \in 1..Size : a < b /\ p[i] = o[a] /\ p[j] = o[b]
      <4>1. CASE j < q
        <5>1. p[i] = o[i] /\ p[j] = o[j]
          BY <1>1, <2>4, <4>1
        <5> QED
          BY <5>1
      <4>2. CASE ~ (j < q) /\ i < q
        <5>1. p[i] = o[i] /\ p[j] = o[j + 1] /\ j + 1 \in 1..Size /\ i < j + 1
          BY <1>1, <2>4, <4>2
        <5> QED
          BY <5>1
      <4>3. CASE ~ (j < q) /\ ~ (i < q)
        <5>1. p[i] = o[i + 1] /\ p[j] = o[j + 1] /\ j + 1 \in 1..Size /\ i + 1 \in 1..Size
          BY <1>1, <2>4, <4>3
        <5> QED
          BY <5>1
      <4> QED
        BY <4>1, <4>2, <4>3
    <3> QED
      BY <3>1, <1>2 DEF InOrder
  <2>7. ASSUME NEW j \in 1..Size, p[j] = 0
        PROVE  Void(t[j])
    <3>1. CASE j < q
      BY <1>4, <2>3, <2>4, <2>7, <3>1
    <3>2. CASE ~ (j < q) /\ j < Size
      <4>1. j + 1 \in 1..Size /\ p[j] = o[j + 1] /\ t[j] = s[j + 1]
        BY <1>1, <2>3, <2>4, <3>2
      <4> QED
        BY <1>4, <2>7, <4>1
    <3>3. CASE ~ (j < q) /\ ~ (j < Size)
      BY <2>1, <2>3, <3>3
    <3> QED
      BY <3>1, <3>2, <3>3
  <2>8. ASSUME NEW j \in 1..q, p[j] # 0
        PROVE  \/ minima[p[j]].age # MaxAge /\ t[j] = [minima[p[j]] EXCEPT !.age = @ + 1]
               \/ PassedOver(p, j) /\ t[j] = minima[p[j]]
    <3>0. j \in 1..Size
      BY <1>1
    <3>1. CASE j < q
      <4>1. j \in 1..k /\ p[j] = o[j] /\ t[j] = s[j]
        BY <1>1, <2>3, <2>4, <3>0, <3>1
      <4>2. ASSUME PassedOver(o, j)
            PROVE  PassedOver(p, j)
        <5>1. \A i \in 1..Size : o[i] # o[j] - 1
          BY <4>2 DEF PassedOver
        <5>2. ASSUME NEW i \in 1..Size
              PROVE  p[i] # o[j] - 1
          <6>1. o[j] > 1 /\ o[j] \in 0..Size
            BY <1>3, <3>0, <4>2 DEF PassedOver
          <6>2. p[i] = 0 \/ \E a \in 1..Size : p[i] = o[a]
            BY <1>1, <2>4
          <6> QED
            BY <5>1, <6>1, <6>2
        <5> QED
          BY <4>1, <4>2, <5>2 DEF PassedOver
      <4> QED
        BY <1>5, <2>8, <4>1, <4>2
    <3>2. CASE j = q
      <4>1. q < Size /\ p[q] = o[q + 1] /\ q + 1 \in 1..Size /\ t[q] = s[q + 1]
        BY <1>1, <2>3, <2>4, <2>8, <3>2
      <4>2. o[q + 1] # 0 /\ q + 1 \in q..Size /\ q \in q..Size - 1
        BY <1>1, <2>8, <3>2, <4>1
      <4>3. s[q + 1] = minima[o[q + 1]] /\ o[q + 1] = o[q] + 1
        BY <1>6, <1>7, <4>2
      <4>4. o[q] # 0 /\ o[q] \in 1..Size
        BY <1>1, <1>2, <1>3, <4>1, <4>2 DEF InOrder
      <4>5. s[q] = minima[o[q]]
        BY <1>1, <1>6, <4>4
      <4>6. p[q] - 1 = o[q] /\ p[q] > 1
        BY <4>1, <4>3, <4>4
      <4>7. ASSUME NEW i \in 1..Size
            PROVE  p[i] # o[q]
        <5>1. ASSUME NEW a \in 1..Size, a # q
              PROVE  o[a] # o[q]
          <6>1. CASE a < q
            BY <1>1, <1>2, <1>3, <4>4, <6>1 DEF InOrder
          <6>2. CASE q < a
            <7>1. o[a] # 0 => o[q] < o[a]
              BY <1>1, <1>2, <6>2 DEF InOrder
            <7>2. o[q] # 0 /\ o[q] \in 0..Size /\ o[a] \in 0..Size
              BY <1>1, <1>3, <4>4
            <7> HIDE DEF q
            <7> QED
              BY <1>1, <7>1, <7>2
          <6> QED
            BY <1>1, <5>1, <6>1, <6>2
        <5>2. p[i] = 0 \/ \E a \in 1..Size : a # q /\ p[i] = o[a]
          <6>1. CASE i < q
            BY <1>1, <2>4, <6>1
          <6>2. CASE ~ (i < q) /\ i < Size
            <7>1. i + 1 \in 1..Size /\ i + 1 # q /\ p[i] = o[i + 1]
              BY <1>1, <2>4, <6>2
            <7> QED
              BY <7>1
          <6>3. CASE ~ (i < q) /\ ~ (i < Size)
            BY <2>4, <6>3
          <6> QED
            BY <6>1, <6>2, <6>3
        <5> QED
          BY <4>4, <5>1, <5>2
      <4>8. PassedOver(p, q)
        BY <1>9, <4>5, <4>6, <4>7 DEF PassedOver
      <4> QED
        BY <3>2, <4>1, <4>3, <4>8
    <3> QED
      BY <1>1, <3>1, <3>2
  <2>9. ASSUME NEW j \in q + 1..Size, p[j] # 0
        PROVE  t[j] = minima[p[j]]
    <3>1. j < Size /\ p[j] = o[j + 1] /\ t[j] = s[j + 1] /\ j + 1 \in q..Size
      BY <1>1, <2>3, <2>4, <2>9
    <3> QED
      BY <1>6, <2>9, <3>1
  <2>10. ASSUME NEW j \in q + 1..Size - 1, p[j + 1] # 0
         PROVE  p[j + 1] = p[j] + 1
    <3>1. j \in 1..Size /\ j + 1 \in 1..Size
      BY <1>1
    <3>2. j + 1 < Size /\ p[j] = o[j + 1] /\ p[j + 1] = o[(j + 1) + 1] /\ j + 1 \in q..Size - 1
      BY <1>1, <2>4, <2>10, <3>1
    <3> QED
      BY <1>7, <2>10, <3>2
  <2>11. Traced(t, p, q)
    BY <2>3, <2>5, <2>6, <2>7, <2>8, <2>9, <2>10 DEF Traced
  <2> QED
    BY <2>11 DEF t
<1> QED
  BY <1>8, <1>9

\* The values of the loop's function, up to n.
Ageing(f, n) == f = [k \in 0..n |-> IF k = 0 THEN minima ELSE AgeAt(f[k - 1], k)]

\* There is such a function, for every number of places.
LEMMA AgeingExists == \A n \in Nat : \E f : Ageing(f, n)
<1> DEFINE P == {n \in Nat : \E f : Ageing(f, n)}
<1>1. 0 \in P
  <2>1. Ageing([k \in 0..0 |-> minima], 0)
    BY DEF Ageing
  <2> QED
    BY <2>1
<1>2. ASSUME NEW n \in Nat, n \in P
      PROVE  n + 1 \in P
  <2>1. PICK f : Ageing(f, n)
    BY <1>2
  <2> DEFINE g == [k \in 0..(n + 1) |-> IF k = n + 1 THEN AgeAt(f[n], n + 1) ELSE f[k]]
             h == [k \in 0..(n + 1) |-> IF k = 0 THEN minima ELSE AgeAt(g[k - 1], k)]
  <2>2. \A k \in 0..(n + 1) : k \in 0..n \/ k = n + 1
    OBVIOUS
  <2>3. ASSUME NEW k \in 0..(n + 1)
        PROVE  g[k] = IF k = 0 THEN minima ELSE AgeAt(g[k - 1], k)
    <3>1. CASE k = n + 1
      <4>1. g[k] = AgeAt(f[n], n + 1) /\ g[k - 1] = f[n] /\ k # 0
        BY <3>1
      <4> QED
        BY <3>1, <4>1
    <3>2. CASE k \in 0..n /\ k # 0
      <4>1. k \in 0..n /\ k - 1 \in 0..(n + 1) /\ k - 1 # n + 1 /\ k # n + 1
        BY <3>2
      <4>2. g[k] = f[k] /\ g[k - 1] = f[k - 1]
        BY <4>1
      <4>3. f[k] = AgeAt(f[k - 1], k)
        BY <2>1, <3>2 DEF Ageing
      <4> QED
        BY <3>2, <4>2, <4>3
    <3>3. CASE k = 0
      <4>1. 0 \in 0..n /\ 0 # n + 1
        OBVIOUS
      <4>2. g[0] = f[0] /\ f[0] = minima
        BY <2>1, <4>1 DEF Ageing
      <4> QED
        BY <3>3, <4>2
    <3> QED
      BY <2>2, <3>1, <3>2, <3>3
  <2>4. g = h
    BY <2>3
  <2>5. Ageing(g, n + 1)
    BY <2>4 DEF Ageing
  <2> QED
    BY <2>5
<1> HIDE DEF P
<1>3. \A n \in Nat : n \in P
  BY <1>1, <1>2, Induction
<1> QED
  BY <1>3 DEF P

\* What the loop over all places has done.
LEMMA AgedTraced ==
  ASSUME Places(minima)
  PROVE  \E o : Traced(Aged, o, Size)
<1>1. Size \in Nat
  BY MinimaAssumption
<1> DEFINE f == CHOOSE f : Ageing(f, Size)
<1>2. Ageing(f, Size)
  BY <1>1, AgeingExists
<1>3. Aged = f[Size]
  BY DEF Aged, Ageing
<1> HIDE DEF f
<1> DEFINE P == {k \in Nat : k <= Size => \E o : Traced(f[k], o, k)}
<1>4. 0 \in P
  <2>1. f[0] = minima
    BY <1>1, <1>2 DEF Ageing
  <2> DEFINE o == [j \in 1..Size |-> j]
  <2>2. \A j \in 1..Size : o[j] = j
    OBVIOUS
  <2>3. o \in Origins
    BY <1>1 DEF Origins
  <2> HIDE DEF o
  <2>4. InOrder(o)
    BY <1>1, <2>2 DEF InOrder
  <2>5. Traced(minima, o, 0)
    BY <1>1, <2>2, <2>3, <2>4 DEF Traced
  <2> QED
    BY <2>1, <2>5
<1>5. ASSUME NEW k \in Nat, k \in P
      PROVE  k + 1 \in P
  <2> SUFFICES ASSUME k + 1 <= Size
               PROVE  \E o : Traced(f[k + 1], o, k + 1)
    OBVIOUS
  <2>1. PICK o : Traced(f[k], o, k)
    BY <1>1, <1>5
  <2>2. k \in 0..Size - 1
    BY <1>1
  <2>3. f[k + 1] = AgeAt(f[k], k + 1)
    <3>1. k + 1 \in 0..Size /\ k + 1 # 0 /\ (k + 1) - 1 = k
      BY <1>1
    <3> QED
      BY <1>2, <3>1 DEF Ageing
  <2> QED
    BY <2>1, <2>2, <2>3, AgeAtTraced
<1> HIDE DEF P
<1>6. \A k \in Nat : k \in P
  BY <1>4, <1>5, Induction
<1>7. \E o : Traced(f[Size], o, Size)
  BY <1>1, <1>6 DEF P
<1> QED
  BY <1>3, <1>7

\* The entry of a new feature.
Fresh(feature_value) == [value |-> feature_value, age |-> 1, born |-> frame_counter + 1]

\* The fields of an entry.
LEMMA EntryType ==
  ASSUME NEW e \in Entry
  PROVE  e.value \in 0..Big /\ e.value \in Int /\ e.age \in Nat /\ e.born \in Nat
<1>1. e.value \in 0..Big /\ e.age \in Nat /\ e.born \in Nat
  BY DEF Entry
<1>2. \A v \in 0..Big : v \in Int
  OBVIOUS
<1> QED
  BY <1>1, <1>2

\* Sorted by value.
InOrderOf(entries) == \A i, j \in 1..Size : i < j => entries[i].value <= entries[j].value

\* The place of a feature is the first with an entry that is larger.
LEMMA PlaceFound ==
  ASSUME NEW s, Places(s), NEW x \in Int, IsSmall(s, x)
  PROVE  /\ Place(s, x) \in 1..Size
         /\ x < s[Place(s, x)].value
         /\ \A l \in 1..Place(s, x) - 1 : x >= s[l].value
<1>1. Size \in Nat /\ Size \in 1..Size
  BY MinimaAssumption
<1>2. \A j \in 1..Size : s[j].value \in Int
  <2>1. ASSUME NEW j \in 1..Size
        PROVE  s[j].value \in Int
    <3>1. s[j] \in Entry
      BY DEF Places
    <3> QED
      BY <3>1, EntryType
  <2> QED
    BY <2>1
<1> DEFINE First(k) == x < s[k].value /\ \A l \in 1..k - 1 : x >= s[l].value
           P == {n \in Nat : n <= Size =>
                   \/ \A l \in 1..n : x >= s[l].value
                   \/ \E k \in 1..Size : First(k)}
<1>3. 0 \in P
  OBVIOUS
<1>4. ASSUME NEW n \in Nat, n \in P
      PROVE  n + 1 \in P
  <2> SUFFICES ASSUME n + 1 <= Size, ~ \E k \in 1..Size : First(k)
               PROVE  \A l \in 1..n + 1 : x >= s[l].value
    OBVIOUS
  <2>1. \A l \in 1..n : x >= s[l].value
    BY <1>1, <1>4
  <2>2. n + 1 \in 1..Size /\ (n + 1) - 1 = n
    BY <1>1
  <2>3. x >= s[n + 1].value
    BY <1>2, <2>1, <2>2
  <2> QED
    BY <2>1, <2>3
<1> HIDE DEF P
<1>5. \A n \in Nat : n \in P
  BY <1>3, <1>4, Induction
<1>6. Size \in P
  BY <1>1, <1>5
<1>7. \E k \in 1..Size : First(k)
  <2>1. x < s[Size].value
    BY DEF IsSmall
  <2> QED
    BY <1>1, <1>2, <1>6, <2>1 DEF P
<1>8. Place(s, x) \in 1..Size /\ First(Place(s, x))
  BY <1>7 DEF Place
<1> QED
  BY <1>8

\* What a call has made of the entries: at place n there is the new one, if n is not 0.
Renewed(t, w, n, x) ==
  /\ Places(t) /\ InOrderOf(t)
  /\ w \in Origins /\ n \in 0..Size
  /\ \A j \in 1..Size : j = n => w[j] = 0 /\ t[j] = Fresh(x) /\ x < Big
  /\ \A j \in 1..Size : j # n /\ w[j] = 0 => Void(t[j])
  /\ \A j \in 1..Size : w[j] # 0 =>
       \/ minima[w[j]].age # MaxAge /\ t[j] = [minima[w[j]] EXCEPT !.age = @ + 1]
       \/ PassedOver(w, j) /\ t[j] = minima[w[j]]
  /\ \A i, j \in 1..Size : i < j /\ i # n /\ w[j] # 0 => w[i] # 0 /\ w[i] < w[j]

\* A call ages the entries and then inserts the feature, if it is small enough.
LEMMA CallRenews ==
  ASSUME Places(minima), InOrderOf(minima), frame_counter \in Nat,
         NEW x \in Features, WebRtcVad_FindMinimum(x)
  PROVE  \E w, n : Renewed(minima', w, n, x)
<1> DEFINE s == Aged
           t == minima'
<1>1. Size \in Nat /\ MaxAge \in Nat /\ x \in 0..Big /\ Big \in Nat /\ x \in Int
  BY MinimaAssumption DEF Big
<1>2. PICK o : Traced(s, o, Size)
  BY AgedTraced
<1>3. t = Inserted(s, x)
  BY DEF WebRtcVad_FindMinimum
<1> HIDE DEF s, t
<1>4. Places(s) /\ o \in Origins /\ InOrder(o)
  BY <1>2 DEF Traced
<1>5. \A j \in 1..Size : /\ s[j] \in Entry /\ minima[j] \in Entry /\ o[j] \in 0..Size
                         /\ s[j].value \in 0..Big /\ minima[j].value \in 0..Big
  <2>1. \A j \in 1..Size : s[j] \in Entry /\ minima[j] \in Entry /\ o[j] \in 0..Size
    BY <1>4 DEF Places, Origins
  <2> QED
    BY <2>1, EntryType
<1>6. \A j \in 1..Size : o[j] = 0 => Void(s[j])
  BY <1>2 DEF Traced
<1>7. \A j \in 1..Size : o[j] # 0 =>
        \/ minima[o[j]].age # MaxAge /\ s[j] = [minima[o[j]] EXCEPT !.age = @ + 1]
        \/ PassedOver(o, j) /\ s[j] = minima[o[j]]
  BY <1>2 DEF Traced
<1>8. \A j \in 1..Size : o[j] # 0 => s[j].value = minima[o[j]].value
  BY <1>5, <1>7 DEF Entry
<1>9. InOrderOf(s)
  <2> SUFFICES ASSUME NEW i \in 1..Size, NEW j \in 1..Size, i < j
               PROVE  s[i].value <= s[j].value
    BY DEF InOrderOf
  <2>1. CASE o[j] = 0
    BY <1>1, <1>5, <1>6, <2>1 DEF Void
  <2>2. CASE o[j] # 0
    <3>1. o[i] # 0 /\ o[i] < o[j] /\ o[i] \in 1..Size /\ o[j] \in 1..Size
      BY <1>1, <1>4, <1>5, <2>2 DEF InOrder
    <3>2. minima[o[i]].value <= minima[o[j]].value
      BY <3>1 DEF InOrderOf
    <3> QED
      BY <1>8, <2>2, <3>1, <3>2
  <2> QED
    BY <2>1, <2>2
<1>10. CASE ~ IsSmall(s, x)
  <2>1. t = s
    BY <1>3, <1>10 DEF Inserted
  <2>2. Renewed(t, o, 0, x)
    BY <1>1, <1>4, <1>6, <1>7, <1>9, <2>1 DEF Renewed, InOrder
  <2> QED
    BY <2>2 DEF t
<1>11. CASE IsSmall(s, x)
  <2> DEFINE p == Place(s, x)
             e == Fresh(x)
  <2>1. p \in 1..Size /\ x < s[p].value /\ \A l \in 1..p - 1 : x >= s[l].value
    BY <1>1, <1>4, <1>11, PlaceFound
  <2>2. e \in Entry /\ e.value = x
    BY <1>1 DEF Entry, Fresh
  <2>3. t = PutAt(s, p, e)
    BY <1>3, <1>11 DEF Inserted, Fresh, PutAt
  <2> HIDE DEF p, e
  <2>4. /\ Places(t)
        /\ \A j \in 1..Size :
             t[j] = IF j < p THEN s[j] ELSE IF j = p THEN e ELSE s[j - 1]
    BY <1>4, <2>1, <2>2, <2>3, PutBefore
  <2> DEFINE w == [j \in 1..Size |-> IF j < p THEN o[j] ELSE IF j = p THEN 0 ELSE o[j - 1]]
  <2>5. \A j \in 1..Size : w[j] = IF j < p THEN o[j] ELSE IF j = p THEN 0 ELSE o[j - 1]
    OBVIOUS
  <2>6. w \in Origins
    <3>1. \A j \in 1..Size : ~ (j < p) /\ j # p => j - 1 \in 1..Size
      BY <1>1, <2>1
    <3>2. \A j \in 1..Size : w[j] \in 0..Size
      BY <1>1, <1>5, <2>5, <3>1
    <3> QED
      BY <3>2 DEF Origins
  <2> HIDE DEF w
  \* Where the entries come from.
  <2>7. ASSUME NEW j \in 1..Size, j # p
        PROVE  \E a \in 1..Size : /\ t[j] = s[a] /\ w[j] = o[a]
                                  /\ (j < p /\ a = j) \/ (~ (j < p) /\ a = j - 1)
    <3>1. CASE j < p
      BY <2>4, <2>5, <3>1
    <3>2. CASE ~ (j < p)
      <4>1. j - 1 \in 1..Size
        BY <1>1, <2>1, <2>7, <3>2
      <4>2. t[j] = s[j - 1] /\ w[j] = o[j - 1]
        BY <2>4, <2>5, <2>7, <3>2
      <4> QED
        BY <3>2, <4>1, <4>2
    <3> QED
      BY <3>1, <3>2
  <2>8. InOrderOf(t)
    <3> SUFFICES ASSUME NEW i \in 1..Size, NEW j \in 1..Size, i < j
                 PROVE  t[i].value <= t[j].value
      BY DEF InOrderOf
    <3>1. CASE j = p
      <4>1. t[j] = e /\ t[i] = s[i] /\ i \in 1..p - 1
        BY <1>1, <2>1, <2>4, <3>1
      <4> QED
        BY <1>1, <1>5, <2>1, <2>2, <4>1
    <3>2. CASE i = p
      <4>1. t[i] = e /\ t[j] = s[j - 1] /\ j - 1 \in 1..Size /\ p <= j - 1
        BY <1>1, <2>1, <2>4, <3>2
      <4>2. s[p].value <= s[j - 1].value
        BY <1>1, <1>5, <1>9, <2>1, <4>1 DEF InOrderOf
      <4>3. s[p].value \in Int /\ s[j - 1].value \in Int
        BY <1>1, <1>5, <2>1, <4>1
      <4> QED
        BY <1>1, <2>1, <2>2, <4>1, <4>2, <4>3
    <3>3. CASE i # p /\ j # p
      <4>1. PICK a \in 1..Size : /\ t[i] = s[a]
                                 /\ (i < p /\ a = i) \/ (~ (i < p) /\ a = i - 1)
        BY <2>7, <3>3
      <4>2. PICK b \in 1..Size : /\ t[j] = s[b]
                                 /\ (j < p /\ b = j) \/ (~ (j < p) /\ b = j - 1)
        BY <2>7, <3>3
      <4>3. a < b
        BY <1>1, <2>1, <3>3, <4>1, <4>2
      <4> QED
        BY <1>9, <4>1, <4>2, <4>3 DEF InOrderOf
    <3> QED
      BY <3>1, <3>2, <3>3
  <2>9. ASSUME NEW j \in 1..Size, j = p
        PROVE  w[j] = 0 /\ t[j] = Fresh(x) /\ x < Big
    BY <1>1, <1>5, <2>1, <2>4, <2>5, <2>9 DEF e
  <2>10. ASSUME NEW j \in 1..Size, j # p, w[j] = 0
         PROVE  Void(t[j])
    BY <1>6, <2>7, <2>10
  <2>11. ASSUME NEW j \in 1..Size, w[j] # 0
         PROVE  \/ minima[w[j]].age # MaxAge /\ t[j] = [minima[w[j]] EXCEPT !.age = @ + 1]
                \/ PassedOver(w, j) /\ t[j] = minima[w[j]]
    <3>1. j # p
      BY <2>5, <2>11
    <3>2. PICK a \in 1..Size : t[j] = s[a] /\ w[j] = o[a]
      BY <2>7, <3>1
    <3>3. ASSUME PassedOver(o, a)
          PROVE  PassedOver(w, j)
      <4>1. o[a] > 1 /\ o[a] \in 0..Size /\ \A i \in 1..Size : o[i] # o[a] - 1
        BY <1>5, <3>3 DEF PassedOver
      <4>2. ASSUME NEW i \in 1..Size
            PROVE  w[i] # o[a] - 1
        <5>1. w[i] = 0 \/ \E b \in 1..Size : w[i] = o[b]
          BY <2>5, <2>7
        <5> QED
          BY <1>1, <4>1, <5>1
      <4> QED
        BY <3>2, <3>3, <4>2 DEF PassedOver
    <3> QED
      BY <1>7, <2>11, <3>2, <3>3
  <2>12. ASSUME NEW i \in 1..Size, NEW j \in 1..Size, i < j, i # p, w[j] # 0
         PROVE  w[i] # 0 /\ w[i] < w[j]
    <3>1. j # p
      BY <2>5, <2>12
    <3>2. PICK a \in 1..Size : /\ w[i] = o[a]
                               /\ (i < p /\ a = i) \/ (~ (i < p) /\ a = i - 1)
      BY <2>7, <2>12
    <3>3. PICK b \in 1..Size : /\ w[j] = o[b]
                               /\ (j < p /\ b = j) \/ (~ (j < p) /\ b = j - 1)
      BY <2>7, <3>1
    <3>4. a < b
      BY <1>1, <2>1, <2>12, <3>1, <3>2, <3>3
    <3> QED
      BY <1>4, <2>12, <3>2, <3>3, <3>4 DEF InOrder
  <2>13. p \in 0..Size
    BY <1>1, <2>1
  <2>14. Renewed(t, w, p, x)
    BY <2>4, <2>6, <2>8, <2>9, <2>10, <2>11, <2>12, <2>13 DEF Renewed
  <2> QED
    BY <2>14 DEF t
<1> QED
  BY <1>10, <1>11

\* How many calls the entry is here, and how often it was passed over.
Life(e) == frame_counter - e.born
Lag(e)  == Life(e) - (e.age - 1)

\* The entries that can still make the loop pass over one that is after them: they
\* were there before it or, once it is MaxAge calls old, came in its first MaxAge calls.
Horizon(e)  == IF Life(e) < MaxAge THEN e.born ELSE e.born + MaxAge
Births(i)   == {minima[j].born : j \in 1..i - 1}
Ahead(i)    == {b \in Births(i) : b > 0 /\ b <= Horizon(minima[i])}
Passings(e) == IF Life(e) < MaxAge THEN Size - 1 ELSE 2 * (Size - 1)

\* An entry that was inserted.
Lives(e) ==
  /\ e.born \in 1..frame_counter /\ e.value < Big
  /\ e.age \in 1..MaxAge
  /\ Lag(e) >= 0

\* The entries are sorted, each is one that was inserted or is void, no two are of the
\* same call, and those ahead of one are as few as it may still be passed over.
MinimaInv ==
  /\ Places(minima) /\ InOrderOf(minima)
  /\ frame_counter \in Nat
  /\ \A i \in 1..Size : Void(minima[i]) \/ Lives(minima[i])
  /\ \A i, j \in 1..Size : i # j /\ Lives(minima[i]) => minima[i].born # minima[j].born
  /\ \A i \in 1..Size : Lives(minima[i]) =>
       Lag(minima[i]) + Cardinality(Ahead(i)) <= Passings(minima[i])

\* Fewer births than places.
LEMMA FewBefore ==
  ASSUME NEW s, NEW i \in 1..Size, NEW T, T \subseteq {s[j].born : j \in 1..i - 1}
  PROVE  IsFiniteSet(T) /\ Cardinality(T) \in Nat /\ Cardinality(T) <= Size - 1
<1> DEFINE All == {s[j].born : j \in 1..i - 1}
           f == [j \in 1..i - 1 |-> s[j].born]
<1>1. Size \in Nat /\ i \in Nat /\ i - 1 \in Nat /\ i - 1 <= Size - 1
  BY MinimaAssumption
<1>2. f \in Surjection(1..i - 1, All)
  BY DEF Surjection
<1>3. IsFiniteSet(1..i - 1) /\ Cardinality(1..i - 1) = i - 1
  BY <1>1, FS_Interval
<1> HIDE DEF f, All
<1>4. IsFiniteSet(All) /\ Cardinality(All) <= i - 1
  BY <1>2, <1>3, FS_Surjection
<1>5. T \in SUBSET All
  BY DEF All
<1>6. /\ IsFiniteSet(T) /\ Cardinality(T) <= Cardinality(All)
      /\ Cardinality(T) \in Nat /\ Cardinality(All) \in Nat
  BY <1>4, <1>5, FS_Subset, FS_CardinalityType
<1> QED
  BY <1>1, <1>4, <1>6

\* A life is shorter than twice MaxAge.
LEMMA LifeBounded ==
  ASSUME MinimaInv, NEW i \in 1..Size, Lives(minima[i])
  PROVE  /\ Life(minima[i]) \in Nat /\ Lag(minima[i]) \in Nat
         /\ Life(minima[i]) < MaxAge + 2 * (Size - 1)
         /\ Life(minima[i]) < 2 * MaxAge - 1
<1> DEFINE e == minima[i]
<1>1. Size \in Nat /\ MaxAge \in Nat /\ 2 * (Size - 1) < MaxAge /\ Size >= 3 /\ frame_counter \in Nat
  BY MinimaAssumption DEF MinimaInv
<1>2. e.born \in Nat /\ e.age \in Nat /\ e.born <= frame_counter /\ e.age <= MaxAge
  BY <1>1 DEF Lives
<1>3. Cardinality(Ahead(i)) \in Nat
  BY FewBefore DEF Ahead, Births
<1>4. Lag(e) + Cardinality(Ahead(i)) <= Passings(e) /\ Lag(e) >= 0
  BY DEF MinimaInv, Lives
<1> HIDE DEF e
<1>5. /\ Life(e) \in Nat /\ Lag(e) \in Nat
      /\ Life(e) < MaxAge + 2 * (Size - 1)
  BY <1>1, <1>2, <1>3, <1>4 DEF Life, Lag, Passings
<1>6. Life(e) < 2 * MaxAge - 1
  BY <1>1, <1>5
<1> QED
  BY <1>5, <1>6 DEF e

\* What a call makes of an entry: it is the new one, void, older by one, or the loop
\* passed over it.
LEMMA EntryOf ==
  ASSUME MinimaInv, NEW x \in Features, WebRtcVad_FindMinimum(x),
         NEW w, NEW n, Renewed(minima', w, n, x), NEW j \in 1..Size
  PROVE  \/ /\ j = n /\ w[j] = 0
            /\ minima[1] \in Entry /\ minima'[j] = Fresh(x) /\ Lives(minima[j])'
            /\ Lag(minima[j])' = 0
         \/ j # n /\ w[j] = 0 /\ Void(minima'[j])
         \/ j # n /\ w[j] \in 1..Size /\ Void(minima[w[j]]) /\ Void(minima'[j])
         \/ /\ j # n /\ w[j] \in 1..Size
            /\ Lives(minima[w[j]]) /\ Lives(minima[j])'
            /\ minima'[j].born = minima[w[j]].born
            /\ Life(minima[j])' = Life(minima[w[j]]) + 1
            /\ \/ Lag(minima[j])' = Lag(minima[w[j]])
               \/ PassedOver(w, j) /\ Lag(minima[j])' = Lag(minima[w[j]]) + 1
<1>1. /\ Size \in Nat /\ MaxAge \in Nat /\ MaxAge > 2 /\ Big \in Nat /\ x \in 0..Big /\ 1 \in 1..Size
      /\ frame_counter \in Nat /\ frame_counter' = frame_counter + 1
  BY MinimaAssumption DEF MinimaInv, WebRtcVad_FindMinimum, Big
<1>2. Places(minima) /\ Places(minima')
  BY DEF MinimaInv, Renewed
<1>3. /\ minima'[j] \in Entry /\ w[j] \in 0..Size /\ minima[1] \in Entry
      /\ \A i \in 1..Size : minima[i] \in Entry
  BY <1>1, <1>2 DEF Places, Renewed, Origins
<1>4. CASE j = n
  <2>1. w[j] = 0 /\ minima'[j] = Fresh(x) /\ x < Big
    BY <1>4 DEF Renewed
  <2>2. /\ minima'[j].born = frame_counter + 1 /\ minima'[j].age = 1
        /\ minima'[j].value = x
    BY <2>1 DEF Fresh
  <2>3. Lag(minima[j])' = 0
    BY <1>1, <2>2 DEF Lag, Life
  <2>4. Lives(minima[j])'
    BY <1>1, <2>1, <2>2, <2>3 DEF Lives
  <2> QED
    BY <1>3, <1>4, <2>1, <2>3, <2>4
<1>5. CASE j # n /\ w[j] = 0
  BY <1>5 DEF Renewed
<1>6. CASE j # n /\ w[j] # 0
  <2> DEFINE i == w[j]
             a == minima[i]
             b == minima'[j]
  <2>1. i \in 1..Size /\ a \in Entry
    BY <1>1, <1>3, <1>6
  <2>2. \/ a.age # MaxAge /\ b = [a EXCEPT !.age = @ + 1]
        \/ PassedOver(w, j) /\ b = a
    BY <1>6 DEF Renewed
  <2>3. b.value = a.value /\ b.born = a.born /\ (b.age = a.age + 1 \/ b.age = a.age)
    BY <2>1, <2>2 DEF Entry
  <2>4. Void(a) \/ Lives(a)
    BY <2>1 DEF MinimaInv
  <2>5. CASE Void(a)
    BY <1>6, <2>1, <2>3, <2>5 DEF Void
  <2>6. CASE Lives(a)
    <3>1. /\ a.born \in Nat /\ a.age \in Nat /\ a.age \in 1..MaxAge /\ a.born \in 1..frame_counter
          /\ a.value < Big /\ Lag(a) >= 0
      BY <1>1, <2>6 DEF Lives
    <3>2. Life(minima[j])' = Life(a) + 1
      BY <1>1, <2>3, <3>1 DEF Life
    <3>3. CASE a.age # MaxAge /\ b = [a EXCEPT !.age = @ + 1]
      <4>1. b.age = a.age + 1
        BY <2>1, <3>3 DEF Entry
      <4>2. Lag(minima[j])' = Lag(a)
        BY <1>1, <2>3, <3>1, <4>1 DEF Lag, Life
      <4>3. Lives(minima[j])'
        BY <1>1, <2>3, <3>1, <3>3, <4>1, <4>2 DEF Lives
      <4> QED
        BY <1>6, <2>1, <2>3, <2>6, <3>2, <4>2, <4>3
    <3>4. CASE PassedOver(w, j) /\ b = a
      <4>2. Lag(minima[j])' = Lag(a) + 1
        BY <1>1, <2>3, <3>1, <3>4 DEF Lag, Life
      <4>3. Lives(minima[j])'
        <5>1. Lag(a) \in Int
          BY <1>1, <3>1 DEF Lag, Life
        <5> QED
          BY <1>1, <2>3, <3>1, <3>4, <4>2, <5>1 DEF Lives
      <4> QED
        BY <1>6, <2>1, <2>3, <2>6, <3>2, <3>4, <4>2, <4>3
    <3> QED
      BY <2>2, <3>3, <3>4
  <2> QED
    BY <2>4, <2>5, <2>6
<1> QED
  BY <1>4, <1>5, <1>6

\* One entry after a call that keeps it: what was ahead of it then was so before, and if the
\* loop passed over it there is one less.
LEMMA BudgetKept ==
  ASSUME MinimaInv, NEW x \in Features, WebRtcVad_FindMinimum(x),
         NEW w, NEW n, Renewed(minima', w, n, x), NEW j \in 1..Size,
         j # n, w[j] \in 1..Size,
         Lives(minima[w[j]]), Lives(minima[j])',
         minima'[j].born = minima[w[j]].born,
         Life(minima[j])' = Life(minima[w[j]]) + 1,
         \/ Lag(minima[j])' = Lag(minima[w[j]])
         \/ PassedOver(w, j) /\ Lag(minima[j])' = Lag(minima[w[j]]) + 1
  PROVE  Lag(minima[j])' + Cardinality(Ahead(j))' <= Passings(minima[j])'
<1> DEFINE i == w[j]
           a == minima[i]
           before == Ahead(i)
           after == Ahead(j)'
           life == Life(a)
           lag  == Lag(a)
           lag2 == Lag(minima[j])'
           life2 == Life(minima[j])'
<1>1. /\ Size \in Nat /\ MaxAge \in Nat /\ 2 * (Size - 1) < MaxAge /\ Size >= 3
      /\ frame_counter \in Nat /\ frame_counter' = frame_counter + 1
      /\ i \in 1..Size
  BY MinimaAssumption DEF MinimaInv, WebRtcVad_FindMinimum
<1>2. life \in Nat /\ lag \in Nat /\ life < 2 * MaxAge - 1
  BY <1>1, LifeBounded
<1>3. /\ a.born \in Nat /\ a.born \in 1..frame_counter /\ life = frame_counter - a.born
      /\ life2 = life + 1 /\ (lag2 = lag \/ (PassedOver(w, j) /\ lag2 = lag + 1))
      /\ minima'[j].born = a.born
  BY <1>1 DEF Lives, Life
<1>4. lag + Cardinality(before) <= Passings(a) /\ IsFiniteSet(before) /\ Cardinality(before) \in Nat
  <2>1. IsFiniteSet(before) /\ Cardinality(before) \in Nat
    BY <1>1, FewBefore DEF Ahead, Births
  <2> QED
    BY <1>1, <2>1 DEF MinimaInv
<1>5. IsFiniteSet(after) /\ Cardinality(after) \in Nat /\ Cardinality(after) <= Size - 1
  <2>1. after \subseteq {minima'[l].born : l \in 1..j - 1}
    BY DEF Ahead, Births
  <2> HIDE DEF after
  <2> QED
    BY <2>1, FewBefore
<1>6. Horizon(a) \in Nat /\ Horizon(minima[j])' = IF life2 < MaxAge THEN a.born ELSE a.born + MaxAge
  BY <1>1, <1>2, <1>3 DEF Horizon
<1>7. Passings(minima[j])' = IF life2 < MaxAge THEN Size - 1 ELSE 2 * (Size - 1)
  BY DEF Passings
<1>8. Horizon(a) = (IF life < MaxAge THEN a.born ELSE a.born + MaxAge)
  BY DEF Horizon
<1>9. Passings(a) = (IF life < MaxAge THEN Size - 1 ELSE 2 * (Size - 1))
  BY DEF Passings
\* The predecessor that was removed.
<1>10. ASSUME PassedOver(w, j)
       PROVE  /\ i - 1 \in 1..Size /\ Lives(minima[i - 1])
              /\ minima[i - 1].born \in Nat /\ minima[i - 1].born > 0
              /\ minima[i - 1].born <= frame_counter + 1 - MaxAge
  <2>1. i - 1 \in 1..Size /\ i - 1 < i /\ minima[i - 1].age = MaxAge
    BY <1>1, <1>10 DEF PassedOver
  <2>2. minima[i - 1].value <= minima[i].value
    BY <1>1, <2>1 DEF MinimaInv, InOrderOf
  <2>3. minima[i].value < Big
    BY DEF Lives
  <2>4. minima[i - 1] \in Entry /\ minima[i] \in Entry
    BY <1>1, <2>1 DEF MinimaInv, Places
  <2>5. minima[i - 1].value \in Int /\ minima[i].value \in Int /\ Big \in Int
    BY <2>4, EntryType DEF Big
  <2>6. ~ Void(minima[i - 1])
    BY <2>2, <2>3, <2>5 DEF Void
  <2>7. Lives(minima[i - 1])
    BY <2>1, <2>6 DEF MinimaInv
  <2>8. Lag(minima[i - 1]) >= 0 /\ minima[i - 1].born \in 1..frame_counter
    BY <2>7 DEF Lives
  <2> QED
    BY <1>1, <2>1, <2>7, <2>8 DEF Lag, Life
\* No birth comes to be before the horizon.
<1>11. ASSUME life2 # MaxAge
       PROVE  after \subseteq before
  <2> SUFFICES ASSUME NEW b \in after
               PROVE  b \in before
    OBVIOUS
  <2>1. PICK l \in 1..j - 1 : b = minima'[l].born /\ b > 0 /\ b <= Horizon(minima[j])'
    BY DEF Ahead, Births
  <2>2. l \in 1..Size /\ l < j
    BY <1>1
  <2>3. Horizon(minima[j])' = Horizon(a)
    BY <1>1, <1>2, <1>3, <1>6, <1>8, <1>11
  <2>4. l # n
    <3>1. ASSUME l = n
          PROVE  b = frame_counter + 1
      BY <2>1, <2>2, <3>1 DEF Renewed, Fresh
    <3>2. Horizon(a) < frame_counter + 1
      BY <1>1, <1>2, <1>3, <1>8, <1>11
    <3> QED
      BY <1>1, <1>6, <2>1, <2>3, <3>1, <3>2
  <2>5. w[l] # 0 /\ w[l] < i /\ w[l] \in 1..Size
    BY <1>1, <2>2, <2>4 DEF Renewed, Origins
  <2>6. b = minima[w[l]].born
    <3>1. \/ minima'[l] = [minima[w[l]] EXCEPT !.age = @ + 1]
          \/ minima'[l] = minima[w[l]]
      BY <2>2, <2>5 DEF Renewed
    <3>2. minima[w[l]] \in Entry
      BY <2>5 DEF MinimaInv, Places
    <3> QED
      BY <2>1, <3>1, <3>2 DEF Entry
  <2>7. w[l] \in 1..i - 1
    BY <1>1, <2>5
  <2> QED
    BY <2>1, <2>3, <2>6, <2>7 DEF Ahead, Births
<1>12. ASSUME PassedOver(w, j), life2 # MaxAge
       PROVE  minima[i - 1].born \in before /\ minima[i - 1].born \notin after
  <2> DEFINE c == minima[i - 1].born
  <2>1. i - 1 \in 1..i - 1
    BY <1>1, <1>10, <1>12
  <2>2. c <= Horizon(a)
    BY <1>1, <1>2, <1>3, <1>8, <1>10, <1>12
  <2>3. c \in before
    BY <1>10, <1>12, <2>1, <2>2 DEF Ahead, Births
  <2>4. ASSUME c \in after
        PROVE  FALSE
    <3>1. PICK l \in 1..j - 1 : c = minima'[l].born
      BY <2>4 DEF Ahead, Births
    <3>2. l \in 1..Size /\ l < j
      BY <1>1
    <3>3. l # n
      <4>1. ASSUME l = n
            PROVE  c = frame_counter + 1
        BY <3>1, <3>2, <4>1 DEF Renewed, Fresh
      <4> QED
        BY <1>1, <1>10, <1>12, <4>1
    <3>4. w[l] # 0 /\ w[l] < i /\ w[l] \in 1..Size
      BY <1>1, <3>2, <3>3 DEF Renewed, Origins
    <3>5. c = minima[w[l]].born
      <4>1. \/ minima'[l] = [minima[w[l]] EXCEPT !.age = @ + 1]
            \/ minima'[l] = minima[w[l]]
        BY <3>2, <3>4 DEF Renewed
      <4>2. minima[w[l]] \in Entry
        BY <3>4 DEF MinimaInv, Places
      <4> QED
        BY <3>1, <4>1, <4>2 DEF Entry
    <3>6. w[l] # i - 1
      BY <1>12, <3>2 DEF PassedOver
    <3> QED
      BY <1>10, <1>12, <3>4, <3>5, <3>6 DEF MinimaInv
  <2> QED
    BY <2>3, <2>4
<1>13. ASSUME life2 = MaxAge, PassedOver(w, j)
       PROVE  Cardinality(before) > 0
  <2>1. i - 1 \in 1..i - 1
    BY <1>1, <1>10, <1>13
  <2>2. minima[i - 1].born <= Horizon(a)
    BY <1>1, <1>2, <1>3, <1>8, <1>10, <1>13
  <2>3. minima[i - 1].born \in before
    BY <1>10, <1>13, <2>1, <2>2 DEF Ahead, Births
  <2> HIDE DEF before
  <2> QED
    BY <1>4, <2>3, FS_EmptySet
<1> HIDE DEF i, before, after, life, lag, lag2, life2
<1>14. CASE life2 = MaxAge
  <2>1. lag2 <= Size - 1
    BY <1>1, <1>2, <1>3, <1>4, <1>9, <1>13, <1>14
  <2> QED
    BY <1>1, <1>2, <1>3, <1>5, <1>7, <1>14, <2>1 DEF lag2, after, i
<1>15. CASE life2 # MaxAge
  <2>1. Cardinality(after) <= Cardinality(before)
    BY <1>4, <1>11, <1>15, FS_Subset
  <2>2. ASSUME PassedOver(w, j)
        PROVE  Cardinality(after) <= Cardinality(before) - 1
    <3> DEFINE c == minima[i - 1].born
    <3>1. c \in before /\ c \notin after
      BY <1>12, <1>15, <2>2
    <3> HIDE DEF c
    <3>2. /\ IsFiniteSet(before \ {c})
          /\ Cardinality(before \ {c}) = Cardinality(before) - 1
      BY <1>4, <3>1, FS_RemoveElement
    <3>3. after \in SUBSET (before \ {c})
      BY <1>11, <1>15, <3>1
    <3> QED
      BY <3>2, <3>3, FS_Subset
  <2>3. lag2 + Cardinality(after) <= lag + Cardinality(before)
    BY <1>2, <1>3, <1>4, <1>5, <2>1, <2>2
  <2>4. Passings(minima[j])' = Passings(a)
    BY <1>1, <1>2, <1>3, <1>7, <1>9, <1>15
  <2>5. lag2 + Cardinality(after) <= Passings(minima[j])'
    <3>1. Passings(a) \in Int /\ lag2 \in Int
      BY <1>1, <1>2, <1>3, <1>9
    <3> QED
      BY <1>2, <1>4, <1>5, <2>3, <2>4, <3>1
  <2> QED
    BY <2>5 DEF lag2, after
<1> QED
  BY <1>14, <1>15

\* At first all are void.
LEMMA InitMinimaInv == MinimaInit => MinimaInv
<1> SUFFICES ASSUME MinimaInit
             PROVE  MinimaInv
  OBVIOUS
<1>1. Size \in Nat /\ Big \in Nat
  BY MinimaAssumption DEF Big
<1> DEFINE e == [value |-> Big, age |-> 0, born |-> 0]
<1>2. e \in Entry /\ e.value = Big /\ e.born = 0
  BY <1>1 DEF Entry
<1>3. minima = [k \in 1..Size |-> e]
  BY DEF MinimaInit
<1> HIDE DEF e
<1>4. minima \in Seq(Entry) /\ Len(minima) = Size /\ \A j \in 1..Size : minima[j] = e
  BY <1>1, <1>2, <1>3
<1>5. \A j \in 1..Size : Void(minima[j]) /\ ~ Lives(minima[j])
  BY <1>2, <1>4 DEF Void, Lives
<1>6. InOrderOf(minima)
  BY <1>1, <1>2, <1>4 DEF InOrderOf
<1> QED
  BY <1>4, <1>5, <1>6 DEF MinimaInv, Places, MinimaInit

\* A call keeps the invariant.
LEMMA NextMinimaInv == MinimaInv /\ [MinimaNext]_minimaVars => MinimaInv'
<1> SUFFICES ASSUME MinimaInv, [MinimaNext]_minimaVars
             PROVE  MinimaInv'
  OBVIOUS
<1>1. CASE UNCHANGED minimaVars
  BY <1>1 DEF minimaVars, MinimaInv, InOrderOf, Void, Lives, Lag, Life, Ahead, Births,
              Horizon, Passings
<1>2. ASSUME NEW x \in Features, WebRtcVad_FindMinimum(x)
      PROVE  MinimaInv'
  <2>1. /\ Places(minima) /\ InOrderOf(minima) /\ frame_counter \in Nat
        /\ frame_counter' = frame_counter + 1 /\ Size \in Nat /\ Size > 2
    BY <1>2, MinimaAssumption DEF MinimaInv, WebRtcVad_FindMinimum
  <2>2. PICK w, n : Renewed(minima', w, n, x)
    BY <1>2, <2>1, CallRenews
  <2> DEFINE IsNew(j)  == /\ j = n /\ w[j] = 0
                          /\ minima'[j] = Fresh(x) /\ Lives(minima[j])'
                          /\ Lag(minima[j])' = 0
             IsVoid(j) == Void(minima'[j])
             IsOld(j)  == /\ j # n /\ w[j] \in 1..Size
                          /\ Lives(minima[w[j]]) /\ Lives(minima[j])'
                          /\ minima'[j].born = minima[w[j]].born
                          /\ Life(minima[j])' = Life(minima[w[j]]) + 1
                          /\ \/ Lag(minima[j])' = Lag(minima[w[j]])
                             \/ PassedOver(w, j) /\ Lag(minima[j])' = Lag(minima[w[j]]) + 1
  <2>3. ASSUME NEW j \in 1..Size
        PROVE  IsNew(j) \/ IsVoid(j) \/ IsOld(j)
    BY <1>2, <2>2, EntryOf
  <2>4. \A j \in 1..Size : Void(minima'[j]) \/ Lives(minima[j])'
    BY <2>3
  \* When the entries were born.
  <2>5. ASSUME NEW j \in 1..Size
        PROVE  /\ IsNew(j)  => minima'[j].born = frame_counter + 1
               /\ IsVoid(j) => minima'[j].born = 0 /\ ~ Lives(minima[j])'
               /\ IsOld(j)  => minima'[j].born \in 1..frame_counter
    <3>1. IsNew(j)  => minima'[j].born = frame_counter + 1
      BY DEF Fresh
    <3>2. IsVoid(j) => minima'[j].born = 0 /\ ~ Lives(minima[j])'
      BY DEF Void, Lives
    <3>3. IsOld(j)  => minima'[j].born \in 1..frame_counter
      BY DEF Lives
    <3> QED
      BY <3>1, <3>2, <3>3
  <2>6. ASSUME NEW i \in 1..Size, NEW j \in 1..Size, i # j, Lives(minima[i])'
        PROVE  minima'[i].born # minima'[j].born
    <3>1. ~ IsVoid(i)
      BY <2>5, <2>6
    <3>2. CASE IsNew(i)
      <4>1. ~ IsNew(j)
        BY <2>6, <3>2
      <4> HIDE DEF IsNew, IsVoid, IsOld
      <4>2. minima'[i].born = frame_counter + 1
        BY <2>5, <3>2
      <4>3. minima'[j].born = 0 \/ minima'[j].born \in 1..frame_counter
        BY <2>3, <2>5, <4>1
      <4> QED
        BY <2>1, <4>2, <4>3
    <3>3. CASE IsOld(i)
      <4>1. CASE IsNew(j) \/ IsVoid(j)
        <5> HIDE DEF IsNew, IsVoid, IsOld
        <5>1. minima'[i].born \in 1..frame_counter
          BY <2>5, <3>3
        <5>2. minima'[j].born = 0 \/ minima'[j].born = frame_counter + 1
          BY <2>5, <4>1
        <5> QED
          BY <2>1, <5>1, <5>2
      <4>2. CASE IsOld(j)
        <5>1. w[i] # w[j]
          <6>1. CASE i < j
            <7>1. w[i] < w[j] /\ w[i] \in 1..Size /\ w[j] \in 1..Size
              BY <2>2, <3>3, <4>2, <6>1 DEF Renewed
            <7> QED
              BY <7>1
          <6>2. CASE j < i
            <7>1. w[j] < w[i] /\ w[i] \in 1..Size /\ w[j] \in 1..Size
              BY <2>2, <3>3, <4>2, <6>2 DEF Renewed
            <7> QED
              BY <7>1
          <6> QED
            BY <2>6, <6>1, <6>2
        <5>2. minima[w[i]].born # minima[w[j]].born
          BY <3>3, <4>2, <5>1 DEF MinimaInv
        <5> QED
          BY <3>3, <4>2, <5>2
      <4> QED
        BY <2>3, <4>1, <4>2
    <3> QED
      BY <2>3, <3>1, <3>2, <3>3
  <2>7. ASSUME NEW j \in 1..Size, Lives(minima[j])'
        PROVE  Lag(minima[j])' + Cardinality(Ahead(j))' <= Passings(minima[j])'
    <3>1. ~ IsVoid(j)
      BY <2>5, <2>7
    <3>2. CASE IsNew(j)
      <4> DEFINE after == Ahead(j)'
      <4>1. after \subseteq {minima'[l].born : l \in 1..j - 1}
        BY DEF Ahead, Births
      <4> HIDE DEF after
      <4>2. Cardinality(after) \in Nat /\ Cardinality(after) <= Size - 1
        BY <4>1, FewBefore
      <4>3. Passings(minima[j])' = Size - 1 \/ Passings(minima[j])' = 2 * (Size - 1)
        BY DEF Passings
      <4>4. Lag(minima[j])' + Cardinality(after) <= Passings(minima[j])'
        BY <2>1, <3>2, <4>2, <4>3
      <4> QED
        BY <4>4 DEF after
    <3>3. CASE IsOld(j)
      BY <1>2, <2>2, <3>3, BudgetKept
    <3> QED
      BY <2>3, <3>1, <3>2, <3>3
  <2>8. Places(minima') /\ InOrderOf(minima')
    BY <2>2 DEF Renewed
  <2>9. Places(minima)' /\ InOrderOf(minima)' /\ frame_counter' \in Nat
    BY <2>1, <2>8 DEF Places, InOrderOf
  <2>10. \A j \in 1..Size : Void(minima[j])' \/ Lives(minima[j])'
    BY <2>4 DEF Void
  <2> QED
    BY <2>6, <2>7, <2>9, <2>10 DEF MinimaInv
<1> QED
  BY <1>1, <1>2 DEF MinimaNext

\* So it holds of every call.
LEMMA MinimaInvAlways == MinimaSpec => []MinimaInv
BY InitMinimaInv, NextMinimaInv, PTL DEF MinimaSpec

\* The entries are sorted after every call, whatever was removed, passed over and inserted,
\* so that the bisection of the code finds the place and the third is the median of five.
THEOREM EntriesSorted == MinimaSpec => []Sorted
<1>1. MinimaInv => Sorted
  <2> SUFFICES ASSUME MinimaInv
               PROVE  Sorted
    OBVIOUS
  <2>1. Size \in Nat
    BY MinimaAssumption
  <2>2. \A k \in 1..Size - 1 : k \in 1..Size /\ k + 1 \in 1..Size /\ k < k + 1
    BY <2>1
  <2> QED
    BY <2>2 DEF MinimaInv, Places, InOrderOf, Sorted
<1> QED
  BY <1>1, MinimaInvAlways, PTL

\* No entry outlives MaxAge calls by more than two for each place before it, for all
\* values and every number of calls.
THEOREM EntriesLeave == MinimaSpec => []EntriesAreRecent
<1>1. MinimaInv => EntriesAreRecent
  <2> SUFFICES ASSUME MinimaInv, NEW k \in 1..Size, minima[k].born > 0
               PROVE  frame_counter - minima[k].born < MaxAge + 2 * (Size - 1)
    BY DEF EntriesAreRecent
  <2>1. Lives(minima[k])
    BY DEF MinimaInv, Void
  <2> QED
    BY <2>1, LifeBounded DEF Life
<1> QED
  BY <1>1, MinimaInvAlways, PTL

\* The mean is a number.
MeanInv == MinimaInv /\ mean_value \in Int

\* Rounding to the nearest does not leave the range between two integers.
LEMMA SmoothedBetween ==
  ASSUME mean_value \in Int, frame_counter \in Nat, NEW median \in Int
  PROVE  /\ Smoothed(median) \in Int
         /\ \/ mean_value <= Smoothed(median) /\ Smoothed(median) <= median
            \/ median <= Smoothed(median) /\ Smoothed(median) <= mean_value
<1>1. CASE frame_counter = 0
  <2>1. Smoothed(median) = (1 * mean_value + 32767 * median + 16384) \div 32768
    BY <1>1 DEF Smoothed
  <2> QED
    BY <2>1
<1>2. CASE frame_counter # 0 /\ median < mean_value
  <2>1. Smoothed(median) = (6554 * mean_value + 26214 * median + 16384) \div 32768
    BY <1>2 DEF Smoothed
  <2> QED
    BY <1>2, <2>1
<1>3. CASE frame_counter # 0 /\ ~ (median < mean_value)
  <2>1. Smoothed(median) = (32440 * mean_value + 328 * median + 16384) \div 32768
    BY <1>3 DEF Smoothed
  <2> QED
    BY <1>3, <2>1
<1> QED
  BY <1>1, <1>2, <1>3

\* So is the median.
LEMMA MedianType ==
  ASSUME Places(minima'), frame_counter \in Nat
  PROVE  current_median(minima') \in Int
<1>1. 1 \in 1..Size /\ 3 \in 1..Size
  BY MinimaAssumption
<1>2. minima'[1] \in Entry /\ minima'[3] \in Entry
  BY <1>1 DEF Places
<1>3. minima'[1].value \in Int /\ minima'[3].value \in Int
  BY <1>2, EntryType
<1> QED
  BY <1>3 DEF current_median

\* A call moves the mean towards the median, and not past it.
LEMMA MeanStep ==
  ASSUME MeanInv, [MinimaNext]_minimaVars
  PROVE  /\ MeanInv'
         /\ [LET median == current_median(minima')
             IN  \/ mean_value <= mean_value' /\ mean_value' <= median
                 \/ median <= mean_value' /\ mean_value' <= mean_value]_minimaVars
<1>1. MinimaInv'
  BY NextMinimaInv DEF MeanInv
<1>2. CASE UNCHANGED minimaVars
  BY <1>1, <1>2 DEF MeanInv, minimaVars
<1>3. ASSUME NEW x \in Features, WebRtcVad_FindMinimum(x)
      PROVE  /\ mean_value' \in Int
             /\ LET median == current_median(minima')
                IN  \/ mean_value <= mean_value' /\ mean_value' <= median
                    \/ median <= mean_value' /\ mean_value' <= mean_value
  <2>1. Places(minima') /\ frame_counter \in Nat /\ mean_value \in Int
    BY <1>1 DEF MinimaInv, MeanInv, Places
  <2> DEFINE m == current_median(minima')
  <2>2. m \in Int
    BY <2>1, MedianType
  <2>3. mean_value' = Smoothed(m)
    BY <1>3 DEF WebRtcVad_FindMinimum
  <2> HIDE DEF m
  <2>4. /\ mean_value' \in Int
        /\ \/ mean_value <= mean_value' /\ mean_value' <= m
           \/ m <= mean_value' /\ mean_value' <= mean_value
    BY <2>1, <2>2, <2>3, SmoothedBetween
  <2> QED
    BY <2>4 DEF m
<1> QED
  BY <1>1, <1>2, <1>3 DEF MeanInv, MinimaNext

\* The mean never leaves the range between where it was and the median, in spite of the
\* rounding in Q15.
THEOREM MeanFollows == MinimaSpec => MeanFollowsMedian
<1>1. MinimaInit => MeanInv
  BY InitMinimaInv DEF MinimaInit, MeanInv
<1> QED
  BY <1>1, MeanStep, PTL DEF MinimaSpec, MeanFollowsMedian
=============================================================================
