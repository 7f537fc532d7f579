------------------------------ MODULE Detector ------------------------------
(***************************************************************************)
(* The control of the WebRTC voice detector: its API (webrtc_vad.c) and    *)
(* how it prolongs speech (the end of GmmProbability in vad_core.c).       *)
(*                                                                         *)
(* What the Gaussian model finds in a frame is a free choice.  A call that *)
(* is refused returns -1 and changes nothing: it is a guard here.          *)
(***************************************************************************)
EXTENDS Integers, Sequences

CONSTANTS
  OverHangMax1,    \* kOverHangMax1Q, ...: mode -> length of the frame -> frames
  OverHangMax2,    \* kOverHangMax2Q, ...
  Modes,           \* the modes (0..3), of which 0 is kDefaultMode
  Lengths,         \* the frame's length in units of 10 ms (1..3)
  MaxSpeechFrames, \* kMaxSpeechFrames (6)
  Uninit,          \* values of a counter that malloc leaves
  MaxFrames        \* bound: frames since the last WebRtcVad_Init

Hangs == [Modes -> [Lengths -> Nat]]

ASSUME DetectorAssumption ==
  /\ OverHangMax1 \in Hangs /\ OverHangMax2 \in Hangs
  /\ 0 \in Modes
  /\ MaxSpeechFrames \in Nat
  /\ Uninit \subseteq Nat
  /\ MaxFrames \in Nat

VARIABLES
  init_flag,      \* 42 once initialised
  mode,           \* whose tables over_hang_max_1 and over_hang_max_2 hold
  over_hang,
  num_of_speech,
  vad,            \* the last decision; WebRtcVad_Process returns 1 if it is positive
  frames          \* history: the frames since WebRtcVad_Init

vars == <<init_flag, mode, over_hang, num_of_speech, vad, frames>>
-----------------------------------------------------------------------------
kInitCheck == 42

\* WebRtcVad_Create
Init ==
  /\ init_flag = 0
  /\ mode \in Modes
  /\ over_hang \in Uninit /\ num_of_speech \in Uninit /\ vad \in Uninit
  /\ frames = <<>>

\* What the history keeps of a frame: whether it is speech, and the hangovers in
\* force if it is.
Silence == [speech |-> FALSE, short |-> 0, long |-> 0]
Speech(length) ==
  [speech |-> TRUE, short |-> OverHangMax1[mode][length], long |-> OverHangMax2[mode][length]]

\* A plausible bug: a hangover of the audio before lives on.
InitCoreKeeps ==
  /\ init_flag' = kInitCheck
  /\ mode' = 0
  /\ vad' = 1
  /\ UNCHANGED <<over_hang, num_of_speech>>
  /\ frames' = <<>>

\* WebRtcVad_Init, which may be called at any time.
InitCore ==
  /\ init_flag' = kInitCheck
  /\ mode' = 0
  /\ vad' = 1
  /\ over_hang' = 0 /\ num_of_speech' = 0
  /\ frames' = <<>>

set_mode(new_mode) ==
  /\ init_flag = kInitCheck
  /\ mode' = new_mode
  /\ UNCHANGED <<init_flag, over_hang, num_of_speech, vad, frames>>

\* A frame without speech: it is active while the hangover lasts.
Hangover ==
  /\ vad' = IF over_hang > 0 THEN 2 + over_hang ELSE 0
  /\ over_hang' = IF over_hang > 0 THEN over_hang - 1 ELSE 0
  /\ num_of_speech' = 0

\* A frame of speech: more than MaxSpeechFrames in a row have the long hangover.
Active(length) ==
  /\ vad' = 1
  /\ IF num_of_speech + 1 > MaxSpeechFrames
       THEN /\ num_of_speech' = MaxSpeechFrames
            /\ over_hang' = OverHangMax2[mode][length]
       ELSE /\ num_of_speech' = num_of_speech + 1
            /\ over_hang' = OverHangMax1[mode][length]

WebRtcVad_Process(length, speech) ==
  /\ init_flag = kInitCheck
  /\ Len(frames) < MaxFrames
  /\ IF speech THEN Active(length) ELSE Hangover
  /\ frames' = Append(frames, IF speech THEN Speech(length) ELSE Silence)
  /\ UNCHANGED <<init_flag, mode>>

Next ==
  \/ InitCore
  \/ \E new_mode \in Modes : set_mode(new_mode)
  \/ \E length \in Lengths, speech \in BOOLEAN : WebRtcVad_Process(length, speech)

Spec == Init /\ [][Next]_vars
-----------------------------------------------------------------------------
(***************************************************************************)
(* Properties                                                              *)
(***************************************************************************)
Frame == [speech : BOOLEAN, short : Nat, long : Nat]

\* The variables keep their types.
TypeOK ==
  /\ init_flag \in {0, kInitCheck}
  /\ mode \in Modes
  /\ over_hang \in Nat
  /\ num_of_speech \in Nat
  /\ vad \in Nat
  /\ frames \in Seq(Frame)

\* More than MaxSpeechFrames frames of speech in a row end with frame m.
LongSpeech(m) ==
  m > MaxSpeechFrames /\ \A k \in m - MaxSpeechFrames..m : frames[k].speech

HangOf(m) == IF LongSpeech(m) THEN frames[m].long ELSE frames[m].short

\* The last frame of speech before frame n is frame m.
SpeechBefore(n, m) == frames[m].speech /\ \A k \in m + 1..n : ~ frames[k].speech

\* The decision on frame n, from the frames alone: 1 for speech; from 3 upwards,
\* counting down, in its hangover, which is that of the last speech under the
\* mode and length it had; else 0.
Decided(n, decision) ==
  \/ frames[n].speech /\ decision = 1
  \/ /\ ~ frames[n].speech
     /\ \E m \in 1..n - 1 :
          SpeechBefore(n, m) /\ n - m <= HangOf(m) /\ decision = 3 + HangOf(m) - (n - m)
  \/ /\ ~ frames[n].speech
     /\ \A m \in 1..n - 1 : SpeechBefore(n, m) => n - m > HangOf(m)
     /\ decision = 0

\* A decision depends on the last stretch of speech only: not on what is left of
\* earlier hangovers, nor on a mode set since, nor on what malloc or the audio
\* before WebRtcVad_Init left.
DecisionIsHangover == frames # <<>> => Decided(Len(frames), vad)
=============================================================================
