--------------------------- MODULE SharedDetector ---------------------------
(***************************************************************************)
(* The one voice detector of the server (pvad_inst of main in server.cc),  *)
(* which the decoding threads of all sessions call without a lock: the     *)
(* hangover at the end of GmmProbability (vad_core.c), one access to the   *)
(* shared object a step.                                                   *)
(*                                                                         *)
(* A value read twice may come from memory both times or, in an optimised  *)
(* build, be the one read before.  Whether a frame is speech is a free     *)
(* choice, as the filters and the Gaussian model are shared as well.       *)
(***************************************************************************)
EXTENDS Integers, FiniteSets

CONSTANTS
  Sessions,        \* sessions that decode
  OverHang1,       \* overhead1: frames of hangover after some speech (8)
  OverHang2,       \* overhead2: after much of it (14)
  MaxSpeechFrames, \* kMaxSpeechFrames (6)
  MaxSpeech        \* bound: frames of speech

ASSUME SharedDetectorAssumption ==
  /\ IsFiniteSet(Sessions)
  /\ {OverHang1, OverHang2, MaxSpeechFrames, MaxSpeech} \subseteq Nat
  /\ OverHang1 <= OverHang2

VARIABLES
  over_hang, num_of_speech, vad, \* the members of the shared VadInstT
  pc,       \* where a session's call is
  loaded,   \* per session: the counter it loaded
  vadflag,  \* per session: its decision
  verdict,  \* per session: what WebRtcVad_Process returned last
  speech,   \* history, per session: the frame is speech
  entry,    \* history, per session: the counters when its call began, while no other overlaps
  spoken,   \* history: frames of speech so far
  quiet,    \* the environment: nobody speaks any more
  prolonged \* history: frames without speech judged active since then

shared  == <<over_hang, num_of_speech, vad>>
history == <<entry, speech, spoken, quiet, prolonged>>
vars    == <<shared, pc, loaded, vadflag, verdict, history>>
-----------------------------------------------------------------------------
Pcs == {"idle", "smooth", "flag", "load", "store", "zero", "count", "add", "test", "cap",
        "long", "short", "keep", "return"}

Unknown == [hang |-> -1, speech |-> -1]

\* main: the detector is initialised before the first session.
Init ==
  /\ over_hang = 0 /\ num_of_speech = 0 /\ vad = 1
  /\ pc = [s \in Sessions |-> "idle"]
  /\ loaded = [s \in Sessions |-> 0]
  /\ vadflag = [s \in Sessions |-> 0]
  /\ verdict = [s \in Sessions |-> 0]
  /\ speech = [s \in Sessions |-> FALSE]
  /\ entry = [s \in Sessions |-> Unknown]
  /\ spoken = 0 /\ quiet = FALSE /\ prolonged = 0

At(s, here, there) == pc[s] = here /\ pc' = [pc EXCEPT ![s] = there]

\* A session's decoder calls WebRtcVad_Process, up to the test of vadflag.
Call(s, is_speech) ==
  /\ At(s, "idle", IF is_speech THEN "count" ELSE "smooth")
  /\ is_speech => ~ quiet /\ spoken < MaxSpeech
  /\ speech' = [speech EXCEPT ![s] = is_speech]
  /\ vadflag' = [vadflag EXCEPT ![s] = IF is_speech THEN 1 ELSE 0]
  /\ entry' = [t \in Sessions |->
                 IF t = s /\ \A u \in Sessions : pc[u] = "idle"
                 THEN [hang |-> over_hang, speech |-> num_of_speech]
                 ELSE Unknown]
  /\ spoken' = IF is_speech THEN spoken + 1 ELSE spoken
  /\ UNCHANGED <<shared, loaded, verdict, quiet, prolonged>>

\* if (self->over_hang > 0)
TestHang(s) ==
  /\ At(s, "smooth", IF over_hang > 0 THEN "flag" ELSE "zero")
  /\ loaded' = [loaded EXCEPT ![s] = over_hang]
  /\ UNCHANGED <<shared, vadflag, verdict, history>>

\* vadflag = 2 + self->over_hang
FlagHang(s) ==
  /\ At(s, "flag", "load")
  /\ loaded' \in {[loaded EXCEPT ![s] = n] : n \in {loaded[s], over_hang}}
  /\ vadflag' = [vadflag EXCEPT ![s] = 2 + loaded'[s]]
  /\ UNCHANGED <<shared, verdict, history>>

\* self->over_hang--, the load
LoadHang(s) ==
  /\ At(s, "load", "store")
  /\ loaded' \in {[loaded EXCEPT ![s] = n] : n \in {loaded[s], over_hang}}
  /\ UNCHANGED <<shared, vadflag, verdict, history>>

\* The store of the hangover that is left.
Stores(s, left) ==
  /\ At(s, "store", "zero")
  /\ over_hang' = left
  /\ UNCHANGED <<num_of_speech, vad, loaded, vadflag, verdict, history>>

\* A plausible bug: the hangover is renewed.
StoreHangRenewed(s) == Stores(s, OverHang1)

StoreHang(s) == Stores(s, loaded[s] - 1)

\* self->num_of_speech = 0
ZeroSpeech(s) ==
  /\ At(s, "zero", "keep")
  /\ num_of_speech' = 0
  /\ UNCHANGED <<over_hang, vad, loaded, vadflag, verdict, history>>

\* self->num_of_speech++, the load
LoadSpeech(s) ==
  /\ At(s, "count", "add")
  /\ loaded' = [loaded EXCEPT ![s] = num_of_speech]
  /\ UNCHANGED <<shared, vadflag, verdict, history>>

\* The store.
StoreSpeech(s) ==
  /\ At(s, "add", "test")
  /\ num_of_speech' = loaded[s] + 1
  /\ UNCHANGED <<over_hang, vad, loaded, vadflag, verdict, history>>

\* if (self->num_of_speech > kMaxSpeechFrames)
TestSpeech(s) ==
  /\ \E n \in {loaded[s] + 1, num_of_speech} :
       At(s, "test", IF n > MaxSpeechFrames THEN "cap" ELSE "short")
  /\ UNCHANGED <<shared, loaded, vadflag, verdict, history>>

\* A plausible bug: the count restarts.
CapSpeechRestarts(s) ==
  /\ At(s, "cap", "long")
  /\ num_of_speech' = 0
  /\ UNCHANGED <<over_hang, vad, loaded, vadflag, verdict, history>>

\* self->num_of_speech = kMaxSpeechFrames
CapSpeech(s) ==
  /\ At(s, "cap", "long")
  /\ num_of_speech' = MaxSpeechFrames
  /\ UNCHANGED <<over_hang, vad, loaded, vadflag, verdict, history>>

\* self->over_hang = overhead2, or overhead1
SetHang(s) ==
  /\ \/ At(s, "long", "keep") /\ over_hang' = OverHang2
     \/ At(s, "short", "keep") /\ over_hang' = OverHang1
  /\ UNCHANGED <<num_of_speech, vad, loaded, vadflag, verdict, history>>

\* inst->vad = GmmProbability(...)
KeepDecision(s) ==
  /\ At(s, "keep", "return")
  /\ vad' = vadflag[s]
  /\ UNCHANGED <<over_hang, num_of_speech, loaded, vadflag, verdict, history>>

\* return inst->vad, and what WebRtcVad_Process makes of it.
Return(s) ==
  /\ At(s, "return", "idle")
  /\ \E decision \in {vadflag[s], vad} :
       /\ verdict' = [verdict EXCEPT ![s] = IF decision > 0 THEN 1 ELSE decision]
       /\ prolonged' = IF quiet /\ ~ speech[s] /\ decision > 0 THEN prolonged + 1 ELSE prolonged
  /\ UNCHANGED <<shared, loaded, vadflag, entry, speech, spoken, quiet>>

\* Nobody speaks any more, from a moment between two calls on.
FallSilent ==
  /\ ~ quiet
  /\ \A s \in Sessions : pc[s] = "idle"
  /\ quiet' = TRUE
  /\ UNCHANGED <<shared, pc, loaded, vadflag, verdict, entry, speech, spoken, prolonged>>

Process(s) ==
  \/ TestHang(s) \/ FlagHang(s) \/ LoadHang(s) \/ StoreHang(s) \/ ZeroSpeech(s)
  \/ LoadSpeech(s) \/ StoreSpeech(s) \/ TestSpeech(s) \/ CapSpeech(s) \/ SetHang(s)
  \/ KeepDecision(s) \/ Return(s)

Next ==
  \/ \E s \in Sessions : Process(s) \/ \E is_speech \in BOOLEAN : Call(s, is_speech)
  \/ FallSilent

Spec == Init /\ [][Next]_vars
-----------------------------------------------------------------------------
(***************************************************************************)
(* Properties                                                              *)
(***************************************************************************)
\* The variables keep their types, and the hangover stays below the greater one of
\* the table.
TypeOK ==
  /\ over_hang \in Int /\ over_hang <= OverHang2
  /\ num_of_speech \in Nat /\ vad \in Int
  /\ pc \in [Sessions -> Pcs]
  /\ loaded \in [Sessions -> Int]
  /\ vadflag \in [Sessions -> Int]
  /\ verdict \in [Sessions -> Int]
  /\ speech \in [Sessions -> BOOLEAN]
  /\ entry \in [Sessions -> [hang : Int, speech : Int]]
  /\ spoken \in 0..MaxSpeech
  /\ quiet \in BOOLEAN
  /\ prolonged \in Nat

\* A call that no other overlaps is the detector's step as one reads it: its
\* accesses to the shared object add up to Hangover and Active of Detector.
UndisturbedIsAtomic ==
  \A s \in Sessions :
    pc[s] = "return" /\ entry[s] # Unknown =>
      LET n == entry[s].speech + 1
      IN  /\ vad = vadflag[s]
          /\ \/ /\ speech[s] /\ vad = 1
                /\ over_hang = IF n > MaxSpeechFrames THEN OverHang2 ELSE OverHang1
                /\ num_of_speech = IF n > MaxSpeechFrames THEN MaxSpeechFrames ELSE n
             \/ /\ ~ speech[s] /\ num_of_speech = 0
                /\ \/ entry[s].hang > 0 /\ vad = 2 + entry[s].hang /\ over_hang = entry[s].hang - 1
                   \/ entry[s].hang <= 0 /\ vad = 0 /\ over_hang = entry[s].hang

\* However the calls of two sessions interleave, the hangover that speech set ends.
\* Decrements are lost when one session stores what it loaded before the other
\* counted down, but each time from one less: where one session has at most
\* OverHang2 frames judged active after its speech, two have a square of that.
HangoverEnds ==
  Cardinality(Sessions) <= 2 => 2 * prolonged <= OverHang2 * (OverHang2 + 5)

\* webrtc_vad.h: the result is 1, 0, or -1 for an error, and no call here is one.
VerdictDocumented == \A s \in Sessions : verdict[s] \in {0, 1}
=============================================================================
