----------------------------- MODULE MCDetector -----------------------------
(***************************************************************************)
(* Model checking of Detector, with small tables in which the order of the *)
(* hangovers varies as it does in the real ones, and of Minima, for few    *)
(* entries that age fast.  They are parts of one detector, but neither     *)
(* reads the other's state: only one of them steps in a behaviour, which   *)
(* keeps the number of states to the sum of theirs.                        *)
(***************************************************************************)
EXTENDS Detector, Minima

SmallMax1 == (0 :> <<2, 1>>) @@ (1 :> <<1, 1>>)
SmallMax2 == (0 :> <<3, 2>>) @@ (1 :> <<2, 1>>)

\* Two of them are below each of the others.
MCFeatures == {100, 1000, 2500, 3000}

VARIABLE part \* which of the two steps

\* The counters that malloc leaves matter to Detector alone.
MCInit ==
  /\ part \in {"hangover", "minima"}
  /\ Init /\ MinimaInit
  /\ part = "minima" => mode = 0 /\ over_hang = 0 /\ num_of_speech = 0 /\ vad = 0

\* The bound on the calls is reached.
AllCalled == frame_counter = MaxCalls /\ UNCHANGED minimaVars

MCNext ==
  /\ UNCHANGED part
  /\ \/ part = "hangover" /\ Next /\ UNCHANGED minimaVars
     \/ part = "minima" /\ (MinimaNext \/ AllCalled) /\ UNCHANGED vars

MCSpec == MCInit /\ [][MCNext]_<<part, vars, minimaVars>>
=============================================================================
