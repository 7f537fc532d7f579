------------------------------- MODULE Minima -------------------------------
(***************************************************************************)
(* The moving minimum of one channel of the voice detector                 *)
(* (WebRtcVad_FindMinimum in vad_sp.c): the smallest features seen lately, *)
(* sorted, each with its age, and a mean that follows their median.        *)
(*                                                                         *)
(* A step is a call.  GmmProbability calls it once per channel for a frame *)
(* with enough energy, and counts such frames.                             *)
(***************************************************************************)
EXTENDS Integers, Sequences, SequencesExt

CONSTANTS
  Size,     \* entries per channel (16)
  MaxAge,   \* calls that an entry is kept for (100)
  Features, \* values of a feature
  MaxCalls  \* bound: calls

Big == 10000

ASSUME MinimaAssumption ==
  /\ Size \in Nat /\ Size >= 3
  /\ MaxAge \in Nat /\ 2 * (Size - 1) < MaxAge
  /\ MaxCalls \in Nat
  /\ Features \subseteq 0..Big

VARIABLES
  minima,        \* low_value_vector and index_vector, and when the value was inserted
  mean_value,
  frame_counter

minimaVars == <<minima, mean_value, frame_counter>>
-----------------------------------------------------------------------------
\* WebRtcVad_InitCore
MinimaInit ==
  /\ minima = [k \in 1..Size |-> [value |-> Big, age |-> 0, born |-> 0]]
  /\ mean_value = 1600
  /\ frame_counter = 0

Removed == [value |-> Big, age |-> MaxAge + 1, born |-> 0]

\* A plausible bug: the place of an entry that is removed stays free.
AgeAtLeaves(entries, k) ==
  IF entries[k].age # MaxAge
    THEN [entries EXCEPT ![k].age = @ + 1]
    ELSE [entries EXCEPT ![k] = Removed]

\* The loop's body for place k.  An entry that is removed is replaced by its
\* successor, which the loop then passes over.  (The shift also reads the element
\* past the last place, of the next channel or past the array, into the last place,
\* which is overwritten at once: of this read nothing is modelled but its result.)
AgeAt(entries, k) ==
  IF entries[k].age # MaxAge
    THEN [entries EXCEPT ![k].age = @ + 1]
    ELSE Append(RemoveAt(entries, k), Removed)

\* A plausible bug: nothing is ever removed.
AgedForever ==
  [k \in 1..Size |-> [minima[k] EXCEPT !.age = @ + 1]]

\* All entries one call older.
Aged ==
  LET after[k \in 0..Size] == IF k = 0 THEN minima ELSE AgeAt(after[k - 1], k)
  IN  after[Size]

\* The entries with a feature inserted, if it is smaller than one of them.  The
\* code finds its place by bisection, which is this one as they are sorted.
Place(entries, feature_value) ==
  CHOOSE k \in 1..Size :
    /\ feature_value < entries[k].value
    /\ \A l \in 1..k - 1 : feature_value >= entries[l].value

IsSmall(entries, feature_value) == feature_value < entries[Size].value

Inserted(entries, feature_value) ==
  IF IsSmall(entries, feature_value)
    THEN SubSeq(InsertAt(entries, Place(entries, feature_value),
                         [value |-> feature_value, age |-> 1, born |-> frame_counter + 1]),
                1, Size)
    ELSE entries

\* The median of the five smallest; at first the smallest, or a default.
current_median(entries) ==
  CASE frame_counter > 2 -> entries[3].value
    [] frame_counter \in 1..2 -> entries[1].value
    [] OTHER -> 1600

\* A plausible bug: one is added for the rounding, not a half.
SmoothedUp(median) ==
  LET alpha == IF frame_counter = 0 THEN 0 ELSE IF median < mean_value THEN 6553 ELSE 32439
  IN  ((alpha + 1) * mean_value + (32767 - alpha) * median + 32768) \div 32768

\* In Q15: fast downwards, slow upwards.
Smoothed(median) ==
  LET alpha == IF frame_counter = 0 THEN 0 ELSE IF median < mean_value THEN 6553 ELSE 32439
  IN  ((alpha + 1) * mean_value + (32767 - alpha) * median + 16384) \div 32768

WebRtcVad_FindMinimum(feature_value) ==
  /\ frame_counter < MaxCalls
  /\ minima' = Inserted(Aged, feature_value)
  /\ mean_value' = Smoothed(current_median(minima'))
  /\ frame_counter' = frame_counter + 1

MinimaNext == \E feature_value \in Features : WebRtcVad_FindMinimum(feature_value)

MinimaSpec == MinimaInit /\ [][MinimaNext]_minimaVars
-----------------------------------------------------------------------------
(***************************************************************************)
(* Properties                                                              *)
(***************************************************************************)
\* There are Size entries, sorted, on which the search for a place and the median rely.
Sorted ==
  /\ Len(minima) = Size
  /\ \A k \in 1..Size - 1 : minima[k].value <= minima[k + 1].value

\* An entry may stay longer than MaxAge calls, as its age does not grow when it
\* takes the place of one that is removed; but that happens at most twice for each
\* place before it, once with an entry that was there before it and once with one
\* that came later: no entry lives on for ever, whatever smaller features come and go.
EntriesAreRecent ==
  \A k \in 1..Size :
    minima[k].born > 0 => frame_counter - minima[k].born < MaxAge + 2 * (Size - 1)

\* The mean never leaves the range between where it was and the median.
MeanFollowsMedian ==
  [][LET median == current_median(minima')
     IN  \/ mean_value <= mean_value' /\ mean_value' <= median
         \/ median <= mean_value' /\ mean_value' <= mean_value]_minimaVars
=============================================================================
