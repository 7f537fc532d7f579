\* Hangovers: three frames of speech have the long one; seven frames hold them, the
\* longest hangover and a frame after it.  Two modes and two lengths of frames
\* change in the middle of speech and hangover.
\* Minima: an entry can be passed over as often as the bound allows: four values, of
\* which two are below the entry's, and calls enough for two generations of them.
CONSTANTS
  OverHangMax1 <- SmallMax1
  OverHangMax2 <- SmallMax2
  Modes = {0, 1}
  Lengths = {1, 2}
  MaxSpeechFrames = 2
  Uninit = {0, 7}
  MaxFrames = 7
  Size = 3
  MaxAge = 5
  Features <- MCFeatures
  MaxCalls = 13
SPECIFICATION MCSpec
INVARIANTS
  DecisionIsHangover
  Sorted
  EntriesAreRecent
PROPERTIES
  MeanFollowsMedian
