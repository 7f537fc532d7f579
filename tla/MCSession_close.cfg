\* A client that follows the protocol but may disappear before the end.
CONSTANTS
  Window = 1
  MinAct = 1
  MinClose = 1
  MinTail = 1
  SamplesPerFrame = 2
  Header = 1
  MinSpl = 3
  MinSpeak = 1
  GrowAt <- MCGrowAt
  Uninit = {0, 1}
  Chunks = {6}
  Signals = {"start", "end"}
  Polite = TRUE
  MayBreak = TRUE
  Results = {"long"}
  MaxSamples = 5
  MaxRanges = 1
SPECIFICATION Spec
INVARIANT SessionCloseIsLocal
