\* Any client, which may send anything and disappear at any time, any answer of
\* the recogniser, and any value in the memory state_ is in.
CONSTANTS
  Window = 1
  MinAct = 1
  MinClose = 1
  MinTail = 1
  SamplesPerFrame = 2
  Header = 1
  MinSpl = 3
  MinSpeak = 1
  GrowAt <- MCGrowAt
  Uninit = {0, 1, 2, 3}
  Chunks = {1, 6, 8}
  Signals = {"start", "end", "wrong", "junk"}
  Polite = FALSE
  MayBreak = TRUE
  Results = {"short", "noise", "six", "long", "throw", "sigpipe"}
  MaxSamples = 12
  MaxRanges = 2
SPECIFICATION FairSpec
INVARIANTS
  OnlyPostsKillAfterEnd
PROPERTIES
  EndEndsSession
  MessagesTaken
  ImplementsLife
