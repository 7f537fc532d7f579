\* A client that follows the protocol and stays connected, and a recogniser that
\* also gives an answer that throws, or closes the connection.
CONSTANTS
  Window = 1
  MinAct = 1
  MinClose = 1
  MinTail = 1
  SamplesPerFrame = 2
  Header = 1
  MinSpl = 3
  MinSpeak = 1
  GrowAt <- MCGrowAt
  Uninit = {0, 1}
  Chunks = {1, 6, 8}
  Signals = {"start", "end"}
  Polite = TRUE
  MayBreak = FALSE
  Results = {"short", "long", "throw", "sigpipe"}
  MaxSamples = 13
  MaxRanges = 3
SPECIFICATION FairSpec
INVARIANTS
  TypeOK
  SegmentsPosted
  FramesJudgedOnce
  CopiesInBounds
  WritesExclusive
  FinalUndisturbed
PROPERTIES
  ImplementsTranscript
  EndAnswered
