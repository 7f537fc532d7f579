\* Windows of two frames, active when both frames are: a window with one active
\* frame is neither active nor silent.  Segments close after more than 2 frames,
\* or after more than 1 when the recording ends.
CONSTANTS
  Window = 2
  MinAct = 2
  MinClose = 2
  MinTail = 1
  MaxFrames = 14
SPECIFICATION Spec
INVARIANTS
  WellFormed
  SpeechIsInSegments
  ClosesAtFirstSilence
PROPERTIES
  SegmentsStable
  ImplementsSegmentation
