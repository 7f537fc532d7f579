\* Two pieces of any length and a third fit into the recording.  The silence
\* before sound is more than one frame, so that a cut lies before the piece that
\* is judged; a piece of the greatest length may begin within sound or silence.
\* Room for one period at first, and frames for seven: the arrays double three
\* times.
CONSTANTS
  MinFrames = 4
  MaxFrames = 7
  SilenceAfter = 2
  SilenceBefore = 2
  FileFrames = 14
  PeriodsInited = 1
SPECIFICATION ToolSpec
INVARIANTS
  SilentInI
