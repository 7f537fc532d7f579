\* Two frames of speech have the long hangover, and a third sets it again while
\* calls of before are under way.
CONSTANTS
  Sessions = {s1, s2}
  OverHang1 = 2
  OverHang2 = 3
  MaxSpeechFrames = 1
  MaxSpeech = 3
SPECIFICATION Spec
SYMMETRY Symmetry
INVARIANTS
  UndisturbedIsAtomic
  HangoverEnds
