\* Each speech frame of one session lets the other store a smaller count: nine
\* suffice for a decision below zero.
CONSTANTS
  Sessions = {s1, s2}
  OverHang1 = 2
  OverHang2 = 3
  MaxSpeechFrames = 1
  MaxSpeech = 9
SPECIFICATION Spec
SYMMETRY Symmetry
INVARIANT VerdictDocumented
