\* Texts of up to two blocks and a character more are decoded.
CONSTANTS
  Responses <- MCResponses
  Sends = 3
  WireSize = 2
  Contents <- MCContents
  Answers = {"text", "nothing", "value"}
  Pieces = 2
  Symbols = {19, 44}
  MaxText = 9
SPECIFICATION FairSpec
INVARIANTS
  TypeOK
  LeavesNoSocket
  OnlyWholeAnswers
  WholeAnswersReturned
  AudioArrives
  DecodesAsRfc
  BinaryInBounds
PROPERTIES
  ClosesItsOwn
  PostEnds
