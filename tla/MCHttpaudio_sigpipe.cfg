\* One proper response: the recogniser closes the connection while it is written to.
CONSTANTS
  Responses <- MCResponses
  Sends = 3
  WireSize = 2
  Contents <- MCContents
  Answers = {"text"}
  Pieces = 2
  Symbols = {19}
  MaxText = 4
SPECIFICATION FairSpec
INVARIANT SigpipeAvoided
