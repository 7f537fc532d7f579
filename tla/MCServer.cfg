\* Three clients may connect to a server that has descriptors for two.
CONSTANTS
  Clients = {c1, c2, c3}
  MaxOpen = 3
  MayFail = TRUE
SPECIFICATION FairSpec
INVARIANTS
  NoConnectionLost
PROPERTIES
  ClientServed
