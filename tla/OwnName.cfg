SPECIFICATION FairNameSpec
CONSTANTS
  p1 = p1
  p2 = p2
  Us = Us
  Nobody = Nobody
  Peers = {p1, p2}
  PermanentAfter = 3
  MaxTally = 4
  MaxQueued = 5
  MaxSignals = 3
INVARIANTS
  OwnedIsTrue
PROPERTIES
  ReleaseIsNoticed
  QuietNameIsOwned
