SPECIFICATION FairSpec
CONSTANTS
  f1 = f1
  f2 = f2
  f3 = f3
  Frames = {f1, f2, f3}
  WithPanel = {f2, f3}
  Burst = 2
  MaxMissed = 2
  MaxPings = 4
  Nothing = Nothing
INVARIANTS
  NewestIsOwedOrParked
PROPERTIES
  LastFrameIsShown
  HungPeerIsDropped
CHECK_DEADLOCK FALSE
