SPECIFICATION FairSpec
CONSTANTS
  c1 = c1
  c2 = c2
  c3 = c3
  Conns = {c1, c2, c3}
  MaxCommands = 3
  MaxRestarts = 2
  MaxPanics = 1
  MaxBuildFailures = 1
PROPERTIES
  TapIsReleased
INVARIANTS
  UnwantedTapIsDown
