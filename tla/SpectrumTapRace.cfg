SPECIFICATION Spec
CONSTANTS
  c1 = c1
  c2 = c2
  c3 = c3
  Conns = {c1, c2}
  MaxCommands = 3
  MaxRestarts = 0
  MaxPanics = 0
  MaxBuildFailures = 0
INVARIANTS
  DemandedTapRuns
