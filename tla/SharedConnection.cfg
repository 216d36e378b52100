SPECIFICATION FairSpec
CONSTANTS
  o1 = o1
  o2 = o2
  o3 = o3
  Ops = {o1, o2, o3}
  MaxGeneration = 4
  MaxAttempts = 2
INVARIANTS
  LossReachesSupervisor
  OneWakePerLoss
PROPERTIES
  FailureHeals
  OnlyOwnConnectionIsCleared
  ImplementsBusLink
CHECK_DEADLOCK FALSE
