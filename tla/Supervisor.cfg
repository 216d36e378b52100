SPECIFICATION FairSpec
CONSTANTS
  t1 = t1
  t2 = t2
  t3 = t3
  Tasks = {t1, t2, t3}
  Names = {"wifi"}
  NameOf <- SharedLabelName
  KindOf <- SharedLabelKind
  Initial = 1
  MaxDelay = 3
  MaxPanics <- PanicsOf
INVARIANTS
  StoppedMeansOver
  TableTellsTheTruth
  StreakMatchesBackoff
PROPERTIES
  CancelStops
  PanicRestarts
  ImplementsSupervisedTasks
CHECK_DEADLOCK FALSE
