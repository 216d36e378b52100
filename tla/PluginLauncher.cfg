SPECIFICATION FairSpec
CONSTANTS
  Plugins <- TwoPlugins
  Static <- OneStatic
  Readers <- TwoPlugins
  Specs = {"v1", "v2"}
  Contents <- Files
  FirstUnits <- Units
  Scenarios <- Some
INVARIANTS
  OnIsUp
  OffIsDown
  RunsTheNewest
  BlindPassIsOwed
PROPERTIES
  NoRevival
  GoesQuiet
CHECK_DEADLOCK FALSE
