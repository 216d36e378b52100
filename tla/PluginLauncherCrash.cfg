SPECIFICATION FairSpec
CONSTANTS
  Plugins <- TwoPlugins
  Static <- OneStatic
  Readers <- TwoPlugins
  Specs = {"v1", "v2"}
  Contents <- Files
  FirstUnits <- Units
  Scenarios <- OneCrash
INVARIANTS
  OffStaysDown
CHECK_DEADLOCK FALSE
