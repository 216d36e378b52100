SPECIFICATION FairSpec
CONSTANTS
  Installed = {"iwd"}
  Capacity = 1
  Scenarios <- Some
INVARIANTS
  ShownIsTheBackends
  OneBackendRuns
  AgentIsServed
PROPERTIES
  SettlesOnTheDaemon
  AgentIsRegistered
CHECK_DEADLOCK FALSE
