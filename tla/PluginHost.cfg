SPECIFICATION FairSpec
CONSTANTS
  c1 = c1
  c2 = c2
  c3 = c3
  Conns = {c1, c2, c3}
  Plugins <- ThreePlugins
  Mounts <- TwoMounts
  Registers <- SomeRegisters
  MaxUnregistered = 2
  MaxFaults = 1
INVARIANTS
  OneConnectionPerId
  CardsAreOwned
  MirrorTellsTheTruth
  LineIsTheProviders
PROPERTIES
  NoOvertaking
  DialsAreAnswered
