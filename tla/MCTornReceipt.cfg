SPECIFICATION FairSpec
CONSTANTS
  N = 2
  Ops = 1
  Workers = 2
  Capacity = 100
  Modes = {TRUE}
  MaxCrashes = 1
  MaxFaults = 0
  MaxForeign = 0
  Faulty <- NoCalls
PROPERTIES
  AlwaysResolves
