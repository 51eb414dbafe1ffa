SPECIFICATION Spec
CONSTANTS
  N = 2
  Ops = 1
  Workers = 2
  Capacity = 100
  Modes = {FALSE}
  MaxCrashes = 1
  MaxFaults = 1
  MaxForeign = 0
  Faulty <- FirstCheck
INVARIANTS
  RecoveryNeverRefuses
