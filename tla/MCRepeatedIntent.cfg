SPECIFICATION Spec
CONSTANTS
  N = 1
  MaxDeaths = 3
  MaxFaults = 0
  MaxForeign = 0
INVARIANT AlwaysRecoverable
