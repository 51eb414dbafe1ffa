SPECIFICATION Spec
CONSTANTS
  N = 2
  Ops = 1
  Workers = 2
  Capacity = 100
  Modes = {FALSE, TRUE}
  MaxCrashes = 1
  MaxFaults = 1
  MaxForeign = 1
  Faulty <- AllCalls
INVARIANTS
  BeforeSurvives
  WriteAhead
PROPERTIES
  ForeignPreserved
  FinishedIsFinal
  RollbackNeverForward
