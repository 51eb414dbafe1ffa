SPECIFICATION Spec
CONSTANTS
  N = 2
  MaxDeaths = 2
  MaxFaults = 2
  MaxForeign = 1
INVARIANTS
  TypeOK
  EditNeverRefuses
  EditNoOrphans
PROPERTIES
  ImplementsAtomicApply
  ForeignPreserved
  EditResolves
