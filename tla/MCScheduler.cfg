SPECIFICATION Spec
CONSTANTS
  JobCount = 4
  Requested = 3
  HardMax = 16
INVARIANTS
  TypeOK
  PrimaryIsFirstFailure
  AdmittedOnce
PROPERTIES
  EventuallyJoined
