SPECIFICATION FairSpec
CONSTANTS
  N = 2
  Ops = 1
  Workers = 2
  Capacity = 100
  Modes = {FALSE, TRUE}
  MaxCrashes = 2
  MaxFaults = 2
  MaxForeign = 0
  Faulty <- HandledCalls
INVARIANTS
  TypeOK
  JournalReplayable
  RecoveryNeverRefuses
  NoOrphans
  ReceiptBacked
PROPERTIES
  ImplementsAtomicApply
  Resolves
