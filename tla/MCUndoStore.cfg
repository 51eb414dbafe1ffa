SPECIFICATION Spec
CONSTANTS
  N = 3
  Ops = 1
  MaxStops = 2
  MaxForeign = 1
INVARIANTS
  TypeOK
  UndoNeverRefuses
  JournalReadable
  IntentBeforeRestore
PROPERTIES
  ImplementsExactUndo
  BackupBecomesTarget
  ForeignPreserved
  NeverAbandoned
  UndoResolves
