SPECIFICATION Spec
CONSTANTS
  N = 2
  Ops = 1
  MaxLength = 17
INVARIANTS
  TypeOK
  AcceptsTheGrammar
  ReportsTheRecords
  RollbackCanResume
