SPECIFICATION Spec
CONSTANTS
  Caller = {c1, c2, c3}
SYMMETRY Symmetry
INVARIANTS
  OneTransaction
  NothingOverlooked
  NotLeftLocked
