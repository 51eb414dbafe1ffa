SPECIFICATION Spec
CONSTANTS
  P = 4
  MaxOps = 3
  Plans <- ShortPlans
INVARIANTS
  AcceptsTheLegal
  CompiledAsByHand
