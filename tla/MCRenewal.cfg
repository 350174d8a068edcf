SPECIFICATION Spec
CONSTANTS
  Plans <- MCPlans
INVARIANTS
  NeverExpired
