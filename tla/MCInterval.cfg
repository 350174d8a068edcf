\* The process ends: a state without a successor is one in which it has.
SPECIFICATION LoopFairSpec
CHECK_DEADLOCK FALSE
CONSTANTS
  Longest = 2
  Graces = {1, 3}
INVARIANTS
  WholeCycles
  AtMostOneLate
PROPERTIES
  SignalStops
  KeepsGoing
