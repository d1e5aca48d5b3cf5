SPECIFICATION Spec
CONSTANTS
  Distance <- MCDistance
  Limit = 1
  MaxRoads = 3
INVARIANT RefusedOnlyTooFar
CHECK_DEADLOCK FALSE
