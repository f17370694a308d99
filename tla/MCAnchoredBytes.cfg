CONSTANTS
  Anchors = {a1}
  Capacity = 32
  BatchDivisor = 2
  LengthDivisor = 4
  Lengths <- OneLap
  MaxPushes = 4
  MaxSessions = 2
SPECIFICATION Spec
INVARIANT AnchorShieldsObservers
PROPERTIES
  AnchorsLoseNothing
  ImplementsLossyRecords
CHECK_DEADLOCK FALSE
