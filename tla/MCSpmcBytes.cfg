CONSTANTS
  Consumers = {c1, c2}
  Capacity = 16
  BatchDivisor = 1
  Lengths <- OneLap
  MaxPushes = 4
SPECIFICATION MCSpec
PROPERTIES
  GateIsReleased
  ImplementsRecordBroadcast
  PushProceeds
CHECK_DEADLOCK FALSE
