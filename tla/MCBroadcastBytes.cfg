\* Two laps and more in three pushes: a record of half the ring is padded when it would cross
\* the end. The first producer may leave a push unfinished.
CONSTANTS
  capacity = 32
  LengthDivisor = 2
  Lengths = {0, 16}
  MaxPushes = 3
  MaxSessions = 2
SPECIFICATION BytesLiveSpec
INVARIANT WindowIsIntact
PROPERTIES
  ImplementsLossyRecords
  CloseIsReported
CHECK_DEADLOCK FALSE
