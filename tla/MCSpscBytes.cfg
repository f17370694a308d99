\* Four words; the shortest record, the longest, and a length beyond the
\* maximum, which panics; a batch of two words; a cursor word of two laps.
CONSTANTS
  Lengths = {0, 3, 8}
  Words = {7, 9}
  MinCapacity = 13
  Capacity = 16
  Modulus = 32
  BatchDivisor = 2
SPECIFICATION LiveSpec
INVARIANT DrainedIsIntact
PROPERTIES
  ImplementsRecordQueue
  StarvedIsReleased
  PushProceeds
