\* Four slots, two elements, batch 2 (the batch of a 16-slot ring), cursors of
\* three bits: the cursor word wraps every other lap.
CONSTANTS
  Values = {v1, v2}
  None = None
  MinCapacity = 3
  Modulus = 8
  BatchDivisor = 2
SPECIFICATION LiveSpec
INVARIANTS
  TypeOK
  TeardownDropsTheRest
PROPERTIES
  ImplementsQueue
  PushProceeds
  PublishedIsConsumed
