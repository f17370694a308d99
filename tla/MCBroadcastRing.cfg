\* Four slots, lapped, two payload words, two messages of slack and a batch of
\* up to two.
CONSTANTS
  Capacity = 4
  Slack = 2
  Words = 2
  BatchDivisor = 1
  MaxSeq = 5
SPECIFICATION LiveSpec
INVARIANTS
  TypeOK
  SlotNotBehind
  ClosedMeansDrained
PROPERTIES
  PublishedIsReached
  ImplementsLossyLog
