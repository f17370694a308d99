\* A ring of two, so that the third message waits; a registry slot for each handle,
\* as a subscriber finds a free slot or appends a chunk.
CONSTANTS
  Consumers = {c1, c2}
  Slots = {s1, s2}
  Capacity = 2
  BatchDivisor = 1
  MaxSeq = 3
SPECIFICATION LiveSpec
PROPERTY PushProceeds
