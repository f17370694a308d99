\* A claim may land on a slot mid-detach: the belated clear reaches the newcomer.
CONSTANTS
  Consumers = {c1, c2, c3}
  Slots = {s1, s2, s3}
  Capacity = 2
  BatchDivisor = 8
  MaxSeq = 3
SPECIFICATION Spec
SYMMETRY HandleSymmetry
INVARIANT RegisteredIsVisible
