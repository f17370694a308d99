CONSTANTS
  Consumers = {c1, c2, c3}
  Slots = {s1, s2}
  Capacity = 2
  BatchDivisor = 1
  MaxSeq = 4
SPECIFICATION Spec
SYMMETRY HandleSymmetry
INVARIANTS
  TypeOK
  GateHolds
  BorrowedIsIntact
  ClosedOnlyWhenDrained
  DroppedOnce
PROPERTY RegistrationIsKept
