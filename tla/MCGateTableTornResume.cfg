SPECIFICATION Spec
CONSTANTS
  Producers = {p1, p2}
  Consumers = {c1, c2}
  NoToken = NoToken
  MaxSlots = 1
  Capacity = 2
  Attempts = 2
  MaxSeq = 3
  MaxFaults = 2
  Initially = 1
  Races = {}
SYMMETRY Symmetry
INVARIANTS ResumedIsIntact
CHECK_DEADLOCK FALSE
