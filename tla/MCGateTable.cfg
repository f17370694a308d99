SPECIFICATION Spec
CONSTANTS
  Producers = {p1, p2}
  Consumers = {c1, c2, c3}
  NoToken = NoToken
  MaxSlots = 1
  Capacity = 2
  Attempts = 2
  MaxSeq = 3
  MaxFaults = 1
  Initially = 0
  Races = {}
SYMMETRY Symmetry
INVARIANTS HolderKeepsItsSlot GateHolds ProducerIsAlone EpochIdentifiesOccupancy
PROPERTIES RecoveryIsAtLeastOnce
CHECK_DEADLOCK FALSE
