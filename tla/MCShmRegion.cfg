SPECIFICATION RegionSpec
CONSTANTS
  Handles = {h1, h2, h3}
  MaxCreations = 2
  InOrder = TRUE
SYMMETRY Symmetry
INVARIANTS
  AttachedToTheRing
  LeasesMatchHolders
  LossyIsZeroed
  FinishedIsOpen
CHECK_DEADLOCK FALSE
