SPECIFICATION RegionSpec
CONSTANTS
  Handles = {h1, h2, h3}
  MaxCreations = 2
  InOrder = FALSE
SYMMETRY Symmetry
INVARIANT OpenedIsWhole
CHECK_DEADLOCK FALSE
