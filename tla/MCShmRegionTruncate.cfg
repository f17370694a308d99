SPECIFICATION RegionSpec
CONSTANTS
  Handles = {h1, h2, h3}
  MaxCreations = 2
  InOrder = TRUE
PROPERTY AttachedIsBacked
CHECK_DEADLOCK FALSE
