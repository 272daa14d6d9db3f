CONSTANTS
  Strategies = {"ROUND_ROBIN"}
  Locations <- PlainLocations
  Capacity = 4
  MaxItems = 7
SPECIFICATION Spec
CHECK_DEADLOCK FALSE
INVARIANT DirectivesKept
