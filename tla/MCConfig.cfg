CONSTANTS
  Strategies = {"ROUND_ROBIN"}
  Locations <- SomeLocations
  Capacity = 5
  MaxItems = 7
SPECIFICATION Spec
CHECK_DEADLOCK FALSE
INVARIANTS TypeOK TreeAsWritten ServersAsWritten StaticAsWritten KindsAsWritten ParsersGetTheirConfig
