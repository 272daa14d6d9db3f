CONSTANTS
  Threads = {t1}
  Locations <- MCLocations
  Uris <- MCUris
  BufSize = 2
  MaxLine = 3
  IntMax = 3
  MaxConns = 1
  MaxBytes = 2
SPECIFICATION Spec
CHECK_DEADLOCK FALSE
INVARIANT LocationsReadable
