CONSTANTS
  Threads = {t1, t2}
  Locations <- MCLocations
  Uris <- MCUris
  BufSize = 2
  MaxLine = 3
  IntMax = 3
  MaxConns = 2
  MaxBytes = 4
SPECIFICATION FairSpec
CHECK_DEADLOCK FALSE
INVARIANTS TypeOK IndexInList BestLocation
PROPERTIES ServersInTurn HeadersEnd
