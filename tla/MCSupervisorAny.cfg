CONSTANTS
  Events <- AllEvents
  MaxEvents = 2
  MaxForks = 4
  MaxOpen = 2
  Pace = "any"
SPECIFICATION Spec
CHECK_DEADLOCK FALSE
INVARIANTS TypeOK OneWorker WorkPidValid ExitLeavesNobody OnlyFirstUnprepared
PROPERTY ImplementsService
