CONSTANTS
  Events = {"kill_quit"}
  MaxEvents = 2
  MaxForks = 4
  MaxOpen = 4
  Pace = "launched"
SPECIFICATION Spec
CHECK_DEADLOCK FALSE
INVARIANT StopsOnlyOnRequest
