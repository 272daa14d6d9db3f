CONSTANTS
  Events <- GentleEvents
  MaxEvents = 3
  MaxForks = 4
  MaxOpen = 4
  Pace = "settled"
SPECIFICATION FairSpec
CHECK_DEADLOCK FALSE
INVARIANTS StopsOnlyOnRequest NewestServes
PROPERTIES StopHonoured ServesLatest
