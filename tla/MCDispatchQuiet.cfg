CONSTANTS
  NPorts = 2
  Threads = {t1, t2}
  Own = 1
  Limits = {6}
  MaxBacklog = 1
SPECIFICATION FairSpec
CHECK_DEADLOCK FALSE
PROPERTY ConnectionServed
