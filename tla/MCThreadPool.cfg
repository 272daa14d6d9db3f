CONSTANTS
  Workers = {w1, w2}
  Tasks = {t1, t2}
  NoTask = NoTask
  MaxTaskNum = 2
  IntMax = 7
  NamedSemaphores = FALSE
  MaxPuts = 5
  MaxRestarts = 1
SPECIFICATION FairSpec
CHECK_DEADLOCK FALSE
INVARIANTS TypeOK PoolInv NoNullTask
PROPERTIES ImplementsBoundedQueue EveryTaskTaken PutReturns
