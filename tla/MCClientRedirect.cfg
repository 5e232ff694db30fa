SPECIFICATION Spec
CONSTANTS
  Groups <- MCGroups
  DelayTimes <- MCDelayTimes
  FirstIdleDelays <- MCFirstIdleDelays
  FirstForceDelay = 1
  DefaultDelay = 1
  MinDelay = 1
  MaxAge = 2
  MaxElapsed = 1
  Day = 1
  MAX_MULTIHOP_TASK_COUNT = 2
  TaskCountEachUser = 2
  MaxStale = 1
  MaxTasks = 1
  MaxMsgs = 1
INVARIANTS
  WaitIsTimed
CHECK_DEADLOCK FALSE
