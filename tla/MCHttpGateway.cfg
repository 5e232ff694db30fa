SPECIFICATION Spec
CONSTANTS
  NumReceives = 2
  Seqs = {2}
  Clear = 1
  FirstElapse = 1
  TickWidth = 7
  StartTicks = {2}
  MaxConns = 2
  MaxTick = 7
  MaxLag = 1
  MaxPackets = 3
  MaxTotal = 7
INVARIANTS
  TypeOK
  ManagedIsOpen
  ReceivesKept
  RightAnswer
  ClearedInTime
PROPERTIES
  NotClearedEarly
CHECK_DEADLOCK FALSE
