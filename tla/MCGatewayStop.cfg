SPECIFICATION FairSpec
CONSTANTS
  NumReceives = 2
  Seqs = {2}
  Clear = 1
  FirstElapse = 1
  TickWidth = 7
  StartTicks = {3}
  MaxConns = 1
  MaxTick = 5
  MaxLag = 1
  MaxPackets = 1
  MaxTotal = 6
PROPERTIES
  RunExits
CHECK_DEADLOCK FALSE
