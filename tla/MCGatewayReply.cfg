SPECIFICATION Spec
CONSTANTS
  NumReceives = 2
  Seqs = {2}
  Clear = 1
  FirstElapse = 1
  TickWidth = 7
  StartTicks = {3}
  MaxConns = 1
  MaxTick = 7
  MaxLag = 1
  MaxPackets = 2
  MaxTotal = 9
PROPERTIES
  ReplyUnchanged
CHECK_DEADLOCK FALSE
