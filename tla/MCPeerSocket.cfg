SPECIFICATION FairSpec
CONSTANTS
  a = a
  big = big
  Packet = {a, big}
  TooBig = {big}
  Streams <- MCStreams
  MaxSends = 3
  MaxSockets = 2
  MaxExpired = 2
INVARIANTS
  TypeOK
  PacketsInOrder
  QueueMoves
PROPERTIES
  ConnectAnswered
CHECK_DEADLOCK FALSE
