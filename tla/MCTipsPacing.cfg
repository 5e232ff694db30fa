SPECIFICATION Spec
CONSTANTS
  Guid = {1, 2, 3}
  Params <- MCParams
  Unparsable = Unparsable
  NoGuid = NoGuid
  Curve = {"slow", "fast"}
  Limit <- MCLimit
  DayLength = 3
  TaskFilePeriod = 2
  TaskCountEachUser = 2
  IsTestReceiver = FALSE
  NumReceives = 2
  Files <- MCFiles
  NoFile = NoFile
  BlackFiles <- MCBlackFiles
  Requests <- MCRequests
  Queries <- MCQueries
  MaxClock = 4
  MaxLag = 1
  MaxPackets = 3
  MaxEdits = 1
  HomeCurve <- MCHomeCurve
INVARIANTS
  TypeOK
  CountersAgree
  LagBounded
  PacingInv
PROPERTIES
  DPSpec
  DayRollExact
  ReloadKeepsProgress
CHECK_DEADLOCK FALSE
