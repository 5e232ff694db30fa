SPECIFICATION FairSpec
CONSTANTS
  Guid = {1, 2}
  Params <- MCParams
  Unparsable = Unparsable
  NoGuid = NoGuid
  Curve = {"flat", "steep"}
  Limit <- MCLimit
  DayLength = 3
  TaskFilePeriod = 2
  TaskCountEachUser = 2
  IsTestReceiver = FALSE
  NumReceives = 2
  Files <- MCFiles
  NoFile = NoFile
  BlackFiles <- MCBlackFiles
  Requests = {}
  Queries = {}
  MaxClock = 4
  MaxLag = 1
  MaxPackets = 1
  MaxEdits = 2
PROPERTIES
  EditIsPickedUp
  MidnightIsNoticed
CHECK_DEADLOCK FALSE
