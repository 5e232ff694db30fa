SPECIFICATION FairSpec
CONSTANTS
  Kinds = {"once", "periodic"}
  Sharing = {FALSE, TRUE}
  Width = 3
  MaxHandlers = 3
INVARIANTS
  TypeOK
  AssertsHold
  AtMostOneLateCall
  TimesCountsCalls
PROPERTIES
  StartedTimerCalls
CHECK_DEADLOCK FALSE
