SPECIFICATION Spec
CONSTANTS
  Slots = 3
  SlotLength = 4
  Bad = Bad
  Files <- MCFiles
  DayCounts = {0, 1, 7, 11}
  MaxInt = 30
INVARIANTS
  TypeOK
  NeverFalls
  DayCountReached
  CloseToCurve
  NumbersFillSlots
CHECK_DEADLOCK FALSE
