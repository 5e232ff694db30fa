SPECIFICATION Spec
CONSTANTS
  ContentLength <- MCContentLength
  Inputs <- MCInputs
  MaxBody = 2
  MaxInt = 60
INVARIANTS
  TypeOK
  HeadsByGrammar
  BodyByLength
CHECK_DEADLOCK FALSE
