CONSTANTS
  MaxNodes = 2
  KeySpan = 10
  MaxEdges = 4
  Inputs <- MCInputs
SPECIFICATION Spec
CHECK_DEADLOCK FALSE
INVARIANTS EndpointsExist
