CONSTANTS
  MaxInt64 = 8
  Width = 4
  MaxValues = 100
  MaxNodes = 3
  MaxEdges = 3
  Requests <- MCRequests
SPECIFICATION Spec
CHECK_DEADLOCK FALSE
INVARIANTS ExportAccepted
