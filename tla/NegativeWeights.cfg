CONSTANTS
  Requests <- LineRequests
  Weights <- NegativeWeights
  NaN = NaN
  Unknown = Unknown
  DegenerateCost = 100000000
SPECIFICATION Spec
CHECK_DEADLOCK FALSE
INVARIANTS WalkBackEnds
