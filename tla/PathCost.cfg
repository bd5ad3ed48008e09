CONSTANTS
  Requests <- MCRequests
  Weights <- MCWeights
  NaN = NaN
  Unknown = Unknown
  DegenerateCost = 100000000
SPECIFICATION Spec
CHECK_DEADLOCK FALSE
INVARIANTS CostMinimal BreakdownAddsUp RankingExact
PROPERTIES CallReturns
