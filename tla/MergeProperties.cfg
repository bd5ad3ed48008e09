CONSTANTS
  MaxNodes = 8
  KeySpan = 10
  MaxEdges = 8
  Inputs <- MCInputs
SPECIFICATION Spec
CHECK_DEADLOCK FALSE
INVARIANTS ProviderOrderIrrelevant MergeIdempotent MergedWellFormed RediscoveryQuiet AttachConnects
