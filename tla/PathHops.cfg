CONSTANT
  Queries <- MCQueries
SPECIFICATION Spec
CHECK_DEADLOCK FALSE
INVARIANTS FewestHops NoRouteMissed TraversalExact RootAncestorExact LocalityAgrees ReasonsCompatible
