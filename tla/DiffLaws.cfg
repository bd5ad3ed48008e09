CONSTANT
  Graphs <- MCGraphs
SPECIFICATION Spec
INVARIANTS NoDrift DiffExact
