CONSTANTS
  MaxNodes = 14
  KeySpan = 20
  MaxEdges = 24
  MaxFaults = 1
  Inputs = {}
  Hardware <- PeerBox
SPECIFICATION MachineSpec
CHECK_DEADLOCK FALSE
INVARIANTS PeerEdgesExact
