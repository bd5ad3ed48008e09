CONSTANTS
  MaxNodes = 14
  KeySpan = 20
  MaxEdges = 24
  MaxFaults = 2
  Inputs = {}
  Hardware <- MCHardware
SPECIFICATION MachineSpec
CHECK_DEADLOCK FALSE
INVARIANTS HardwareOnce AllUnderMachine BoundsRespected
