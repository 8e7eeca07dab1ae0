CONSTANTS
  NbInputs = 5
  NbGates = 4
  Circuits <- ChainedCircuits
  MaxId = 7
  PackBits = 3
  Builds = {FALSE}
SPECIFICATION Spec
INVARIANTS
  PackedGatesUnpack
CHECK_DEADLOCK FALSE
