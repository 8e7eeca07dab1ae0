CONSTANTS
  NbInputs = 7
  NbGates = 4
  Circuits <- LateAndCircuit
  LabelLsbs <- ZeroLsbs
  Builds = {FALSE}
SPECIFICATION Spec
INVARIANTS
  IndexMapFits
CHECK_DEADLOCK FALSE
