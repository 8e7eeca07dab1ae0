CONSTANTS
  NbInputs = 7
  NbGates = 4
  Circuits <- GateIdCircuit
  LabelLsbs <- ZeroLsbs
  Builds = {FALSE}
SPECIFICATION Spec
INVARIANTS
  FindAllGatesIsRecursive
CHECK_DEADLOCK FALSE
