CONSTANTS
  NbInputs = 7
  NbGates = 4
  Circuits <- TreeCircuit
  LabelLsbs <- ZeroLsbs
  Builds = {FALSE}
SPECIFICATION Spec
INVARIANTS
  NoWireInTwoSubgraphs
CHECK_DEADLOCK FALSE
