CONSTANTS
  NbInputs = 3
  NbGates = 9
  Circuits <- AdderCircuits
  LabelLsbs <- AdderLsbs
  Builds = {FALSE, TRUE}
SPECIFICATION Spec
INVARIANTS
  GatesEvaluate
PROPERTIES
  SupportedIsGarbled
CHECK_DEADLOCK FALSE
