CONSTANTS
  NbInputs = 5
  NbGates = 4
  Circuits <- ChainedCircuits
  MaxId = 6
  PackBits = 4
  Builds = {FALSE, TRUE}
SPECIFICATION Spec
INVARIANTS
  TypeOK
  EveryGateOnce
  BarrierSeparates
  EvaluatorFindsTables
  XorGatesByInput0
PROPERTIES
  FittingIsConverted
CHECK_DEADLOCK FALSE
