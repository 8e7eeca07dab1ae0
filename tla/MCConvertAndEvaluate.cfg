CONSTANTS
  NbInputs = 3
  NbGates = 9
  Circuits <- LayeredCircuits
  MaxId = 7
  PackBits = 4
  Builds = {TRUE}
  NbThreads = 3
SPECIFICATION Spec
INVARIANTS
  NoDataRace
  ConvertsToIndependentLayers
PROPERTIES
  EvaluatesTheCircuit
  FittingIsEvaluated
CHECK_DEADLOCK FALSE
