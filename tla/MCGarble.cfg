CONSTANTS
  NbInputs = 7
  NbGates = 4
  Circuits <- AllCircuits
  LabelLsbs <- ZeroLsbs
  Builds = {FALSE, TRUE}
SPECIFICATION Spec
INVARIANTS
  TypeOK
  PermuteBitsDiffer
  GatesEvaluate
  TablesEvaluate
  SupportedSearchIsRecursive
  KeepsProcessorContract
  SupportedIsNotRefused
PROPERTIES
  ProcessedWiresKeepLabels
CHECK_DEADLOCK FALSE
