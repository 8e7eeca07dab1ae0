\* Every vector of flags for a circuit of 8 gates and every sequence of subgraphs.
CONSTANT NbGates = 8
SPECIFICATION Spec
INVARIANTS
  TypeOK
  NoGateSkipped
PROPERTIES
  SeedsIncrease
  RefinesWorklist
  EveryGateProcessed
\* the loop ends when GetNextSeedGate() is -1
CHECK_DEADLOCK FALSE
