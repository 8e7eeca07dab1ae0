------------------------ MODULE MCParallelGarbledCircuit -----------------------
(***************************************************************************)
(* Four gates that read the inputs 0 and 1 or the outputs of the one or two *)
(* gates before, in either place: chains, forks and diamonds of one to four *)
(* layers, with input ids on both sides of MaxId.                           *)
(***************************************************************************)
EXTENDS ParallelGarbledCircuit, MCCircuits

Before(g, n) == IF g >= n THEN {NbInputs + g - n} ELSE {}

GateChoices(g) ==
  { [in0 |-> in0, in1 |-> in1, type |-> type] :
      in0 \in {1} \cup Before(g, 1) \cup Before(g, 2),
      in1 \in {0} \cup Before(g, 1),
      type \in {XOR, AND} }

ChainedCircuits ==
  { CircuitOf(gates) :
      gates \in GateChoices(0) \X GateChoices(1) \X GateChoices(2)
                  \X GateChoices(3) }

================================================================================
