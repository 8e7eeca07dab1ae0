--------------------------- MODULE ConvertAndEvaluate --------------------------
(***************************************************************************)
(* EvaluateWithInputs after the conversion it depends on: the constructor   *)
(* of ParallelGarbledCircuit puts gates and tables in an order and counts   *)
(* them by layer, and the threads of ParallelEvaluate find their gates,     *)
(* tables and barriers from those counts alone.                             *)
(***************************************************************************)
EXTENDS Circuit, WireValues

CONSTANTS MaxId, PackBits, NbThreads
ASSUME NbThreadsAssumption == NbThreads \in Nat \ {0}
ASSUME FieldsAssumption == PackBits \in Nat \ {0} /\ MaxId \in Nat \ {0}

VARIABLES
  ndebug, circuit, pc, i, layer, nbLayers, layerCounts, layerNonXorCounts,
  minInput0, maxInput0, nonXorGates, xorGates, sublayer, newGatesId,
  garbledGates, garbledTable,                           \* the conversion
  phase, wires, at, threadLayer, range, gate, fetched, outputsMap \* the evaluation

(* The components, with what is proved of them. *)
Convert == INSTANCE ParallelGarbledCircuit_proofs

(* The fields of the ParallelGarbledCircuit that the evaluator reads. *)
pgc ==
  [nbInputs |-> NbInputs, nbWires |-> NbInputs + NbGates + 2,
   nbLayers |-> nbLayers, layerCounts |-> layerCounts,
   layerNonXorCounts |-> layerNonXorCounts,
   garbledGates |-> garbledGates, garbledTable |-> garbledTable,
   outputs |-> circuit.outputs]

Evaluate == INSTANCE ParallelEvaluate_proofs

convertVars ==
  <<ndebug, circuit, pc, i, layer, nbLayers, layerCounts, layerNonXorCounts,
    minInput0, maxInput0, nonXorGates, xorGates, sublayer, newGatesId, garbledGates,
    garbledTable>>

evaluateVars ==
  <<phase, wires, at, threadLayer, range, gate, fetched, outputsMap>>

vars == <<convertVars, evaluateVars>>

Init == Convert!Init /\ Evaluate!Init

ConvertNext == Convert!Next /\ UNCHANGED evaluateVars

Converted(action) == pc = "done" /\ UNCHANGED convertVars /\ action

Next ==
  \/ ConvertNext
  \/ Converted(Evaluate!CopyInputs)
  \/ \E t \in Evaluate!Threads : Converted(Evaluate!ThreadNext(t))
  \/ Converted(Evaluate!CopyOutputs)

(* The constructor is one thread; then every thread of the team runs. *)
Spec ==
  /\ Init /\ [][Next]_vars
  /\ WF_vars(ConvertNext)
  /\ WF_vars(Converted(Evaluate!CopyInputs))
  /\ \A t \in Evaluate!Threads : WF_vars(Converted(Evaluate!ThreadNext(t)))
  /\ WF_vars(Converted(Evaluate!CopyOutputs))

--------------------------------------------------------------------------------
(***************************************************************************)
(* On the orders that the conversion gives, no two turns of two threads     *)
(* that are under way at the same time touch one wire, one of them to write *)
(* it (evaluate.cpp:112-168 takes no lock).                                 *)
(***************************************************************************)
NoDataRace == pc = "done" => Evaluate!NoDataRace

(***************************************************************************)
(* What the threads ask of their input is what the conversion has made,     *)
(* packed gates, counts and all (parallel_garbled_circuit.cpp:228-302).     *)
(***************************************************************************)
ConvertsToIndependentLayers ==
  pc = "done" =>
    Evaluate!LayersIndependent([l \in 1 .. 4 |-> Convert!StartOf(layerCounts, l)])

(* The wires that have been given a value. *)
Valued ==
  IF phase = "inputs" THEN [w \in Inputs |-> InputValue(w)]
  ELSE [w \in { v \in Wires : wires[v] # NoValue } |-> wires[w]]

Reference ==
  INSTANCE CircuitEvaluation WITH value <- Valued, result <- outputsMap

(***************************************************************************)
(* Whatever the circuit, the team size and the order the threads run in,    *)
(* each gate is evaluated once, with its own table, on final labels, and    *)
(* the outputs are read when all are.                                       *)
(***************************************************************************)
EvaluatesTheCircuit == Reference!Spec

(* A circuit of three layers is evaluated: no thread waits for ever.        *)
FittingIsEvaluated == Convert!Fits => <>(phase = "done")

================================================================================
