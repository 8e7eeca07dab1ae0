--------------------------- MODULE CircuitEvaluation ---------------------------
(***************************************************************************)
(* What an evaluator of a garbled circuit promises: every gate is evaluated *)
(* once, with its own table, on the final values of its inputs, and the     *)
(* outputs are read when all the gates are.  Nothing is said of the order   *)
(* of gates that do not depend on each other.                               *)
(***************************************************************************)
EXTENDS Circuit, WireValues

VARIABLES
  circuit,
  value,                \* the values of the wires that have one
  result                \* the values of the outputs, once they are read

vars == <<circuit, value, result>>

GateValue(g, A, B) ==
  IF circuit.type[g] = XOR THEN XorValue(A, B) ELSE TableValue(g, A, B)

Init ==
  /\ circuit \in Circuits
  /\ value = [w \in Inputs |-> InputValue(w)]
  /\ result = <<>>

EvaluateGate(g) ==
  /\ {circuit.in0[g], circuit.in1[g]} \subseteq DOMAIN value
  /\ circuit.out[g] \notin DOMAIN value
  /\ value' = [w \in DOMAIN value \cup {circuit.out[g]} |->
                 IF w = circuit.out[g]
                 THEN GateValue(g, value[circuit.in0[g]], value[circuit.in1[g]])
                 ELSE value[w]]
  /\ UNCHANGED <<circuit, result>>

ReadOutputs ==
  /\ result = <<>>
  /\ \A g \in Gates : circuit.out[g] \in DOMAIN value
  /\ result' = [k \in DOMAIN circuit.outputs |-> value[circuit.outputs[k]]]
  /\ UNCHANGED <<circuit, value>>

Next == (\E g \in Gates : EvaluateGate(g)) \/ ReadOutputs

Spec == Init /\ [][Next]_vars

================================================================================
