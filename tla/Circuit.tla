-------------------------------- MODULE Circuit --------------------------------
(***************************************************************************)
(* A boolean circuit as the Skcd file gives it to GarbledCircuit's          *)
(* constructor (justgarble/garble.cpp, circuit_data.h): a record            *)
(*   [in0, in1, out, type : [Gates -> Nat], outputs : Seq(Wires)]           *)
(* of label ids and truth tables.  Labels are wires by another name.        *)
(***************************************************************************)
EXTENDS Integers, Sequences

CONSTANTS
  NbInputs,       \* nb_inputs_
  NbGates,        \* nb_gates_
  Circuits,       \* the circuits considered
  Builds          \* whether NDEBUG is defined, in the builds considered

Gates  == 0 .. NbGates - 1
Inputs == 0 .. NbInputs - 1
Wires  == 0 .. NbInputs + NbGates + 1          \* nb_wires_ = n + q + 2

XOR == 6                          \* SkcdGateType::XOR, truth table 0110

(***************************************************************************)
(* Gates come in topological order ("Gate ordering is a topological         *)
(* ordering", parallel_garbled_circuit.cpp:80); every wire is driven at     *)
(* most once and inputs never; what gates read and the outputs are inputs   *)
(* or driven.  This is what the producer of Skcd files delivers; the        *)
(* constructor that reads them checks none of it.                           *)
(***************************************************************************)
WellFormed(c) ==
  /\ c.in0 \in [Gates -> Wires] /\ c.in1 \in [Gates -> Wires]
  /\ c.out \in [Gates -> Wires \ Inputs]
  /\ c.type \in [Gates -> 0 .. 15]
  /\ c.outputs \in Seq(Inputs \cup { c.out[g] : g \in Gates })
  /\ \A g, h \in Gates : c.out[g] = c.out[h] => g = h
  /\ \A g \in Gates :
       {c.in0[g], c.in1[g]} \subseteq Inputs \cup { c.out[h] : h \in 0 .. g - 1 }

ASSUME CircuitAssumption ==
  /\ NbInputs \in Nat \ {0}
  /\ NbGates \in Nat
  /\ \A c \in Circuits : WellFormed(c)
  /\ Builds \subseteq BOOLEAN

XorGates(c) == { g \in Gates : c.type[g] = XOR }

NonXorGates(c) == Gates \ XorGates(c)

================================================================================
