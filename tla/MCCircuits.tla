------------------------------- MODULE MCCircuits ------------------------------
(***************************************************************************)
(* Circuits for the model checker.  Gate g drives label NbInputs + g, as in *)
(* the files the library reads.                                             *)
(***************************************************************************)
EXTENDS Circuit

AND  == 8
NAND == 7

Gate(i0, i1, t) == [in0 |-> i0, in1 |-> i1, type |-> t]

CircuitOf(gates) ==
  [in0  |-> [g \in Gates |-> gates[g + 1].in0],
   in1  |-> [g \in Gates |-> gates[g + 1].in1],
   type |-> [g \in Gates |-> gates[g + 1].type],
   out  |-> [g \in Gates |-> NbInputs + g],
   outputs |-> <<NbInputs + NbGates - 1>>]

(***************************************************************************)
(* The full adder of tests/data/garbled_circuit_full_adder.h, 3 inputs and  *)
(* 9 gates, with types of one's own for its last five gates.                *)
(***************************************************************************)
AdderLike(t) ==
  [CircuitOf(<<Gate(0, 0, 0), Gate(0, 0, 0), Gate(0, 0, 15), Gate(0, 0, 15),
               Gate(0, 1, t[1]), Gate(2, 7, t[2]), Gate(0, 1, t[3]),
               Gate(2, 7, t[4]), Gate(9, 10, t[5])>>)
     EXCEPT !.outputs = <<8, 11>>]

FullAdder == AdderLike(<<XOR, XOR, NAND, NAND, NAND>>)

(* Three levels of XOR gates, in a circuit of five layers, of the same size. *)
ThreeLevels ==
  CircuitOf(<<Gate(0, 1, AND), Gate(0, 1, AND), Gate(3, 4, NAND),
              Gate(1, 2, XOR), Gate(0, 6, XOR), Gate(5, 7, XOR),
              Gate(7, 8, AND), Gate(6, 8, 14), Gate(8, 10, NAND)>>)

================================================================================
