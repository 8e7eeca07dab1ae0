-------------------------------- MODULE MCGarble -------------------------------
(***************************************************************************)
(* Small circuits for Garble.  Gate g drives label NbInputs + g and reads   *)
(* labels of inputs and of gates before it, as the parser delivers them.    *)
(***************************************************************************)
EXTENDS Garble, MCCircuits

(* A XOR gate in place g, on any two of the labels. *)
XorChoices(g, labels_) ==
  { [in0 |-> i0, in1 |-> i1, type |-> XOR] :
      <<i0, i1>> \in { p \in labels_ \X labels_ : p[1] < p[2] } }

(* An AND gate in place g: on the first inputs, or on the last outputs. *)
AndChoices(g) ==
  { [in0 |-> i, in1 |-> i + 1, type |-> AND] : i \in {0, NbInputs + g - 2} }

(* Four gates that share wires in every way, none of a label near 0. *)
HighLabels(g) == (NbInputs - 3) .. (NbInputs + g - 1)

SharedWireCircuits ==
  LET choices(g) == XorChoices(g, HighLabels(g)) \cup AndChoices(g)
  IN  { CircuitOf(gates) :
          gates \in choices(0) \X choices(1) \X choices(2) \X choices(3) }

(***************************************************************************)
(* Three XOR gates, in the last places, on the lowest labels: label 0 and   *)
(* the labels that are ids of gates among them.                             *)
(***************************************************************************)
LowLabelCircuits ==
  LET low(g) == 0 .. 3 \cup { NbInputs + h : h \in 1 .. g - 1 }
      choices(g) == XorChoices(g, low(g))
  IN  { CircuitOf(gates) :
          gates \in AndChoices(0) \X choices(1) \X choices(2) \X choices(3) }

AllCircuits == SharedWireCircuits \cup LowLabelCircuits

--------------------------------------------------------------------------------
(* The full adder with any type for its first NAND gate. *)
AdderCircuits == 
  { AdderLike(<<XOR, XOR, type, NAND, NAND>>) : type \in 0 .. 15 } \cup {ThreeLevels}

(* Any lowest bits on the wires that the tables of the adder are made from. *)
AdderLsbs ==
  { [w \in Wires |-> IF w \in ones THEN 1 ELSE 0] : ones \in SUBSET {0, 1, 2, 9, 10} }

--------------------------------------------------------------------------------
(* (a ^ b) ^ (c ^ d), with an AND gate that reads nothing of it. *)
TreeCircuit ==
  { CircuitOf(<<Gate(4, 5, XOR), Gate(0, 1, AND), Gate(3, 6, XOR), Gate(7, 9, XOR)>>) }

(* Three XOR gates in a row by shared inputs; label 1 is also the first's id. *)
GateIdCircuit ==
  { CircuitOf(<<Gate(0, 5, AND), Gate(1, 3, XOR), Gate(2, 4, XOR), Gate(2, 3, XOR)>>) }

(* One gate that is not XOR, after three that are. *)
LateAndCircuit ==
  { CircuitOf(<<Gate(4, 5, XOR), Gate(4, 6, XOR), Gate(5, 6, XOR), Gate(7, 8, AND)>>) }

ZeroLsbs == { [w \in Wires |-> 0] }

================================================================================
