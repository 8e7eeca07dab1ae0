-------------------------- MODULE MCConvertAndEvaluate -------------------------
(***************************************************************************)
(* Circuits for ConvertAndEvaluate: the full adder with XOR gates and NAND  *)
(* gates in every combination, of three layers with 6, 2 and 1 gates, some  *)
(* with a XOR gate whose input 0 does not fit; and one of five layers.      *)
(***************************************************************************)
EXTENDS ConvertAndEvaluate, MCCircuits

LayeredCircuits ==
  { AdderLike(t) : t \in [1 .. 5 -> {XOR, NAND}] } \cup {ThreeLevels}

================================================================================
