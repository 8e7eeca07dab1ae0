------------------------------ MODULE GatePacking ------------------------------
(***************************************************************************)
(* The 64-bit word a gate of a ParallelGarbledCircuit is packed into: from  *)
(* the top, the XOR flag, input 0, input 1 and the output, PackBits each    *)
(* (parallel_garbled_circuit.cpp:286-289, evaluate.cpp:140-143).  Packing   *)
(* masks nothing: the bits of an id that is too wide are combined with those *)
(* of the next field, or are shifted out.  Ids are narrower than two fields. *)
(***************************************************************************)
EXTENDS Integers, FiniteSetsExt

CONSTANT PackBits         \* the bits of a field, 21
ASSUME PackBitsAssumption == PackBits \in Nat \ {0}

FieldSize == 2^PackBits

OneBits(a) == { b \in 0 .. PackBits - 1 : (a \div 2^b) % 2 = 1 }

(* a | b of two fields; a field of zeroes changes nothing. *)
BitOr(a, b) ==
  IF a = 0 THEN b ELSE IF b = 0 THEN a
  ELSE MapThenSumSet(LAMBDA k : 2^k, OneBits(a) \cup OneBits(b))

(* What is left of id in a field, and what of it ends up in the one above. *)
Within(id) == id % FieldSize
Beyond(id) == id \div FieldSize

Pack(isXor, in0, in1, out) ==
  LET flag == IF isXor THEN 1 ELSE Beyond(in0) % 2
  IN  ((flag * FieldSize + BitOr(Within(in0), Beyond(in1)))
             * FieldSize + BitOr(Within(in1), Beyond(out)))
             * FieldSize + Within(out)

(* Shifted and masked, field by field. *)
Unpack(word) ==
  [xor |-> Beyond(Beyond(Beyond(word))) = 1, in0 |-> Within(Beyond(Beyond(word))),
   in1 |-> Within(Beyond(word)), out |-> Within(word)]

================================================================================
