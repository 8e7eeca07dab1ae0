------------------------------ MODULE PackmsgBits ------------------------------
(***************************************************************************)
(* The mask of a packet: one bit for each output, packed into words.  A     *)
(* word is the function of its bits, the lowest at 0.                       *)
(***************************************************************************)
EXTENDS Naturals, Sequences

CONSTANT WordBits                 \* 64, the bits of a word of a Packmsg

ASSUME PackmsgBitsAssumption == WordBits \in Nat \ {0}

Bit == {0, 1}

(* A bit that nothing determines. *)
AnyBit == 2

(* Mutant: the sum, which may be 2. *)
XorBitAsSum(a, b) == a + b

XorBit(a, b) == IF AnyBit \in {a, b} THEN AnyBit ELSE (a + b) % 2

(* XorBits of packmsg_utils.cpp, for vectors of the same size. *)
XorBits(bits1, bits2) == [i \in 1 .. Len(bits1) |-> XorBit(bits1[i], bits2[i])]

(***************************************************************************)
(* pack_bits64: a word for every WordBits bits, and one for those that are  *)
(* left, with zeros above them.                                             *)
(***************************************************************************)
NbWords(n) == (n + WordBits - 1) \div WordBits

(* Mutant: the bits past the last full word are forgotten. *)
PackFullWords(bits) ==
  [w \in 1 .. Len(bits) \div WordBits |->
     [k \in 0 .. WordBits - 1 |-> bits[WordBits * (w - 1) + k + 1]]]

pack_bits64(bits) ==
  [w \in 1 .. NbWords(Len(bits)) |->
     [k \in 0 .. WordBits - 1 |->
        LET i == WordBits * (w - 1) + k + 1
        IN  IF i \in DOMAIN bits THEN bits[i] ELSE 0]]

(* Mutant: words and bits within them change places. *)
MaskBitTransposed(words, i) ==
  IF (i % WordBits) < Len(words) THEN words[(i % WordBits) + 1][i \div WordBits] ELSE AnyBit

(* Bit i, from 0, of the words; past the last word lies no mask. *)
MaskBit(words, i) ==
  LET j == i \div WordBits
      k == i % WordBits
  IN  IF j < Len(words) THEN words[j + 1][k] ELSE AnyBit

(* ApplyXormask to the lowest bits of the outputs. *)
ApplyXormask(words, lowBits) ==
  [i \in 1 .. Len(lowBits) |-> XorBit(lowBits[i], MaskBit(words, i - 1))]

================================================================================
