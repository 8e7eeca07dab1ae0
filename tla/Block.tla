--------------------------------- MODULE Block ---------------------------------
(***************************************************************************)
(* The 128-bit labels of justgarble/block.h, kept symbolic.  A block is the *)
(* set of the independent random values it is the exclusive or of, so the   *)
(* exclusive or of two blocks is their symmetric difference.  The lowest    *)
(* bit, which point-and-permute relies on, is a member of its own: every    *)
(* random value is an atom whose lowest bit is 0, plus or minus Lsb.        *)
(*                                                                          *)
(* 2A ^ 4B ^ tweak and its AES image are one atom named after A, B and the  *)
(* tweak: what a table entry is masked with is known to whoever has both    *)
(* labels, and is a fresh random value to everyone else.                    *)
(***************************************************************************)
EXTENDS Integers

Lsb == <<"lsb">>

Zero == {}

Xor(x, y) == (x \ y) \cup (y \ x)

GetLsb(x) == IF Lsb \in x THEN 1 ELSE 0

(* A random block named by tag, with the given lowest bit. *)
NewRandom(tag, lsb) == {tag} \cup (IF lsb = 1 THEN {Lsb} ELSE {})

(* Slip: R is any random block. *)
AnyR(tag) == NewRandom(tag, 0)

(* NewR(), and NewRandom() with its first byte set to 1: the lowest bit of  *)
(* an offset R is 1.                                                        *)
NewR(tag) == NewRandom(tag, 1)

(* K ^ AES(K) of the key K = 2A ^ 4B ^ tweak. *)
Mask(A, B, tweak) == {<<"aes", A, B, tweak>>}

================================================================================
