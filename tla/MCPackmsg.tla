------------------------------- MODULE MCPackmsg -------------------------------
(***************************************************************************)
(* Small circuits for Packmsg: a display of five digits, one random input   *)
(* and three pixels, one pixel more than a word of the mask has bits; a     *)
(* circuit that is no display; a display without digits.                    *)
(***************************************************************************)
EXTENDS Packmsg

Display ==
  [nbInputs |-> 37,
   outputs  |-> << {{2, 35}, {36}}, {{5}, {17}, {35}, {36}}, {{35}} >>,
   config   |-> [NB_DIGITS |-> 5, BITMAP_NB_SEGMENTS |-> 35, RNDSIZE |-> 1,
                 WIDTH |-> 3, HEIGHT |-> 1]]

Generic ==
  [nbInputs |-> 2, outputs |-> << {{0, 1}}, {{0}, {1}} >>, config |-> EmptyConfig]

NoOtpDisplay ==
  [nbInputs |-> 2,
   outputs  |-> << {{0}, {1}}, {{0}}, {{1}} >>,
   config   |-> [NB_DIGITS |-> 0, BITMAP_NB_SEGMENTS |-> 0, RNDSIZE |-> 1,
                 WIDTH |-> 3, HEIGHT |-> 1]]

DisplayAndGeneric == {Display, Generic}

OnlyNoOtp == {NoOtpDisplay}

(* Two good choices of digits, too few, too many, and one past 9. *)
SomeDigits ==
  { <<0, 1, 2, 3, 4>>, <<9, 8, 7, 6, 5>>, <<3>>, <<0, 1, 2, 3, 4, 5>>, <<1, 2, 10, 3, 4>> }

NoDigits == { <<>> }

SomeLsbs == { <<0, 1, 1>>, <<1, 0>> }

MCWatermark == [blank |-> <<0, 0, 0>>, message |-> <<1, 0, 1>>]

(* Inputs of the client for two inputs; for the display, the random one and *)
(* the others, which do not matter.                                          *)
SomeInputs ==
  { <<a, b>> : a, b \in Bit } \cup { [i \in 1 .. 37 |-> IF i = 36 THEN a ELSE 1 - a] : a \in Bit }

(* The label of a segment that is lit in the third digit of the first choice *)
(* and not of the second, in the second garbling; the second pixel reads it. *)
OneHalfZero == { Label(2, 17, 1) }

================================================================================
