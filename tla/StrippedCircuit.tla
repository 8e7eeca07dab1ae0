---------------------------- MODULE StrippedCircuit ----------------------------
(***************************************************************************)
(* StripCircuit (packmsg/stripped_circuit.cpp, packmsg_utils.cpp): the      *)
(* labels of the digits, and what hides the outputs, move from a circuit to *)
(* a PrePackmsg.  An operation is a record of its outcome and of what its   *)
(* objects become:                                                          *)
(*   "ok"     it returned,                                                  *)
(*   "throw"  it threw an exception that its caller can catch,              *)
(*   "lost"   it failed an assertion, or touched memory that is not its     *)
(*            own: the process ends.                                        *)
(* Most of what a build with assertions checks, a build without (ndebug)    *)
(* goes past and returns.                                                   *)
(***************************************************************************)
EXTENDS GarbledLabels, PackmsgBits

DefaultPrePackmsg == [labels |-> <<>>, xormask |-> <<>>, config |-> EmptyConfig]

(* kMapDigitTo7Segs, digit d at d + 1: top; top left, top right; middle;     *)
(* bottom left, bottom right; bottom.                                        *)
kMapDigitTo7Segs ==
  << <<1, 1, 1, 0, 1, 1, 1>>, <<0, 0, 1, 0, 0, 1, 0>>, <<1, 0, 1, 1, 1, 0, 1>>,
     <<1, 0, 1, 1, 0, 1, 1>>, <<0, 1, 1, 1, 0, 1, 0>>, <<1, 1, 0, 1, 0, 1, 1>>,
     <<1, 1, 0, 1, 1, 1, 1>>, <<1, 0, 1, 0, 0, 1, 0>>, <<1, 1, 1, 1, 1, 1, 1>>,
     <<1, 1, 1, 1, 0, 1, 1>> >>

(* DigitsTo7Segments. *)
DigitsTo7Segments(digits) ==
  [i \in 1 .. 7 * Len(digits) |->
     kMapDigitTo7Segs[digits[1 + ((i - 1) \div 7)] + 1][1 + ((i - 1) % 7)]]

Zeros(n) == [i \in 1 .. n |-> 0]

InputBits(digits, rndsize) == DigitsTo7Segments(digits) \o Zeros(rndsize) \o <<0>>

(* As many digits as the display has, or none.                               *)
FitsDisplay(circuit, digits) ==
  digits # <<>> => 7 * Len(digits) = circuit.config["BITMAP_NB_SEGMENTS"]

(***************************************************************************)
(* PrepareInputLabels: the labels of the segments and, past the random      *)
(* inputs, of the zero; none at all without digits.  With too few digits    *)
(* the places follow each other in the same way, with too many some are     *)
(* past the labels of the circuit.                                          *)
(***************************************************************************)
PrepareInputLabels(pgc, digits) ==
  LET rndsize == pgc.config["RNDSIZE"]
      rndfirst == 7 * Len(digits)
      bits == InputBits(digits, rndsize)
  IN  IF digits = <<>>
        THEN <<>>
        ELSE [i \in 1 .. Len(bits) |->
                IF i \in rndfirst + 1 .. rndfirst + rndsize THEN Zero
                ELSE IF i > pgc.skcd.nbInputs + 1 THEN Garbage
                ELSE ExtractLabels(pgc, bits)[i]]

(* PrepareXormask: the lowest bits of the labels that stand for 0, lsbs[o]   *)
(* for output o of the garbling.                                             *)
PrepareXormask(pgc, lsbs) ==
  [o \in 1 .. Len(pgc.skcd.outputs) |-> XorBit(pgc.outputLabels[2 * o - 1].bit, lsbs[o])]

(* Mutant: the swap of two labels forgets one of them. *)
StripWithoutSwap(pgc, switched) ==
  LET stripped(i, b) ==
        CASE i >= pgc.skcd.nbInputs -> LabelOf(pgc.inputLabels, i, b)
          [] i \in switched -> LabelOf(pgc.inputLabels, i, 1)
          [] i \in RandomInputs(pgc.config) \ switched -> LabelOf(pgc.inputLabels, i, b)
          [] OTHER -> Zero
  IN  [pgc EXCEPT
         !.inputLabels = [l \in DOMAIN @ |-> stripped((l - 1) \div 2, (l - 1) % 2)],
         !.outputLabels = <<>>]

--------------------------------------------------------------------------------
(***************************************************************************)
(* StripParallelGarbledCircuit: the labels of a random input stay, swapped  *)
(* or not; those of any other input are zeroed.                             *)
(***************************************************************************)
StripParallelGarbledCircuit(pgc, switched) ==
  LET stripped(i, b) ==
        CASE i >= pgc.skcd.nbInputs -> LabelOf(pgc.inputLabels, i, b)
          [] i \in switched -> LabelOf(pgc.inputLabels, i, 1 - b)
          [] i \in RandomInputs(pgc.config) \ switched -> LabelOf(pgc.inputLabels, i, b)
          [] OTHER -> Zero
  IN  [pgc EXCEPT
         !.inputLabels = [l \in DOMAIN @ |-> stripped((l - 1) \div 2, (l - 1) % 2)],
         !.outputLabels = <<>>]

WithoutChange(outcome, pgc, prePackmsg) ==
  [outcome |-> outcome, pgc |-> pgc, prePackmsg |-> prePackmsg]

(* What the assertions on the way ask of the arguments. *)
StripAsserts(pgc, digits) ==
  /\ FitsDisplay(pgc, digits)
  /\ \A i \in DOMAIN digits : digits[i] <= 9
  /\ Len(pgc.outputLabels) = 2 * Len(pgc.skcd.outputs) /\ pgc.outputLabels # <<>>
  /\ pgc.skcd.nbInputs
       = pgc.config["BITMAP_NB_SEGMENTS"] + pgc.config["RNDSIZE"] + 1

(***************************************************************************)
(* The exceptions of StripCircuit, all before the first change: the first   *)
(* look into the config misses RNDSIZE if the circuit is not a display or   *)
(* was stripped before; a build without assertions looks up the segments of *)
(* a digit past 9.                                                          *)
(***************************************************************************)
StripThrows(pgc, digits, ndebug) ==
  \/ "RNDSIZE" \notin DOMAIN pgc.config
  \/ ndebug /\ \E i \in DOMAIN digits : digits[i] > 9

(* ExtractLabels looks for the label of the last bit past those there are.   *)
ReadsPast(pgc, digits) ==
  digits # <<>> /\ 7 * Len(digits) + pgc.config["RNDSIZE"] > pgc.skcd.nbInputs

(* A build with assertions stops at one; the other where memory that it      *)
(* reads past the labels is not readable.                                    *)
StripEnds(pgc, digits, ndebug, readable) ==
  IF ndebug
    THEN ReadsPast(pgc, digits) /\ ~ readable
    ELSE ~ StripAsserts(pgc, digits)

(* StripCircuit: the objects are changed once labels and mask are known. *)
StripCircuit(pgc, prePackmsg, digits, lsbs, switched, ndebug, readable) ==
  IF StripThrows(pgc, digits, ndebug)
    THEN WithoutChange("throw", pgc, prePackmsg)
    ELSE IF StripEnds(pgc, digits, ndebug, readable)
    THEN WithoutChange("lost", pgc, prePackmsg)
    ELSE [outcome    |-> "ok",
          pgc        |-> [StripParallelGarbledCircuit(pgc, switched) EXCEPT
                            !.config = [key \in DOMAIN @ \cap {"WIDTH", "HEIGHT"} |-> @[key]]],
          prePackmsg |-> [labels  |-> PrepareInputLabels(pgc, digits),
                          xormask |-> PrepareXormask(pgc, lsbs),
                          config  |-> pgc.config]]

(* The checks of GarbleAndStrippedSkcdFromBuffer. *)
AcceptsDigits(pgc, digits) ==
  /\ "NB_DIGITS" \in DOMAIN pgc.config
  /\ Len(digits) = pgc.config["NB_DIGITS"]
  /\ \A i \in DOMAIN digits : digits[i] <= 9

(* Mutant: the PrePackmsg is emptied like the circuit is replaced, first. *)
EmptyThenCheck(skcd, g, prePackmsg, digits, lsbs, switched) ==
  LET pgc == GarbleSkcdFromBuffer(skcd, g)
  IN  IF AcceptsDigits(pgc, digits)
        THEN StripCircuit(pgc, DefaultPrePackmsg, digits, lsbs, switched, FALSE, FALSE)
        ELSE WithoutChange("throw", pgc, DefaultPrePackmsg)

(***************************************************************************)
(* GarbleAndStrippedSkcdFromBuffer: *pgc is the garbled circuit by the time *)
(* the digits are checked, after which they fit the display and no build    *)
(* fails on them.                                                           *)
(***************************************************************************)
GarbleAndStrippedSkcdFromBuffer(skcd, g, prePackmsg, digits, lsbs, switched) ==
  LET pgc == GarbleSkcdFromBuffer(skcd, g)
  IN  IF AcceptsDigits(pgc, digits)
        THEN StripCircuit(pgc, prePackmsg, digits, lsbs, switched, FALSE, FALSE)
        ELSE WithoutChange("throw", pgc, prePackmsg)

================================================================================
