----------------------------- MODULE BurnedCircuit -----------------------------
(***************************************************************************)
(* What the packmsg pipeline promises (packmsg/prepackmsg.h:43): "we could  *)
(* achieve the same result by skipping the whole PrePackmsg/Packmsg and     *)
(* instead hardcoding a bunch of inputs/outputs in the original .skcd".     *)
(* A burned circuit has its digits fixed and its random inputs shuffled;    *)
(* with a text it shows the image of the circuit under a watermark.         *)
(***************************************************************************)
EXTENDS GarbledLabels

CONSTANTS
  DigitChoices,        \* the digits that are burned
  Texts,               \* the messages that are shown
  Watermark,           \* the bits of the image of each text
  InputChoices         \* the input bits of evaluations

VARIABLES
  burned,              \* the circuits that were published, in order
  image                \* what an evaluation shows, if that is what happened last

vars == <<burned, image>>

(* The digits that light a segment, from the top to the bottom.              *)
LitBy ==
  << {0, 2, 3, 5, 6, 7, 8, 9}, {0, 4, 5, 6, 8, 9}, {0, 1, 2, 3, 4, 7, 8, 9},
     {2, 3, 4, 5, 6, 8, 9}, {0, 2, 6, 8}, {0, 1, 3, 4, 5, 6, 7, 8, 9},
     {0, 2, 3, 5, 6, 8, 9} >>

Segment(digits, s) == IF digits[1 + (s \div 7)] \in LitBy[1 + (s % 7)] THEN 1 ELSE 0

(* Nothing is burned into a circuit that was published as it was garbled, or *)
(* stripped with digits that do not fit its display.                         *)
Whole(c) == [skcd |-> c, segments |-> <<>>, shuffle |-> {}]

(* The inputs of the circuit: the segments, then the random ones, then zero. *)
FrameInputs(b, inputs) ==
  [i \in 1 .. b.skcd.nbInputs |->
     IF i <= Len(b.segments) THEN b.segments[i]
     ELSE IF i = b.skcd.nbInputs THEN 0
     ELSE IF i - 1 \in b.shuffle THEN 1 - inputs[i]
     ELSE inputs[i]]

Frame(b, text, inputs) ==
  [o \in DOMAIN b.skcd.outputs |->
     (OutputBit(b.skcd.outputs[o], FrameInputs(b, inputs)) + Watermark[text][o]) % 2]

NoImage == [id |-> 0]

--------------------------------------------------------------------------------
Init == burned = <<>> /\ image = NoImage

Burn(c, digits, shuffle) ==
  burned' = Append(burned, [skcd     |-> c,
                            segments |-> [s \in 1 .. 7 * Len(digits) |->
                                            Segment(digits, s - 1)],
                            shuffle  |-> shuffle])

Publish ==
  /\ \/ \E c \in { d \in Skcds : IsDisplay(d.config) }, digits \in DigitChoices :
          \E shuffle \in SUBSET RandomInputs(c.config) : Burn(c, digits, shuffle)
     \/ \E c \in Skcds : burned' = Append(burned, Whole(c))
  /\ image' = NoImage

Show(id, text, inputs) ==
  /\ Len(inputs) = burned[id].skcd.nbInputs
  /\ image' = [id |-> id, text |-> text, inputs |-> inputs,
               bits |-> Frame(burned[id], text, inputs)]
  /\ UNCHANGED burned

(* Anything else that is done. *)
Clear == image' = NoImage /\ UNCHANGED burned

Next ==
  \/ Clear
  \/ \E id \in DOMAIN burned, text \in Texts, inputs \in InputChoices : Show(id, text, inputs)
  \/ Publish

Spec == Init /\ [][Next]_vars

================================================================================
