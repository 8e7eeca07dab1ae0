---------------------------- MODULE EvaluatePackmsg ----------------------------
(***************************************************************************)
(* The two ways to evaluate a circuit (evaluate/evaluate.cpp): with the     *)
(* labels of all inputs, or with a packet.                                  *)
(***************************************************************************)
EXTENDS GarbledLabels, PackmsgBits

(* PatchInputs: a block with a half that is zero replaces nothing. *)
PatchInputs(garbledValues, labels) ==
  [i \in DOMAIN labels |->
     IF i \in DOMAIN garbledValues /\ BothHalvesSet(garbledValues[i])
       THEN garbledValues[i]
       ELSE labels[i]]

(***************************************************************************)
(* What ParallelEvaluate makes of labels.  A gate that is not XOR unmasks   *)
(* the entry of its table that the labels select, under the key; so an      *)
(* output gets its label when the labels it depends on are of one garbling  *)
(* of this circuit, which is that of the key and of the tables too if it    *)
(* depends on any.  Of several sets of tables the first is used.            *)
(*   garblings[g] is the circuit of garbling g and the lowest bits, lsbs,   *)
(*   of the labels that stand for 0 at its outputs.                         *)
(***************************************************************************)
Source(pgc, labels, output, garblings) ==
  { g \in DOMAIN garblings :
      /\ garblings[g].skcd = pgc.skcd
      /\ \A i \in Reads(output) : labels[i + 1].garbling = g /\ labels[i + 1].wire = i
      /\ HasTables(output) => g = pgc.globalKey /\ g = pgc.tables[1] }

ParallelEvaluate(pgc, labels, garblings) ==
  [o \in DOMAIN pgc.skcd.outputs |->
     LET output == pgc.skcd.outputs[o]
         source == Source(pgc, labels, output, garblings)
         bits   == [i \in DOMAIN labels |-> labels[i].bit]
     IN  IF source = {}
           THEN Garbage
           ELSE Label(CHOOSE g \in source : TRUE, OutputWire(pgc.skcd, o),
                      OutputBit(output, bits))]

--------------------------------------------------------------------------------
Returned(outputs) == [outcome |-> "ok", outputs |-> outputs]

Lost == [outcome |-> "lost", outputs |-> <<>>]

(***************************************************************************)
(* MapOutputs without trust: an output that is neither label of its wire    *)
(* throws, within a parallel region.  A build with assertions asks for as   *)
(* many labels as the outputs have; without (ndebug), labels that are left  *)
(* over stay unread, and memory that is read in the place of missing ones   *)
(* is no label.                                                             *)
(***************************************************************************)
MapOutputs(outputLabels, evaluated, ndebug) ==
  LET is(o, b) == 2 * o <= Len(outputLabels) /\ evaluated[o] = LabelOf(outputLabels, o - 1, b)
  IN  IF /\ ndebug \/ Len(outputLabels) = 2 * Len(evaluated)
         /\ \A o \in DOMAIN evaluated : is(o, 0) \/ is(o, 1)
        THEN Returned([o \in DOMAIN evaluated |-> IF is(o, 0) THEN 0 ELSE 1])
        ELSE Lost

(* EvaluateWithInputs. *)
EvaluateWithInputs(pgc, inputs, garblings, ndebug) ==
  MapOutputs(pgc.outputLabels,
             ParallelEvaluate(pgc, ExtractLabels(pgc, inputs), garblings), ndebug)

(***************************************************************************)
(* EvaluateWithPackmsg.  A packet for more inputs than there are writes     *)
(* past the labels, which a process may survive.                            *)
(***************************************************************************)
LowBits(evaluated, garblings) ==
  [o \in DOMAIN evaluated |->
     IF evaluated[o] = Garbage
       THEN AnyBit
       ELSE XorBit(evaluated[o].bit, garblings[evaluated[o].garbling].lsbs[o])]

EvaluateWithPackmsg(pgc, inputs, packmsg, garblings, survives) ==
  LET patched == PatchInputs(packmsg.garbledValues, ExtractLabels(pgc, inputs))
      lowBits == LowBits(ParallelEvaluate(pgc, patched, garblings), garblings)
  IN  IF Len(packmsg.garbledValues) > Len(inputs) /\ ~ survives
        THEN Lost
        ELSE Returned(ApplyXormask(packmsg.xormask, lowBits))

================================================================================
