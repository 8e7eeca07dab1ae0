----------------------------- MODULE GarbledLabels -----------------------------
(***************************************************************************)
(* The labels of garbled circuits as the packmsg pipeline sees them, and a  *)
(* ParallelGarbledCircuit as the object that is stripped, sent and patched. *)
(*                                                                          *)
(* A label is named after the garbling that made it, its wire and the bit   *)
(* it stands for.  What garbling and evaluation do inside is the subject of *)
(* Garble and ParallelEvaluate; here a garbling is a number, and one entry  *)
(* stands for all the tables that it makes.                                 *)
(***************************************************************************)
EXTENDS Naturals, Sequences, FiniteSets, TLC

CONSTANTS
  Skcds,           \* the circuits that are garbled
  HalfZeroLabels   \* labels of which one 64-bit half, not both, is zero

(***************************************************************************)
(* An Skcd circuit: its number of inputs, its outputs and its config.  An   *)
(* output is a sum modulo 2 of products of inputs, a set of sets of inputs; *)
(* a product of several inputs takes gates that are not XOR.  The config of *)
(* a display has all its keys, that of another circuit has none.            *)
(***************************************************************************)
ConfigKeys == {"NB_DIGITS", "BITMAP_NB_SEGMENTS", "RNDSIZE", "WIDTH", "HEIGHT"}

IsConfig(config) ==
  /\ DOMAIN config \subseteq ConfigKeys
  /\ \A key \in DOMAIN config : config[key] \in Nat

IsDisplay(config) == DOMAIN config = ConfigKeys

RandomInputs(config) ==
  config["BITMAP_NB_SEGMENTS"] .. config["BITMAP_NB_SEGMENTS"] + config["RNDSIZE"] - 1

(* The inputs that an output depends on; one that depends on none is not     *)
(* followed, since no label says of which garbling it is.                     *)
Reads(output) == UNION output

IsSkcd(c) ==
  /\ c.nbInputs \in Nat
  /\ c.outputs \in Seq(SUBSET SUBSET (0 .. c.nbInputs - 1)) /\ c.outputs # <<>>
  /\ \A o \in DOMAIN c.outputs : Reads(c.outputs[o]) # {}
  /\ IsConfig(c.config) /\ DOMAIN c.config \in {{}, ConfigKeys}
  /\ IsDisplay(c.config) =>
       /\ c.config["BITMAP_NB_SEGMENTS"] = 7 * c.config["NB_DIGITS"]
       /\ c.nbInputs = c.config["BITMAP_NB_SEGMENTS"] + c.config["RNDSIZE"] + 1
       /\ Len(c.outputs) = c.config["WIDTH"] * c.config["HEIGHT"]

ASSUME GarbledLabelsAssumption == \A c \in Skcds : IsSkcd(c)

EmptyConfig == [key \in {} |-> 0]

NoSkcd == [nbInputs |-> 0, outputs |-> <<>>, config |-> EmptyConfig]

HasTables(output) == \E product \in output : Cardinality(product) > 1

NonXorCount(c) == IF \E o \in DOMAIN c.outputs : HasTables(c.outputs[o]) THEN 1 ELSE 0

(* The bit of an output for input bits, a sequence with input i at i + 1. *)
OutputBit(output, bits) ==
  Cardinality({ product \in output : \A i \in product : bits[i + 1] = 1 }) % 2

--------------------------------------------------------------------------------
Label(garbling, wire, bit) == [garbling |-> garbling, wire |-> wire, bit |-> bit]

(* Block::Zero. *)
Zero == Label(0, 0, 0)

(* Whatever comes of labels and tables that do not belong together. *)
Garbage == Label(0, 1, 0)

(* The wire of output o, after those of the inputs and one that is spare. *)
OutputWire(c, o) == c.nbInputs + o

(* Neither half of the block is 0. *)
BothHalvesSet(block) == block # Zero /\ block \notin HalfZeroLabels

--------------------------------------------------------------------------------
(* ParallelGarbledCircuit(): every vector is empty. *)
DefaultPgc ==
  [skcd |-> NoSkcd, globalKey |-> 0, inputLabels |-> <<>>, outputLabels |-> <<>>,
   tables |-> <<>>, config |-> EmptyConfig]

(***************************************************************************)
(* GarbleSkcdFromBuffer: two labels for every input and the wire after      *)
(* them, two for every output.                                              *)
(***************************************************************************)
GarbleSkcdFromBuffer(c, g) ==
  [skcd         |-> c,
   globalKey    |-> g,
   inputLabels  |-> [i \in 1 .. 2 * (c.nbInputs + 1) |->
                       Label(g, (i - 1) \div 2, (i - 1) % 2)],
   outputLabels |-> [i \in 1 .. 2 * Len(c.outputs) |->
                       Label(g, OutputWire(c, 1 + (i - 1) \div 2), (i - 1) % 2)],
   tables       |-> [i \in 1 .. NonXorCount(c) |-> g],
   config       |-> c.config]

(* Label b of the pair of i, counted from 0, in a vector of pairs. *)
LabelOf(labels, i, b) == labels[2 * i + b + 1]

(* ParallelGarbledCircuit::ExtractLabels. *)
ExtractLabels(pgc, inputBits) ==
  [i \in 1 .. Len(inputBits) |-> LabelOf(pgc.inputLabels, i - 1, inputBits[i])]

IsStripped(pgc) == pgc.skcd # NoSkcd /\ pgc.outputLabels = <<>>

================================================================================
