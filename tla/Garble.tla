--------------------------------- MODULE Garble --------------------------------
(***************************************************************************)
(* GarbledCircuit::Garble (justgarble/garble.cpp): random labels for every  *)
(* wire, one offset R per connected set of XOR gates (free XOR), an         *)
(* encrypted table per other gate, then the labels of inputs and outputs.   *)
(* One action per turn of each loop.  The code is one thread; what is hard  *)
(* is the order in which the loops overwrite the labels of shared wires.    *)
(***************************************************************************)
EXTENDS XorGraph, GateEvaluation

CONSTANT LabelLsbs      \* the lowest bits the random label0 of the wires may have
ASSUME LabelLsbsAssumption == LabelLsbs \subseteq [Wires -> {0, 1}]

VARIABLES
  pc,                     \* the loop Garble is in
  wires,                  \* wires[w] = [label0, label1]
  toBeProcessed,          \* the XorGateProcessor
  seedGateIt,
  labelled,               \* how many gates of the subgraph have been labelled
  R,                      \* the offset of the current subgraph
  garbledTable,           \* garbled_table_
  garbledTableIndexMap,   \* garbled_table_index_map_, the entries written
  inputLabels,
  outputLabels

processorVars == <<toBeProcessed, seedGateIt>>
tableVars     == <<garbledTable, garbledTableIndexMap>>
labelVars     == <<inputLabels, outputLabels>>
vars == <<graphVars, pc, wires, processorVars, labelled, R, tableVars, labelVars>>

Processor == INSTANCE XorGateProcessor

(* label1 or label0 of a wire. *)
Label(w, bit) == IF bit = 1 THEN wires[w].label1 ELSE wires[w].label0

(* Bit k of a truth table, for the inputs a, b with k = 2a + b. *)
TruthBit(type, k) == (type \div 2^k) % 2

Tweak(g) == <<circuit.in0[g], circuit.in1[g], circuit.out[g]>>

--------------------------------------------------------------------------------
(* Every wire gets a random label0 and, from a R of its own, a label1. *)
RandomWires(lsbs) ==
  [w \in Wires |->
     LET label0 == NewRandom(<<"label", w>>, lsbs[w])
     IN  [label0 |-> label0, label1 |-> Xor(NewR(<<"R", w>>), label0)]]

Init ==
  /\ circuit \in Circuits
  /\ \E lsbs \in LabelLsbs : wires = RandomWires(lsbs)
  /\ toBeProcessed = [g \in Gates |-> IF g \in XorGates(circuit) THEN 1 ELSE 0]
  /\ seedGateIt \in Processor!Find(toBeProcessed, 0)
  /\ GraphInit
  /\ labelled = 0
  /\ R = Zero
  /\ garbledTable = <<>>
  /\ garbledTableIndexMap = <<>>
  /\ inputLabels = <<>>
  /\ outputLabels = <<>>
  /\ pc = "seed"

(***************************************************************************)
(* FindAllGates from the next seed.  In a debug build its assertions hold,  *)
(* or the program ends.                                                     *)
(***************************************************************************)
StartSearch ==
  /\ pc = "seed"
  /\ Processor!GetNextSeedGate >= 0
  /\ ndebug \/ SeedAsserts(Processor!GetNextSeedGate)
  /\ BeginFindAllGates(Processor!GetNextSeedGate)
  /\ labelled' = 0
  /\ pc' = "search"
  /\ UNCHANGED <<wires, processorVars, R, tableVars, labelVars>>

SearchRound ==
  /\ pc = "search"
  /\ ~AllGatesFound
  /\ \E found \in {Found} :
       /\ ndebug \/ RoundAsserts(found)
       /\ GetAllOutputsFromInputs(found)
  /\ UNCHANGED <<pc, wires, processorVars, labelled, R, tableVars, labelVars>>

AbortSearch ==
  /\ ~ndebug
  /\ \/ /\ pc = "seed"
        /\ Processor!GetNextSeedGate >= 0
        /\ ~SeedAsserts(Processor!GetNextSeedGate)
     \/ /\ pc = "search"
        /\ ~AllGatesFound
        /\ ~RoundAsserts(Found)
  /\ pc' = "aborted"
  /\ UNCHANGED <<graphVars, wires, processorVars, labelled, R, tableVars,
                 labelVars>>

(* A fresh R for the gates the search has found. *)
ChooseR ==
  /\ pc = "search"
  /\ AllGatesFound
  /\ R' = NewR(<<"R", Processor!GetNextSeedGate, "xor">>)
  /\ pc' = "xor"
  /\ UNCHANGED <<graphVars, wires, processorVars, labelled, tableVars, labelVars>>

(* Slip: label1 of the output from label1 of both inputs. *)
SetXorGateBothLabel1(ws, g) ==
  LET setInput(v, w) == [v EXCEPT ![w].label1 = Xor(R, v[w].label0)]
      i0  == circuit.in0[g]
      i1  == circuit.in1[g]
      v   == setInput(setInput(ws, i0), i1)
  IN  [v EXCEPT ![circuit.out[g]] =
         [label0 |-> Xor(v[i0].label0, v[i1].label0),
          label1 |-> Xor(v[i0].label1, v[i1].label1)]]

(***************************************************************************)
(* SetXorGateInput on both inputs, which makes label1 = R ^ label0, then    *)
(* SetXorGateOutput on the output.                                          *)
(***************************************************************************)
SetXorGate(ws, g) ==
  LET setInput(v, w) == [v EXCEPT ![w].label1 = Xor(R, v[w].label0)]
      i0  == circuit.in0[g]
      i1  == circuit.in1[g]
      v   == setInput(setInput(ws, i0), i1)
  IN  [v EXCEPT ![circuit.out[g]] =
         [label0 |-> Xor(v[i0].label0, v[i1].label0),
          label1 |-> Xor(v[i0].label0, v[i1].label1)]]

(* One gate of the subgraph, in the order FindAllGates returned them. *)
LabelXorGate ==
  /\ pc = "xor"
  /\ labelled < Len(allGates)
  /\ wires' = SetXorGate(wires, allGates[labelled + 1])
  /\ labelled' = labelled + 1
  /\ UNCHANGED <<graphVars, pc, processorVars, R, tableVars, labelVars>>

(***************************************************************************)
(* MarkAsProcessed(subgraph_gates), then back to the next seed.  That its   *)
(* assertions hold in a debug build is KeepsProcessorContract, below.       *)
(***************************************************************************)
MarkSubgraph ==
  /\ pc = "xor"
  /\ labelled = Len(allGates)
  /\ Processor!MarkAsProcessed(ToSet(allGates))
  /\ pc' = "seed"
  /\ UNCHANGED <<graphVars, wires, labelled, R, tableVars, labelVars>>

(* GetNextSeedGate() is -1: on to the other gates. *)
NoMoreSeeds ==
  /\ pc = "seed"
  /\ Processor!GetNextSeedGate = -1
  /\ pc' = "nonxor"
  /\ UNCHANGED <<graphVars, wires, processorVars, labelled, R, tableVars,
                 labelVars>>

--------------------------------------------------------------------------------
(* The block that entry 2a + b stands for before the permutation. *)
Ciphertext(g, k) ==
  Xor(Mask(Label(circuit.in0[g], k \div 2), Label(circuit.in1[g], k % 2), Tweak(g)),
      Label(circuit.out[g], TruthBit(circuit.type[g], k)))

(* Slip: the permutation takes the lowest bits of label1. *)
LsbIndexOfLabel1(g, k) ==
  LET flip(bit, w) == (bit + GetLsb(Label(w, 1))) % 2
  IN  2 * flip(k \div 2, circuit.in0[g]) + flip(k % 2, circuit.in1[g])

(***************************************************************************)
(* Point and permute: place k of the table holds entry lsb_index_k, which   *)
(* flips the bits of k that are the lowest bits of the two label0.          *)
(***************************************************************************)
LsbIndex(g, k) ==
  LET lsb0 == GetLsb(Label(circuit.in0[g], 0))
      lsb1 == GetLsb(Label(circuit.in1[g], 0))
      flip(bit, lsb) == (bit + lsb) % 2
  IN  2 * flip(k \div 2, lsb0) + flip(k % 2, lsb1)

TableOf(g) == [k \in 0 .. 3 |-> Ciphertext(g, LsbIndex(g, k))]

(* The size garbled_table_index_map_ is given. *)
IndexMapSize == 2 * Cardinality(NonXorGates(circuit))

(* How many tables indexes of 16 bits, one for the sign, can tell apart. *)
MaxTables == 32768

(* size_t to int16_t. *)
ToInt16(k) == ((k + MaxTables) % (2 * MaxTables)) - MaxTables

(***************************************************************************)
(* The next gate that is not XOR, in increasing order: its table and its    *)
(* entry in the index map.  An id past the end of the map is written out of *)
(* bounds: the heap may bear it, so that reading the same place back finds  *)
(* the entry, or the program is lost.                                       *)
(***************************************************************************)
GarbleNonXorGate ==
  LET pending == NonXorGates(circuit) \ DOMAIN garbledTableIndexMap
      written(g) == [h \in DOMAIN garbledTableIndexMap \cup {g} |->
                       IF h = g THEN ToInt16(Len(garbledTable))
                       ELSE garbledTableIndexMap[h]]
  IN  /\ pc = "nonxor"
      /\ \E g \in pending :
           /\ \A h \in pending : g <= h
           /\ garbledTable' = Append(garbledTable, TableOf(g))
           /\ garbledTableIndexMap' = written(g)
           /\ \/ pc' = pc
              \/ g >= IndexMapSize /\ pc' = "lost"
      /\ UNCHANGED <<graphVars, wires, processorVars, labelled, R, labelVars>>

(* The n + 1 input labels and the m output labels. *)
SetLabels ==
  /\ pc = "nonxor"
  /\ NonXorGates(circuit) \subseteq DOMAIN garbledTableIndexMap
  /\ inputLabels' = [i \in 0 .. NbInputs |-> wires[i]]
  /\ outputLabels' = [i \in DOMAIN circuit.outputs |-> wires[circuit.outputs[i]]]
  /\ pc' = "done"
  /\ UNCHANGED <<graphVars, wires, processorVars, labelled, R, tableVars>>

Next ==
  \/ StartSearch \/ SearchRound \/ AbortSearch \/ ChooseR \/ LabelXorGate \/ MarkSubgraph
  \/ NoMoreSeeds \/ GarbleNonXorGate \/ SetLabels

(* One thread that is never suspended for good. *)
Spec == Init /\ [][Next]_vars /\ WF_vars(Next)

--------------------------------------------------------------------------------
TypeOK ==
  /\ ndebug \in BOOLEAN
  /\ WellFormed(circuit)
  /\ pc \in {"seed", "search", "xor", "nonxor", "done", "aborted", "lost"}
  /\ DOMAIN wires = Wires
  /\ gatesIndexes \subseteq XorGates(circuit)
  /\ toBeProcessed \in [Gates -> {0, 1}]
  /\ seedGateIt \in 0 .. NbGates
  /\ allGates \in Seq(XorGates(circuit))
  /\ round \in 0 .. 4
  /\ labelled \in 0 .. Len(allGates)
  /\ Len(garbledTable) = Cardinality(DOMAIN garbledTableIndexMap)
  /\ DOMAIN garbledTableIndexMap \subseteq NonXorGates(circuit)

(* The table GetGarbledTable(g) finds through the index map. *)
GetGarbledTable(g) == garbledTable[garbledTableIndexMap[g] + 1]

(* What the evaluator computes for gate g from the labels A and B. *)
EvalGate(g, A, B) ==
  IF circuit.type[g] = XOR
  THEN EvalXorGate(A, B)
  ELSE EvalNonXorGate(GetGarbledTable(g), A, B, Tweak(g))

(***************************************************************************)
(* What garbling is for: from the labels of any two input bits, each gate   *)
(* evaluates to the label of its truth table's output bit.  It takes one    *)
(* offset on all three wires of a XOR gate, tables built from the final     *)
(* labels only, the permutation and the index map (garble.cpp:184-360 and   *)
(* evaluate.cpp:133-165).                                                   *)
(***************************************************************************)
GatesEvaluate ==
  pc = "done" /\ Supported(circuit) =>
    \A g \in Gates, a \in {0, 1}, b \in {0, 1} :
      (circuit.in0[g] = circuit.in1[g] => a = b) =>
        EvalGate(g, Label(circuit.in0[g], a), Label(circuit.in1[g], b))
          = Label(circuit.out[g], TruthBit(circuit.type[g], 2 * a + b))

(***************************************************************************)
(* The part of it that holds for any circuit, whatever the search has done  *)
(* to the labels before: as long as their indexes fit in 16 bits (int16_t,  *)
(* justGarble.h:194), tables evaluate to the label of the gate's output.    *)
(***************************************************************************)
TablesEvaluate ==
  pc = "done" /\ Cardinality(NonXorGates(circuit)) <= MaxTables =>
    \A g \in NonXorGates(circuit), a \in {0, 1}, b \in {0, 1} :
      EvalGate(g, Label(circuit.in0[g], a), Label(circuit.in1[g], b))
        = Label(circuit.out[g], TruthBit(circuit.type[g], 2 * a + b))

SubgraphFound == pc = "xor" /\ labelled = 0

(***************************************************************************)
(* xor_graph.h:140-142: FindAllGates is to "traverse the whole graph, and   *)
(* return all the gate that shares at least one input1, input0 or output    *)
(* with the given gate, recursively".                                       *)
(***************************************************************************)
FindAllGatesIsRecursive ==
  SubgraphFound =>
    ToSet(allGates) = ConnectedGates(circuit, Processor!GetNextSeedGate)

SupportedSearchIsRecursive == FindAllGatesIsRecursive \/ ~Supported(circuit)

Processed == { g \in XorGates(circuit) : toBeProcessed[g] = 0 }

(***************************************************************************)
(* garble.cpp:218-221: "NO input/output will be duplicated b/w the results" *)
(* of FindAllGates, so that a wire is given one offset only.                *)
(***************************************************************************)
NoWireInTwoSubgraphs ==
  SubgraphFound =>
    \A g \in ToSet(allGates), h \in Processed :
      WiresOf(circuit, g) \cap WiresOf(circuit, h) = {}

(***************************************************************************)
(* Once a subgraph is marked as processed no later one rewrites a label of  *)
(* its wires: a table or another XOR gate may rely on them.                 *)
(***************************************************************************)
ProcessedWiresKeepLabels ==
  [][\/ \A g \in Processed : \A w \in WiresOf(circuit, g) : wires'[w] = wires[w]
     \/ ~Supported(circuit)]_vars

(***************************************************************************)
(* The two labels of a wire can always be told apart by their lowest bit,   *)
(* for any circuit and however often XOR gates rewrite them.                *)
(***************************************************************************)
PermuteBitsDiffer ==
  \A w \in Wires : GetLsb(wires[w].label0) # GetLsb(wires[w].label1)

(***************************************************************************)
(* What Garble gives MarkAsProcessed keeps the XorGateProcessor's contract: *)
(* whatever the circuit, it is only gates not processed before, and unless  *)
(* the search has failed an assertion a release build does not have, the    *)
(* seed is one of them.                                                     *)
(***************************************************************************)
KeepsProcessorContract ==
  pc = "xor" =>
    /\ \A g \in ToSet(allGates) : toBeProcessed[g] = 1
    /\ ndebug \/ Processor!Precondition(ToSet(allGates))

(* garble.cpp:269-272: "an index vector will do" for the non-XOR gates. *)
IndexMapFits == \A g \in DOMAIN garbledTableIndexMap : g < IndexMapSize

(***************************************************************************)
(* Of the assertions of a debug build only one can fail on a supported      *)
(* circuit, the one that is about speed: the 16 places reserved for the     *)
(* root inputs are too few (xor_graph.cpp:212, 345).                        *)
(***************************************************************************)
SupportedIsNotRefused ==
  pc = "aborted" /\ Supported(circuit) =>
    Len(GetParentAndStepParentInputsFromGate(circuit, seedGateIt)) >= 16

(***************************************************************************)
(* A supported circuit gets its labels, in a debug build too: no assertion  *)
(* fails and the loops end.                                                 *)
(***************************************************************************)
SupportedIsGarbled == <>(pc \in {"done", "lost"}) \/ ~Supported(circuit)

================================================================================
