-------------------------------- MODULE XorGraph -------------------------------
(***************************************************************************)
(* The graph of the XOR gates of a circuit (justgarble/xor_graph.cpp) and   *)
(* its search for the gates "connected" to a seed gate.                     *)
(*                                                                          *)
(* The lookup tables of the class (input_to_gates_, gate_to_inputs_,        *)
(* gate_to_outputs_, output_to_gates_) are read off the circuit;            *)
(* gates_indexes_, the marks that survive from one search to the next, is   *)
(* the argument marks, a set of gates.                                      *)
(***************************************************************************)
EXTENDS Circuit, SequencesExt

(***************************************************************************)
(* The elements of S, one after the other by increasing key: what a loop    *)
(* that skips those it has met before makes a list of.                      *)
(***************************************************************************)
InOrder(S, key) ==
  [n \in 1 .. Cardinality(S) |->
     CHOOSE x \in S : Cardinality({ y \in S : key[y] < key[x] }) = n - 1]

Reads(c, g) == {c.in0[g], c.in1[g]}

(***************************************************************************)
(* The XOR gate that drives a label.  0 stands for "none", so a XOR gate    *)
(* with id 0 cannot be told from none.                                      *)
(***************************************************************************)
GetGatesFromOutput(c, label) ==
  LET drivers == { g \in XorGates(c) : c.out[g] = label }
  IN  IF drivers = {} THEN 0 ELSE CHOOSE g \in drivers : TRUE

(* The gates that share an input label with gate; label 0 means "no input". *)
Siblings(c, gate) ==
  { s \in XorGates(c) : (Reads(c, s) \cap Reads(c, gate)) \ {0} # {} }

(* Slip: the inputs of the gate alone. *)
GetParentInputsFromGate(c, gate) ==
  SelectSeq(<<c.in0[gate], c.in1[gate]>>, LAMBDA label : label # 0)

(***************************************************************************)
(* The inputs of gate and of its siblings.  Whether a sibling's input 0 is  *)
(* taken depends on input 0 of gate, not of the sibling, being other than   *)
(* label 0; likewise input 1.  The siblings' turns: first those that read   *)
(* input 0 of gate, then the others, both in increasing order.              *)
(***************************************************************************)
GetParentAndStepParentInputsFromGate(c, gate) ==
  LET taken0 == IF c.in0[gate] # 0 THEN Siblings(c, gate) ELSE {}
      taken1 == IF c.in1[gate] # 0 THEN Siblings(c, gate) ELSE {}
      turn(s) == IF c.in0[gate] \in Reads(c, s) \ {0} THEN s ELSE NbGates + s
      places(label) == { 2 * turn(s)     : s \in { t \in taken0 : c.in0[t] = label } }
                  \cup { 2 * turn(s) + 1 : s \in { t \in taken1 : c.in1[t] = label } }
      parents == { c.in0[s] : s \in taken0 } \cup { c.in1[s] : s \in taken1 }
  IN  InOrder(parents, [label \in parents |-> Min(places(label))])

(***************************************************************************)
(* The labels GetParentsGate hands back as "root inputs".  Its duplicate    *)
(* test looks for gate_id, a gate, among the labels: a label equal to the   *)
(* id of the gate is the last one taken.                                    *)
(***************************************************************************)
RootInputs(c, gate) ==
  LET inputs == GetParentAndStepParentInputsFromGate(c, gate)
      upToGateId == { k \in 1 .. Len(inputs) : inputs[k] = gate }
  IN  IF upToGateId = {} THEN inputs
      ELSE SubSeq(inputs, 1, CHOOSE k \in upToGateId : TRUE)

(* The XOR gates that drive one of those labels: a "grand parent". *)
ParentGates(c, gate) ==
  { GetGatesFromOutput(c, label) :
      label \in ToSet(GetParentAndStepParentInputsFromGate(c, gate)) } \ {0}

(* The gates that read one of the labels: label by label, each in increasing *)
(* order, and every gate once.                                               *)
ReadersInOrder(c, gates, labels) ==
  LET readers == { g \in gates : Reads(c, g) \cap ToSet(labels) # {} }
      first(g) == Min({ k \in DOMAIN labels : labels[k] \in Reads(c, g) })
  IN  InOrder(readers, [g \in readers |-> first(g) * NbGates + g])

(* Slip: the marks of earlier searches are not looked at. *)
AllReaders(c, marks, labels) == ReadersInOrder(c, XorGates(c), labels)

(* GetAllOutputsFromInputs: the unmarked gates that read one of the labels. *)
NewGates(c, marks, labels) == ReadersInOrder(c, XorGates(c) \ marks, labels)

OutputsOf(c, gates) == [k \in 1 .. Len(gates) |-> c.out[gates[k]]]

--------------------------------------------------------------------------------
WiresOf(c, g) == {c.in0[g], c.in1[g], c.out[g]}

(* No gate outside G shares a wire with one of its gates. *)
Closed(c, G) ==
  \A g \in G, h \in XorGates(c) : WiresOf(c, g) \cap WiresOf(c, h) # {} => h \in G

(***************************************************************************)
(* All the gates that share an input or an output with seed, "recursively": *)
(* the least set of gates with seed in it that is closed.  This is what     *)
(* FindAllGates is documented to return, and what the depth-first search of *)
(* GarbleUtils::findAllGates, its predecessor, computes.                    *)
(***************************************************************************)
ConnectedGates(c, seed) ==
  LET closed == { G \in SUBSET XorGates(c) : seed \in G /\ Closed(c, G) }
  IN  { g \in XorGates(c) : \A G \in closed : g \in G }

(* The XOR gates whose output gate g reads. *)
Drivers(c, g) == { d \in XorGates(c) : c.out[d] \in Reads(c, g) }

(***************************************************************************)
(* The levels of a connected set of XOR gates.  The roots are the labels    *)
(* read near its first gate, by the gates that share an input with it.  The *)
(* first level are the gates that read a root; the next level after a level *)
(* are the others whose drivers are all on it.                              *)
(***************************************************************************)
Near(c, set)  == { h \in set : Reads(c, h) \cap Reads(c, Min(set)) # {} }
Roots(c, set) == UNION { Reads(c, h) : h \in Near(c, set) }

FirstLevel(c, set) == { h \in set : Reads(c, h) \cap Roots(c, set) # {} }

NextLevel(c, set, level) ==
  { h \in set \ FirstLevel(c, set) : Drivers(c, h) # {} /\ Drivers(c, h) \subseteq level }

(***************************************************************************)
(* The circuits the search can handle.  In every connected set of XOR gates, *)
(* s being its first gate:                                                  *)
(*   - no root is driven by a gate of the set;                              *)
(*   - s is not one of the roots, taken as a label id; s reads a label      *)
(*     other than 0, and if it reads 0 as well it is alone near s;          *)
(*   - there are at most three levels, and no gate of the first has drivers. *)
(***************************************************************************)
Supported(c) ==
  \A g \in XorGates(c) :
    LET set    == ConnectedGates(c, g)
        first  == FirstLevel(c, set)
        second == NextLevel(c, set, first)
        third  == NextLevel(c, set, second)
    IN  /\ Roots(c, set) \cap { c.out[h] : h \in set } = {}
        /\ Min(set) \notin Roots(c, set)
        /\ Reads(c, Min(set)) # {0}
        /\ 0 \in Reads(c, Min(set)) => Near(c, set) = {Min(set)}
        /\ set = first \cup second \cup third
        /\ \A h \in first : Drivers(c, h) = {}

--------------------------------------------------------------------------------
VARIABLES
  ndebug,                   \* TRUE in a release build, where assert does nothing
  circuit,                  \* the circuit, fixed by the constructor
  gatesIndexes,             \* gates_indexes_: the gates any search has returned
  allGates,                 \* all_gates of the current search
  labels,                   \* the labels whose readers the next round gathers
  round                     \* how many rounds have been made; at most four

graphVars == <<ndebug, circuit, gatesIndexes, allGates, labels, round>>

GraphInit ==
  /\ ndebug \in Builds
  /\ gatesIndexes = {}
  /\ allGates = <<>>
  /\ labels = <<>>
  /\ round = 0

(* The assertions on the seed and its surroundings, a debug build's. *)
SeedAsserts(seed) ==
  /\ circuit.in0[seed] # 0 \/ circuit.in1[seed] # 0
  /\ Siblings(circuit, seed) \cap gatesIndexes = {}
  /\ ParentGates(circuit, seed) = {}
  /\ Len(GetParentAndStepParentInputsFromGate(circuit, seed)) < 16

(* FindAllGates(seed) up to its first round: the root inputs. *)
BeginFindAllGates(seed) ==
  /\ allGates' = <<>>
  /\ labels' = RootInputs(circuit, seed)
  /\ round' = 0
  /\ UNCHANGED <<ndebug, circuit, gatesIndexes>>

(* The gates a round adds to all_gates. *)
Found == NewGates(circuit, gatesIndexes, labels)

(* Slip: the assertion is on the third round. *)
RoundAssertsEarly(found) ==
  /\ ToSet(OutputsOf(circuit, found)) \cap ToSet(labels) = {}
  /\ round = 2 => found = <<>>

(***************************************************************************)
(* The assertions of a round: the outputs found are none of its labels, and *)
(* the fourth round finds none ("xorgraph: NotImplemented").  That no two   *)
(* gates found have one output follows from the circuit.                    *)
(***************************************************************************)
RoundAsserts(found) ==
  /\ ToSet(OutputsOf(circuit, found)) \cap ToSet(labels) = {}
  /\ round = 3 => found = <<>>

(* One round, GetAllOutputsFromInputs: its outputs are the next labels. *)
GetAllOutputsFromInputs(found) ==
  /\ allGates' = allGates \o found
  /\ gatesIndexes' = gatesIndexes \cup ToSet(found)
  /\ labels' = OutputsOf(circuit, found)
  /\ round' = round + 1
  /\ UNCHANGED <<ndebug, circuit>>

(* Slip: the search stops after the readers of the root inputs. *)
FirstRoundOnly == round = 1

(* There are no more than four rounds, and none on no labels. *)
AllGatesFound == round = 4 \/ (round > 0 /\ labels = <<>>)

================================================================================
