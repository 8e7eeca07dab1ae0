--------------------- MODULE ParallelGarbledCircuit_proofs ---------------------
(***************************************************************************)
(* The constructor of ParallelGarbledCircuit is correct for every circuit   *)
(* and both builds: type correctness, and that the order it builds and the  *)
(* counts it collects belong together.                                      *)
(*                                                                          *)
(* The invariant has one part for each loop, which says what the loop has   *)
(* done so far and, once the loop is over, what it has done.                *)
(***************************************************************************)
EXTENDS ParallelGarbledCircuit, FiniteSetTheorems, TLAPS

(* The sequence s lists the set S, every element once. *)
Lists(s, S) == s \in Seq(S) /\ IsInjective(s) /\ ToSet(s) = S

(* Where the counting sort puts gate g. *)
LayerAt(g)    == layer[circuit.out[g]]
SublayerAt(g) ==
  IF IsXor(g) THEN circuit.in0[g] - minInput0[LayerAt(g)] + 1 ELSE 0

(* The gates that the first and the second loop have seen. *)
Layered  == 0 .. (IF pc = "layers" THEN i ELSE NbGates) - 1
Bucketed == 0 .. (IF pc = "buckets" THEN i ELSE NbGates) - 1

OfLayer(l)       == { g \in Layered : LayerAt(g) = l }
NonXorOfLayer(l) == { g \in Layered : LayerAt(g) = l /\ ~IsXor(g) }

OfSublayer(l, k) == { g \in Bucketed : LayerAt(g) = l /\ SublayerAt(g) = k }

(* A gate is in a layer after its inputs', and counted there. *)
LayersInv ==
  /\ \A g \in Layered :
       /\ LayerAt(g) \in 1 .. nbLayers - 1
       /\ LayerAt(g) > layer[circuit.in0[g]]
       /\ LayerAt(g) > layer[circuit.in1[g]]
  /\ \A l \in Layers :
       /\ layerCounts[l] = Cardinality(OfLayer(l))
       /\ layerNonXorCounts[l] = Cardinality(NonXorOfLayer(l))

(* Every list has the gates of its layer and bucket. *)
BucketsInv ==
  /\ nonXorGates \in [0 .. nbLayers - 1 -> Seq(Gates)]
  /\ xorGates \in [0 .. nbLayers - 1 -> Seq(Seq(Gates))]
  /\ \A g \in Bucketed : IsXor(g) => SublayerAt(g) \in DOMAIN xorGates[LayerAt(g)]
  /\ \A l \in 0 .. nbLayers - 1 : \A k \in 0 .. Len(xorGates[l]) :
       Lists(SublayerOf(l, k), OfSublayer(l, k))

(* The gates of the lists before the place of the third loop. *)
Before(g, l, k) == LayerAt(g) < l \/ (LayerAt(g) = l /\ SublayerAt(g) < k)

Placed == { g \in Gates : pc = "order" => Before(g, i, sublayer) }

NotAfter(g, h) ==
  LayerAt(g) < LayerAt(h) \/ (LayerAt(g) = LayerAt(h) /\ SublayerAt(g) <= SublayerAt(h))

GateStart(l) == StartOf(layerCounts, l)
NonXorEnd(l) == GateStart(l) + layerNonXorCounts[l]

(* The place is one of a list, and newGatesId ends where its layer begins,  *)
(* or after the layer's gates that are not XOR.                             *)
PlaceInv ==
  /\ sublayer \in 0 .. (IF i < nbLayers THEN Len(xorGates[i]) ELSE 0)
  /\ sublayer = 0 => Len(newGatesId) = GateStart(i)
  /\ sublayer > 0 => Len(newGatesId) >= NonXorEnd(i)

(* Layers that are complete end where the counts say so. *)
Boundary(l) ==
  /\ GateStart(l) <= Len(newGatesId)
  /\ \A p \in 1 .. Len(newGatesId) : p <= GateStart(l) <=> LayerAt(newGatesId[p]) < l

OrderInv ==
  /\ Lists(newGatesId, Placed)
  /\ \A p, q \in 1 .. Len(newGatesId) : p < q => NotAfter(newGatesId[p], newGatesId[q])
  /\ pc = "order" => PlaceInv
  /\ \A l \in 1 .. nbLayers : (pc = "order" => l <= i) => Boundary(l)
  /\ \A p \in 1 .. Len(newGatesId) :
       IsXor(newGatesId[p]) <=> p > NonXorEnd(LayerAt(newGatesId[p]))

(* The gates that the fourth loop has packed. *)
NbPacked == IF pc = "pack" THEN i ELSE NbGates

PackedGate(g) == Pack(IsXor(g), circuit.in0[g], circuit.in1[g], circuit.out[g])

TablesStart(l) == StartOf(layerNonXorCounts, l)

(* How many of the first n gates of newGatesId have a table. *)
TablesAmong(n) ==
  LET OfLayerAmong(l) == IF n < GateStart(l) THEN 0
                         ELSE IF n > NonXorEnd(l) THEN layerNonXorCounts[l]
                         ELSE n - GateStart(l)
  IN  OfLayerAmong(1) + OfLayerAmong(2) + OfLayerAmong(3)

(* The table of the p-th gate. *)
TableAt(p) ==
  LET l == LayerAt(newGatesId[p])
  IN  TablesStart(l) + p - GateStart(l)

PackInv ==
  /\ Len(garbledGates) = NbPacked
  /\ \A p \in 1 .. NbPacked : garbledGates[p] = PackedGate(newGatesId[p])
  /\ Len(garbledTable) = TablesAmong(NbPacked)
  /\ \A p \in 1 .. NbPacked :
       ~IsXor(newGatesId[p]) =>
         /\ TableAt(p) \in 1 .. Len(garbledTable)
         /\ garbledTable[TableAt(p)] = newGatesId[p]

IInv ==
  /\ TypeOK
  /\ garbledGates \in Seq({ PackedGate(g) : g \in Gates })
  /\ pc \in {"layers", "buckets", "order", "pack", "done"} => LayersInv
  /\ pc \in {"buckets", "order", "pack", "done"} => BucketsInv
  /\ pc \in {"layers", "buckets"} => sublayer = 0 /\ newGatesId = <<>>
  /\ pc \in {"order", "pack", "done"} => OrderInv
  /\ pc \notin {"pack", "done"} => garbledGates = <<>> /\ garbledTable = <<>>
  /\ pc \in {"pack", "done"} => PackInv

--------------------------------------------------------------------------------
(* What a sequence that lists a set is made of, and how long it is. *)
LEMMA ListsElements ==
  ASSUME NEW S, NEW s, Lists(s, S)
  PROVE  /\ Len(s) \in Nat /\ DOMAIN s = 1 .. Len(s)
         /\ \A p \in 1 .. Len(s) : s[p] \in S
         /\ \A x \in S : \E p \in 1 .. Len(s) : s[p] = x
         /\ \A p, q \in 1 .. Len(s) : s[p] = s[q] => p = q
BY DEF Lists, IsInjective, ToSet

LEMMA ListsIntro ==
  ASSUME NEW S, NEW s \in Seq(S),
         \A x \in S : \E p \in 1 .. Len(s) : s[p] = x,
         \A p, q \in 1 .. Len(s) : s[p] = s[q] => p = q
  PROVE  Lists(s, S)
<1>1. DOMAIN s = 1 .. Len(s) /\ \A p \in 1 .. Len(s) : s[p] \in S
  OBVIOUS
<1>2. IsInjective(s)
  BY <1>1 DEF IsInjective
<1>3. ToSet(s) = S
  BY <1>1 DEF ToSet
<1> QED BY <1>2, <1>3 DEF Lists

LEMMA ListsEmpty == Lists(<<>>, {})
BY DEF Lists, IsInjective, ToSet

LEMMA ListsAppend ==
  ASSUME NEW S, NEW s, Lists(s, S), NEW x, x \notin S
  PROVE  Lists(Append(s, x), S \cup {x})
<1> DEFINE t == Append(s, x)
<1>1. s \in Seq(S)
  BY DEF Lists
<1>2. /\ Len(s) \in Nat
      /\ t \in Seq(S \cup {x}) /\ Len(t) = Len(s) + 1
      /\ \A p \in 1 .. Len(s) : t[p] = s[p]
      /\ t[Len(s) + 1] = x
  BY <1>1
<1>3. \A y \in S \cup {x} : \E p \in 1 .. Len(t) : t[p] = y
  BY <1>2, ListsElements
<1>4. ASSUME NEW p \in 1 .. Len(t), NEW q \in 1 .. Len(t), t[p] = t[q]
      PROVE  p = q
  <2>1. CASE p \in 1 .. Len(s) /\ q \in 1 .. Len(s)
    BY <1>2, <1>4, <2>1, ListsElements
  <2>2. CASE p = Len(s) + 1 \/ q = Len(s) + 1
    BY <1>2, <1>4, <2>2, ListsElements
  <2> QED BY <1>2, <2>1, <2>2
<1>5. t \in Seq(S \cup {x})
  BY <1>2
<1> HIDE DEF t
<1>6. Lists(t, S \cup {x})
  BY <1>3, <1>4, <1>5, ListsIntro
<1> QED BY <1>6 DEF t

LEMMA ListsConcat ==
  ASSUME NEW S, NEW s, Lists(s, S), NEW T, NEW t, Lists(t, T), S \cap T = {}
  PROVE  Lists(s \o t, S \cup T)
<1> DEFINE u == s \o t
<1>1. s \in Seq(S \cup T) /\ t \in Seq(S \cup T)
  BY DEF Lists
<1>2. /\ Len(s) \in Nat /\ Len(t) \in Nat
      /\ u \in Seq(S \cup T) /\ Len(u) = Len(s) + Len(t)
      /\ \A p \in 1 .. Len(s) : u[p] = s[p]
      /\ \A p \in 1 .. Len(t) : u[Len(s) + p] = t[p]
  BY <1>1
<1> HIDE DEF u
<1>3. ASSUME NEW p \in 1 .. Len(u)
      PROVE  \/ p \in 1 .. Len(s) /\ u[p] = s[p] /\ s[p] \in S
             \/ p - Len(s) \in 1 .. Len(t) /\ u[p] = t[p - Len(s)] /\ t[p - Len(s)] \in T
  <2>1. CASE p <= Len(s)
    BY <1>2, <2>1, ListsElements
  <2>2. CASE p > Len(s)
    <3>1. p - Len(s) \in 1 .. Len(t) /\ Len(s) + (p - Len(s)) = p
      BY <1>2, <2>2
    <3> QED BY <1>2, <3>1, ListsElements
  <2> QED BY <1>2, <2>1, <2>2
<1>4. ASSUME NEW y \in S \cup T
      PROVE  \E p \in 1 .. Len(u) : u[p] = y
  <2>1. CASE y \in S
    BY <1>2, <2>1, ListsElements
  <2>2. CASE y \in T
    <3>1. PICK p \in 1 .. Len(t) : t[p] = y
      BY <2>2, ListsElements
    <3>2. Len(s) + p \in 1 .. Len(u) /\ u[Len(s) + p] = y
      BY <1>2, <3>1
    <3> QED BY <3>2
  <2> QED BY <2>1, <2>2
<1>5. ASSUME NEW p \in 1 .. Len(u), NEW q \in 1 .. Len(u), u[p] = u[q]
      PROVE  p = q
  <2>1. CASE p \in 1 .. Len(s) /\ q \in 1 .. Len(s)
    BY <1>2, <1>5, <2>1, ListsElements
  <2>2. CASE p - Len(s) \in 1 .. Len(t) /\ q - Len(s) \in 1 .. Len(t)
    <3>1. t[p - Len(s)] = t[q - Len(s)]
      BY <1>2, <1>3, <1>5, <2>2
    <3>2. p - Len(s) = q - Len(s)
      BY <2>2, <3>1, ListsElements
    <3> QED BY <1>2, <3>2
  <2> QED BY <1>3, <1>5, <2>1, <2>2
<1>6. u \in Seq(S \cup T)
  BY <1>2
<1>7. Lists(u, S \cup T)
  BY <1>4, <1>5, <1>6, ListsIntro
<1> QED BY <1>7 DEF u

LEMMA ListsCardinality ==
  ASSUME NEW S, NEW s, Lists(s, S)
  PROVE  IsFiniteSet(S) /\ Cardinality(S) = Len(s)
<1>1. s \in Bijection(1 .. Len(s), S)
  <2>1. s \in [1 .. Len(s) -> S]
    BY DEF Lists
  <2> QED BY <2>1, ListsElements DEF Bijection, Injection, Surjection, IsInjective
<1>2. ExistsBijection(1 .. Len(s), S) /\ Len(s) \in Nat
  BY <1>1, ListsElements DEF ExistsBijection
<1> QED BY <1>2, FS_CountingElements, FS_NatBijection

--------------------------------------------------------------------------------
(* The circuit: a gate reads inputs and the outputs of gates before it. *)
LEMMA GatesFinite == IsFiniteSet(Gates) /\ Cardinality(Gates) = NbGates
BY CircuitAssumption, FS_Interval DEF Gates

LEMMA CircuitTypes ==
  ASSUME WellFormed(circuit), NEW g \in Gates
  PROVE  /\ circuit.in0[g] \in Wires /\ circuit.in1[g] \in Wires
         /\ circuit.out[g] \in Wires
         /\ \A w \in Wires : w \in Nat
         /\ g \in Nat /\ g < NbGates
<1>1. circuit.in0[g] \in Wires /\ circuit.in1[g] \in Wires /\ circuit.out[g] \in Wires
  BY DEF WellFormed
<1>2. (\A w \in Wires : w \in Nat) /\ g \in Nat /\ g < NbGates
  BY CircuitAssumption DEF Wires, Gates
<1> QED BY <1>1, <1>2

LEMMA ReadsEarlier ==
  ASSUME WellFormed(circuit), NEW g \in Gates, NEW h \in Gates,
         circuit.out[h] \in {circuit.in0[g], circuit.in1[g]}
  PROVE  h < g
<1>1. circuit.out[h] \notin Inputs
  BY DEF WellFormed
<1>2. circuit.out[h] \in Inputs \cup { circuit.out[k] : k \in 0 .. g - 1 }
  BY DEF WellFormed
<1>3. PICK k \in 0 .. g - 1 : circuit.out[h] = circuit.out[k]
  BY <1>1, <1>2
<1>4. k \in Gates
  BY CircuitAssumption DEF Gates
<1>5. h = k
  BY <1>3, <1>4 DEF WellFormed
<1> QED BY <1>5 DEF Gates

LEMMA OutputsDiffer ==
  ASSUME WellFormed(circuit), NEW g \in Gates, NEW h \in Gates, g # h
  PROVE  circuit.out[g] # circuit.out[h]
BY DEF WellFormed

LEMMA LayeredIsSubset ==
  ASSUME i \in 0 .. NbGates
  PROVE  Layered \subseteq Gates
BY CircuitAssumption DEF Layered, Gates

(* A subset of the gates is finite, and not larger than the circuit. *)
LEMMA SubsetOfGates ==
  ASSUME NEW S \in SUBSET Gates
  PROVE  IsFiniteSet(S) /\ Cardinality(S) \in 0 .. NbGates
BY GatesFinite, FS_Subset, FS_CardinalityType, CircuitAssumption

(* Where PackedGate is concerned a circuit that stays is all that matters. *)
LEMMA PackedGatesStay ==
  ASSUME UNCHANGED circuit
  PROVE  /\ \A g \in Gates : PackedGate(g)' = PackedGate(g)
         /\ { PackedGate(g) : g \in Gates }' = { PackedGate(g) : g \in Gates }
BY DEF PackedGate, IsXor

LEMMA InitIInv ==
  ASSUME Init
  PROVE  IInv
<1>1. WellFormed(circuit)
  BY CircuitAssumption DEF Init
<1>2. ndebug \in BOOLEAN
  BY CircuitAssumption DEF Init
<1>3. TypeOK
  BY <1>1, <1>2, CircuitAssumption, MaxIdAssumption DEF Init, TypeOK, Layers, NonXorGates
<1>4. Layered = {}
  BY DEF Init, Layered
<1>5. LayersInv
  <2>1. \A l \in Layers : OfLayer(l) = {} /\ NonXorOfLayer(l) = {}
    BY <1>4 DEF OfLayer, NonXorOfLayer
  <2> QED BY <1>4, <2>1, FS_EmptySet DEF LayersInv, Init
<1> QED BY <1>3, <1>5 DEF Init, IInv

--------------------------------------------------------------------------------
(* The first loop. *)
LEMMA AssignLayerType ==
  ASSUME TypeOK, AssignLayer
  PROVE  /\ i \in Gates /\ LayerOf(i) \in 1 .. 3
         /\ layer' \in [Wires -> Layers]
         /\ nbLayers' \in 0 .. 4 /\ nbLayers' >= nbLayers /\ nbLayers' > LayerOf(i)
         /\ minInput0' \in [Layers -> 0 .. MaxId]
         /\ maxInput0' \in [Layers -> 0 .. MaxId]
<1>1. i \in Gates
  BY CircuitAssumption DEF TypeOK, AssignLayer, InLayers, Gates
<1>2. /\ circuit.in0[i] \in Wires /\ circuit.in1[i] \in Wires /\ circuit.in0[i] \in Nat
      /\ circuit.out[i] \in Wires
  BY <1>1, CircuitTypes DEF TypeOK
<1>3. layer[circuit.in0[i]] \in 0 .. 3 /\ layer[circuit.in1[i]] \in 0 .. 3
  BY <1>2 DEF TypeOK, Layers
<1>4. LayerOf(i) \in 1 .. 3
  BY <1>3 DEF AssignLayer, LayerOf, Larger, Layers
<1>5. nbLayers' \in 0 .. 4 /\ nbLayers' >= nbLayers /\ nbLayers' > LayerOf(i)
  BY <1>4 DEF AssignLayer, TypeOK, Larger
<1>6. layer' \in [Wires -> Layers]
  BY <1>2, <1>4 DEF AssignLayer, TypeOK, Layers
<1>7. Truncated(circuit.in0[i]) \in 0 .. MaxId
  BY <1>2, MaxIdAssumption DEF Truncated
<1>8. /\ minInput0' \in [Layers -> 0 .. MaxId]
      /\ maxInput0' \in [Layers -> 0 .. MaxId]
  <2> DEFINE l == LayerOf(i)
             in0 == Truncated(circuit.in0[i])
  <2>1. /\ minInput0' = [minInput0 EXCEPT ![l] = Smaller(@, in0)] \/ minInput0' = minInput0
        /\ maxInput0' = [maxInput0 EXCEPT ![l] = Larger(@, in0)] \/ maxInput0' = maxInput0
    BY DEF AssignLayer
  <2>2. l \in Layers
    BY <1>4 DEF Layers
  <2> HIDE DEF l, in0
  <2>3. \A m \in 0 .. MaxId : Smaller(m, in0) \in 0 .. MaxId /\ Larger(m, in0) \in 0 .. MaxId
    BY <1>7 DEF Smaller, Larger, in0
  <2>4. minInput0 \in [Layers -> 0 .. MaxId] /\ maxInput0 \in [Layers -> 0 .. MaxId]
    BY DEF TypeOK
  <2>5. minInput0' \in [Layers -> 0 .. MaxId]
    BY <2>1, <2>2, <2>3, <2>4
  <2>6. maxInput0' \in [Layers -> 0 .. MaxId]
    BY <2>1, <2>2, <2>3, <2>4
  <2> QED BY <2>5, <2>6
<1> QED BY <1>1, <1>4, <1>5, <1>6, <1>8

(* What the turn of gate i leaves alone. *)
LEMMA AssignLayerChanges ==
  ASSUME TypeOK, AssignLayer
  PROVE  /\ circuit' = circuit
         /\ Layered' = Layered \cup {i} /\ i \notin Layered
         /\ \A g \in Layered \cup {i} :
              LayerAt(g)' = IF g = i THEN LayerOf(g) ELSE LayerAt(g)
         /\ \A g \in Layered \cup {i} :
              /\ layer'[circuit.in0[g]] = layer[circuit.in0[g]]
              /\ layer'[circuit.in1[g]] = layer[circuit.in1[g]]
<1>1. i \in Gates /\ WellFormed(circuit) /\ circuit' = circuit
  BY AssignLayerType DEF TypeOK, AssignLayer, buildVars
<1>2. i \in Nat /\ Layered = 0 .. i - 1 /\ Layered' = 0 .. i
  BY <1>1, CircuitTypes DEF AssignLayer, InLayers, Layered
<1>3. Layered' = Layered \cup {i} /\ i \notin Layered /\ Layered \cup {i} \subseteq Gates
  BY <1>1, <1>2, CircuitAssumption DEF Gates
<1>4. \A w \in Wires : layer'[w] = IF w = circuit.out[i] THEN LayerOf(i) ELSE layer[w]
  BY DEF AssignLayer, TypeOK
<1>5. ASSUME NEW g \in Layered \cup {i}
      PROVE  LayerAt(g)' = IF g = i THEN LayerOf(g) ELSE LayerAt(g)
  <2>1. circuit.out[g] \in Wires /\ LayerAt(g)' = layer'[circuit.out[g]]
    BY <1>1, <1>3, CircuitTypes DEF LayerAt
  <2>2. g # i => circuit.out[g] # circuit.out[i]
    BY <1>1, <1>3, OutputsDiffer
  <2> QED BY <1>4, <2>1, <2>2 DEF LayerAt
<1>7. ASSUME NEW g \in Layered \cup {i}
      PROVE  /\ layer'[circuit.in0[g]] = layer[circuit.in0[g]]
             /\ layer'[circuit.in1[g]] = layer[circuit.in1[g]]
  <2>1. g \in Gates /\ ~(i < g)
    BY <1>2, <1>3
  <2>2. circuit.out[i] \notin {circuit.in0[g], circuit.in1[g]}
    BY <1>1, <2>1, ReadsEarlier
  <2> QED BY <1>1, <1>4, <2>1, <2>2, CircuitTypes
<1> QED BY <1>1, <1>3, <1>5, <1>7

LEMMA AssignLayerCounts ==
  ASSUME TypeOK, AssignLayer
  PROVE  /\ layerCounts' = [l \in Layers |-> IF l = LayerOf(i) THEN layerCounts[l] + 1
                                             ELSE layerCounts[l]]
         /\ layerNonXorCounts' =
              [l \in Layers |-> IF l = LayerOf(i) /\ ~IsXor(i)
                                THEN layerNonXorCounts[l] + 1 ELSE layerNonXorCounts[l]]
<1>1. /\ layerCounts \in [Layers -> 0 .. NbGates]
      /\ layerNonXorCounts \in [Layers -> 0 .. NbGates]
  BY DEF TypeOK
<1>2. layerCounts' = [layerCounts EXCEPT ![LayerOf(i)] = @ + 1]
  BY DEF AssignLayer
<1>3. CASE IsXor(i)
  <2>1. layerNonXorCounts' = layerNonXorCounts
    BY <1>3 DEF AssignLayer
  <2> QED BY <1>1, <1>2, <1>3, <2>1
<1>4. CASE ~IsXor(i)
  <2>1. layerNonXorCounts' = [layerNonXorCounts EXCEPT ![LayerOf(i)] = @ + 1]
    BY <1>4 DEF AssignLayer
  <2> QED BY <1>1, <1>2, <1>4, <2>1
<1> QED BY <1>3, <1>4

LEMMA AssignLayerKeepsLayers ==
  ASSUME TypeOK, LayersInv, AssignLayer
  PROVE  LayersInv'
<1>1. /\ LayerOf(i) \in 1 .. 3 /\ i \in Gates
      /\ nbLayers \in Nat /\ nbLayers' \in Nat /\ nbLayers' >= nbLayers /\ nbLayers' > LayerOf(i)
  BY AssignLayerType DEF TypeOK
<1>2. ASSUME NEW g \in Layered'
      PROVE  (/\ LayerAt(g) \in 1 .. nbLayers - 1
              /\ LayerAt(g) > layer[circuit.in0[g]]
              /\ LayerAt(g) > layer[circuit.in1[g]])'
  <2>1. CASE g \in Layered
    <3>1. LayerAt(g) \in 1 .. nbLayers' - 1
      BY <1>1, <2>1 DEF LayersInv
    <3> QED BY <2>1, <3>1, AssignLayerChanges DEF LayersInv
  <2>2. CASE g = i
    <3>1. LayerAt(g)' = LayerOf(i) /\ LayerOf(i) \in 1 .. nbLayers' - 1
      BY <1>1, <2>2, AssignLayerChanges
    <3>2. layer[circuit.in0[i]] \in 0 .. 3 /\ layer[circuit.in1[i]] \in 0 .. 3
      BY <1>1, CircuitTypes DEF TypeOK, Layers
    <3>3. LayerOf(i) > layer[circuit.in0[i]] /\ LayerOf(i) > layer[circuit.in1[i]]
      BY <3>2 DEF LayerOf, Larger
    <3> QED BY <2>2, <3>1, <3>3, AssignLayerChanges
  <2>3. Layered' = Layered \cup {i}
    BY AssignLayerChanges
  <2> QED BY <2>1, <2>2, <2>3
<1>3. ASSUME NEW l \in Layers
      PROVE  (/\ layerCounts[l] = Cardinality(OfLayer(l))
              /\ layerNonXorCounts[l] = Cardinality(NonXorOfLayer(l)))'
  <2>1. /\ IsFiniteSet(OfLayer(l)) /\ IsFiniteSet(NonXorOfLayer(l))
        /\ i \notin OfLayer(l) /\ i \notin NonXorOfLayer(l)
    <3>1. OfLayer(l) \subseteq Gates /\ NonXorOfLayer(l) \subseteq Gates
      BY LayeredIsSubset DEF OfLayer, NonXorOfLayer, TypeOK, AssignLayer, InLayers
    <3> QED BY <3>1, SubsetOfGates, AssignLayerChanges DEF OfLayer, NonXorOfLayer
  <2>0. /\ Layered' = Layered \cup {i} /\ i \notin Layered
        /\ \A g \in Layered : LayerAt(g)' = LayerAt(g)
        /\ \A g : g = i => LayerAt(g)' = LayerOf(i)
    BY AssignLayerChanges
  <2>2. \A g : IsXor(g)' <=> IsXor(g)
    BY AssignLayerChanges DEF IsXor
  <2>3. OfLayer(l)' = IF LayerOf(i) = l THEN OfLayer(l) \cup {i} ELSE OfLayer(l)
    <3>1. CASE LayerOf(i) = l
      BY <2>0, <3>1 DEF OfLayer
    <3>2. CASE LayerOf(i) # l
      BY <2>0, <3>2 DEF OfLayer
    <3> QED BY <3>1, <3>2
  <2>4. NonXorOfLayer(l)' = IF LayerOf(i) = l /\ ~IsXor(i)
                            THEN NonXorOfLayer(l) \cup {i} ELSE NonXorOfLayer(l)
    <3>1. CASE LayerOf(i) = l /\ ~IsXor(i)
      BY <2>0, <2>2, <3>1 DEF NonXorOfLayer
    <3>2. CASE ~(LayerOf(i) = l /\ ~IsXor(i))
      BY <2>0, <2>2, <3>2 DEF NonXorOfLayer
    <3> QED BY <3>1, <3>2
  <2>5. layerCounts'[l] = IF LayerOf(i) = l THEN layerCounts[l] + 1 ELSE layerCounts[l]
    BY AssignLayerCounts
  <2>6. layerNonXorCounts'[l] = IF LayerOf(i) = l /\ ~IsXor(i)
                                THEN layerNonXorCounts[l] + 1 ELSE layerNonXorCounts[l]
    BY AssignLayerCounts
  <2>7. Cardinality(OfLayer(l))' = IF LayerOf(i) = l THEN Cardinality(OfLayer(l)) + 1
                                   ELSE Cardinality(OfLayer(l))
    BY <2>1, <2>3, FS_AddElement
  <2>8. Cardinality(NonXorOfLayer(l))' = IF LayerOf(i) = l /\ ~IsXor(i)
                                         THEN Cardinality(NonXorOfLayer(l)) + 1
                                         ELSE Cardinality(NonXorOfLayer(l))
    BY <2>1, <2>4, FS_AddElement
  <2> QED BY <2>5, <2>6, <2>7, <2>8 DEF LayersInv
<1> QED BY <1>2, <1>3 DEF LayersInv

LEMMA AssignLayerKeepsIInv ==
  ASSUME IInv, AssignLayer
  PROVE  IInv'
<1>1. TypeOK /\ LayersInv /\ pc = "layers" /\ i \in Gates
  BY AssignLayerType DEF IInv, AssignLayer, InLayers
<1>2. LayersInv'
  BY <1>1, AssignLayerKeepsLayers
<1>3. i' \in 0 .. NbGates
  BY <1>1, CircuitAssumption DEF AssignLayer, Gates
<1>4. /\ layerCounts' \in [Layers -> 0 .. NbGates]
      /\ layerNonXorCounts' \in [Layers -> 0 .. NbGates]
  <2>1. ASSUME NEW l \in Layers
        PROVE  layerCounts'[l] \in 0 .. NbGates /\ layerNonXorCounts'[l] \in 0 .. NbGates
    <3>1. Layered' \subseteq Gates
      BY <1>1, <1>3, AssignLayerChanges, LayeredIsSubset DEF AssignLayer, TypeOK
    <3>2. OfLayer(l)' \subseteq Gates /\ NonXorOfLayer(l)' \subseteq Gates
      BY <3>1 DEF OfLayer, NonXorOfLayer
    <3> QED BY <1>2, <3>2, SubsetOfGates DEF LayersInv
  <2> QED BY <1>1, <2>1, AssignLayerCounts
<1>5. UNCHANGED <<ndebug, circuit, pc, sublayer, newGatesId, garbledGates, garbledTable>>
  BY DEF AssignLayer, buildVars, orderVars, pgcVars
<1>6. TypeOK'
  <2>1. i' \in 0 .. (IF pc' = "order" THEN nbLayers' ELSE NbGates)
    BY <1>1, <1>3, <1>5
  <2>2. NonXorGates(circuit)' = NonXorGates(circuit)
    BY <1>5
  <2> QED BY <1>1, <1>4, <1>5, <2>1, <2>2, AssignLayerType DEF TypeOK
<1> QED BY <1>1, <1>2, <1>5, <1>6, PackedGatesStay DEF IInv

--------------------------------------------------------------------------------
(* The types of what a step leaves alone stay what they are. *)
LEMMA TypeStays ==
  ASSUME TypeOK, UNCHANGED buildVars, UNCHANGED countVars,
         pc' \in {"layers", "buckets", "order", "pack", "done", "aborted", "lost"},
         i' \in 0 .. (IF pc' = "order" THEN nbLayers ELSE NbGates),
         newGatesId' \in Seq(Gates), garbledTable' \in Seq(NonXorGates(circuit))
  PROVE  TypeOK'
<1>1. NonXorGates(circuit)' = NonXorGates(circuit)
  BY DEF buildVars
<1> QED BY <1>1 DEF TypeOK, buildVars, countVars

LEMMA LayersStay ==
  ASSUME LayersInv, UNCHANGED buildVars, UNCHANGED countVars, Layered' = Layered
  PROVE  LayersInv'
<1>1. \A l : OfLayer(l)' = OfLayer(l) /\ NonXorOfLayer(l)' = NonXorOfLayer(l)
  BY DEF OfLayer, NonXorOfLayer, LayerAt, IsXor, buildVars, countVars
<1>2. \A g : LayerAt(g)' = LayerAt(g)
  BY DEF LayerAt, buildVars, countVars
<1> QED BY <1>1, <1>2 DEF LayersInv, buildVars, countVars

(* A build that ends or goes astray leaves what it has. *)
LEMMA EndKeepsIInv ==
  ASSUME IInv, AbortLayers \/ WritePastLayers \/ WritePastBuckets
  PROVE  IInv'
<1>1. /\ pc \in {"layers", "buckets"} /\ pc' \in {"aborted", "lost"} /\ i' = i
      /\ UNCHANGED buildVars /\ UNCHANGED countVars
      /\ UNCHANGED <<newGatesId, garbledGates, garbledTable>>
  BY DEF AbortLayers, WritePastLayers, WritePastBuckets, InLayers, InBuckets,
         orderVars, pgcVars
<1>2. TypeOK'
  <2>1. /\ newGatesId \in Seq(Gates) /\ garbledTable \in Seq(NonXorGates(circuit))
        /\ i \in 0 .. NbGates
    BY <1>1 DEF IInv, TypeOK
  <2> QED BY <1>1, <2>1, TypeStays DEF IInv
<1> QED BY <1>1, <1>2, PackedGatesStay DEF IInv, buildVars

--------------------------------------------------------------------------------
(* A list of empty lists. *)
LEMMA EmptyLists ==
  ASSUME NEW S, NEW m \in Nat
  PROVE  /\ [k \in 1 .. m |-> <<>>] \in Seq(Seq(S))
         /\ \A k \in 1 .. Len([j \in 1 .. m |-> <<>>]) : [j \in 1 .. m |-> <<>>][k] = <<>>
<1> DEFINE T == Seq(S)
           s == [k \in 1 .. m |-> <<>>]
<1>1. <<>> \in T
  OBVIOUS
<1> HIDE DEF T
<1>2. s \in [1 .. m -> T]
  BY <1>1
<1>3. s \in Seq(T) /\ Len(s) = m
  <2> HIDE DEF s
  <2> QED BY <1>2
<1> QED BY <1>3 DEF T

(* The second loop. *)
LEMMA MakeBucketsKeepsIInv ==
  ASSUME IInv, MakeBuckets
  PROVE  IInv'
<1>1. /\ pc = "layers" /\ pc' = "buckets" /\ i = NbGates /\ i' = 0
      /\ UNCHANGED buildVars /\ UNCHANGED countVars
      /\ UNCHANGED <<sublayer, newGatesId, garbledGates, garbledTable>>
  BY DEF MakeBuckets, orderVars, pgcVars
<1>2. TypeOK'
  <2>1. newGatesId \in Seq(Gates) /\ garbledTable \in Seq(NonXorGates(circuit))
    BY DEF IInv, TypeOK
  <2>2. i' \in 0 .. NbGates
    BY <1>1, CircuitAssumption
  <2> QED BY <1>1, <2>1, <2>2, TypeStays DEF IInv
<1>3. LayersInv'
  <2>1. Layered' = Layered
    BY <1>1 DEF Layered
  <2> QED BY <1>1, <2>1, LayersStay DEF IInv
<1>4. BucketsInv'
  <2>1. /\ nbLayers \in Nat
        /\ \A l \in 0 .. nbLayers - 1 : minInput0[l] \in Nat /\ maxInput0[l] \in Nat
    <3>1. /\ nbLayers \in 0 .. 4 /\ minInput0 \in [0 .. 3 -> 0 .. MaxId]
          /\ maxInput0 \in [0 .. 3 -> 0 .. MaxId]
      BY DEF IInv, TypeOK, Layers
    <3>2. \A l \in 0 .. nbLayers - 1 : l \in 0 .. 3
      BY <3>1
    <3> QED BY <3>1, <3>2, MaxIdAssumption
  <2>2. nonXorGates' = [l \in 0 .. nbLayers - 1 |-> <<>>]
    BY DEF MakeBuckets
  <2>3. DOMAIN xorGates' = 0 .. nbLayers - 1
    BY DEF MakeBuckets
  <2>4. ASSUME NEW l \in 0 .. nbLayers - 1
        PROVE  /\ xorGates'[l] \in Seq(Seq(Gates))
               /\ \A k \in 1 .. Len(xorGates'[l]) : xorGates'[l][k] = <<>>
    <3>1. CASE minInput0[l] = MaxId
      BY <3>1 DEF MakeBuckets
    <3>2. CASE minInput0[l] # MaxId
      <4> DEFINE n == 1 + maxInput0[l] - minInput0[l]
                 m == IF n < 0 THEN 0 ELSE n
      <4>1. n \in Int /\ m \in Nat /\ 1 .. n = 1 .. m
        BY <2>1
      <4>2. xorGates'[l] = [k \in 1 .. n |-> <<>>]
        BY <3>2 DEF MakeBuckets
      <4> HIDE DEF n, m
      <4>3. xorGates'[l] = [k \in 1 .. m |-> <<>>]
        BY <4>1, <4>2
      <4> QED BY <4>1, <4>3, EmptyLists
    <3> QED BY <3>1, <3>2
  <2>5. xorGates' \in [0 .. nbLayers - 1 -> Seq(Seq(Gates))]
    <3>1. \A l \in 0 .. nbLayers - 1 : xorGates'[l] \in Seq(Seq(Gates))
      BY <2>4
    <3>2. xorGates' = [l \in 0 .. nbLayers - 1 |-> xorGates'[l]]
      BY DEF MakeBuckets
    <3> QED BY <3>1, <3>2
  <2>6. nonXorGates' \in [0 .. nbLayers - 1 -> Seq(Gates)]
    BY <2>2
  <2>7. Bucketed' = {} /\ nbLayers' = nbLayers
    BY <1>1 DEF Bucketed, countVars
  <2>8. ASSUME NEW l \in 0 .. nbLayers - 1, NEW k \in 0 .. Len(xorGates'[l])
        PROVE  Lists(SublayerOf(l, k), OfSublayer(l, k))'
    <3>1. SublayerOf(l, k)' = <<>>
      BY <2>2, <2>4 DEF SublayerOf
    <3>2. OfSublayer(l, k)' = {}
      BY <2>7 DEF OfSublayer
    <3> QED BY <3>1, <3>2, ListsEmpty DEF Lists
  <2> QED BY <2>5, <2>6, <2>7, <2>8 DEF BucketsInv
<1> QED BY <1>1, <1>2, <1>3, <1>4, PackedGatesStay DEF IInv, buildVars

(* The turn of gate i appends it to the list of its layer and bucket. *)
LEMMA BucketGateAppends ==
  ASSUME IInv, BucketNonXor \/ BucketXor
  PROVE  /\ nonXorGates' \in [0 .. nbLayers - 1 -> Seq(Gates)]
         /\ xorGates' \in [0 .. nbLayers - 1 -> Seq(Seq(Gates))]
         /\ IsXor(i) => SublayerAt(i) \in DOMAIN xorGates[LayerAt(i)]
         /\ \A l \in 0 .. nbLayers - 1 :
              /\ Len(xorGates'[l]) = Len(xorGates[l])
              /\ DOMAIN xorGates'[l] = DOMAIN xorGates[l]
              /\ \A k \in 0 .. Len(xorGates[l]) :
                   SublayerOf(l, k)' = IF l = LayerAt(i) /\ k = SublayerAt(i)
                                       THEN Append(SublayerOf(l, k), i) ELSE SublayerOf(l, k)
<1>1. /\ nonXorGates \in [0 .. nbLayers - 1 -> Seq(Gates)]
      /\ xorGates \in [0 .. nbLayers - 1 -> Seq(Seq(Gates))]
      /\ LayersInv /\ pc = "buckets"
  BY DEF IInv, BucketsInv, BucketNonXor, BucketXor, InBuckets
<1>2. i \in Gates /\ i \in Layered
  BY CircuitAssumption DEF IInv, TypeOK, BucketNonXor, BucketXor, InBuckets, Layered, Gates
<1>3. LayerAt(i) \in 0 .. nbLayers - 1
  BY <1>1, <1>2 DEF LayersInv, IInv, TypeOK
<1> DEFINE m == LayerAt(i)
           b == SublayerAt(i)
<1>4. OutputLayer = m
  BY DEF OutputLayer, LayerAt
<1>5. CASE BucketNonXor
  <2>1. ~IsXor(i) /\ b = 0 /\ xorGates' = xorGates
    BY <1>5 DEF BucketNonXor, SublayerAt
  <2>2. nonXorGates' = [nonXorGates EXCEPT ![m] = Append(@, i)]
    BY <1>4, <1>5 DEF BucketNonXor
  <2>3. m \in 0 .. nbLayers - 1
    BY <1>3
  <2> HIDE DEF m, b
  <2>4. nonXorGates' \in [0 .. nbLayers - 1 -> Seq(Gates)]
    BY <1>1, <1>2, <2>2, <2>3
  <2>5. ASSUME NEW l \in 0 .. nbLayers - 1, NEW k \in 0 .. Len(xorGates[l])
        PROVE  SublayerOf(l, k)' = IF l = m /\ k = b
                                   THEN Append(SublayerOf(l, k), i) ELSE SublayerOf(l, k)
    BY <1>1, <2>1, <2>2, <2>3 DEF SublayerOf
  <2> QED BY <1>1, <2>1, <2>4, <2>5 DEF m, b
<1>6. CASE BucketXor
  <2>1. IsXor(i) /\ b = Bucket /\ nonXorGates' = nonXorGates
    BY <1>4, <1>6 DEF BucketXor, SublayerAt, Bucket
  <2>2. /\ xorGates' = [xorGates EXCEPT ![m][b] = Append(@, i)]
        /\ b \in DOMAIN xorGates[m]
    BY <1>4, <1>6, <2>1 DEF BucketXor
  <2>3. m \in 0 .. nbLayers - 1
    BY <1>3
  <2> HIDE DEF m, b
  <2>4. /\ xorGates[m] \in Seq(Seq(Gates)) /\ b \in 1 .. Len(xorGates[m])
        /\ xorGates[m][b] \in Seq(Gates)
    BY <1>1, <2>2, <2>3
  <2>5. /\ xorGates'[m] = [xorGates[m] EXCEPT ![b] = Append(xorGates[m][b], i)]
        /\ \A l \in 0 .. nbLayers - 1 : l # m => xorGates'[l] = xorGates[l]
    BY <1>1, <2>2, <2>3
  <2>6. /\ xorGates'[m] \in Seq(Seq(Gates)) /\ Len(xorGates'[m]) = Len(xorGates[m])
        /\ DOMAIN xorGates'[m] = DOMAIN xorGates[m]
    BY <1>2, <2>4, <2>5
  <2>7. xorGates' \in [0 .. nbLayers - 1 -> Seq(Seq(Gates))]
    BY <1>1, <2>2, <2>3, <2>5, <2>6
  <2>8. ASSUME NEW l \in 0 .. nbLayers - 1, NEW k \in 0 .. Len(xorGates[l])
        PROVE  SublayerOf(l, k)' = IF l = m /\ k = b
                                   THEN Append(SublayerOf(l, k), i) ELSE SublayerOf(l, k)
    <3>1. CASE k = 0
      BY <2>1, <2>4, <3>1 DEF SublayerOf
    <3>2. CASE k # 0 /\ l # m
      BY <2>5, <3>2 DEF SublayerOf
    <3>3. CASE k # 0 /\ l = m
      <4>1. k \in 1 .. Len(xorGates[m])
        BY <2>4, <3>3
      <4>2. xorGates'[m][k] = IF k = b THEN Append(xorGates[m][b], i) ELSE xorGates[m][k]
        BY <2>4, <2>5, <4>1
      <4> QED BY <3>3, <4>2 DEF SublayerOf
    <3> QED BY <3>1, <3>2, <3>3
  <2>9. ASSUME NEW l \in 0 .. nbLayers - 1
        PROVE  Len(xorGates'[l]) = Len(xorGates[l]) /\ DOMAIN xorGates'[l] = DOMAIN xorGates[l]
    BY <2>5, <2>6
  <2>10. nonXorGates' \in [0 .. nbLayers - 1 -> Seq(Gates)]
    BY <1>1, <2>1
  <2> QED BY <2>2, <2>7, <2>8, <2>9, <2>10 DEF m, b
<1> QED BY <1>5, <1>6

LEMMA BucketGateKeepsIInv ==
  ASSUME IInv, BucketNonXor \/ BucketXor
  PROVE  IInv'
<1>1. /\ pc = "buckets" /\ pc' = "buckets" /\ i < NbGates /\ i' = i + 1
      /\ UNCHANGED buildVars /\ UNCHANGED countVars
      /\ UNCHANGED <<sublayer, newGatesId, garbledGates, garbledTable>>
  BY DEF BucketNonXor, BucketXor, InBuckets, orderVars, pgcVars
<1>2. i \in 0 .. NbGates /\ nbLayers \in Nat
  BY <1>1 DEF IInv, TypeOK
<1>3. TypeOK'
  <2>1. newGatesId \in Seq(Gates) /\ garbledTable \in Seq(NonXorGates(circuit))
    BY DEF IInv, TypeOK
  <2>2. i' \in 0 .. NbGates
    BY <1>1, <1>2, CircuitAssumption
  <2> QED BY <1>1, <2>1, <2>2, TypeStays DEF IInv
<1>4. LayersInv'
  <2>1. Layered' = Layered
    BY <1>1 DEF Layered
  <2> QED BY <1>1, <2>1, LayersStay DEF IInv
<1>5. Bucketed' = Bucketed \cup {i} /\ i \notin Bucketed /\ nbLayers' = nbLayers
  BY <1>1, <1>2, CircuitAssumption DEF Bucketed, countVars
<1>6. \A g : /\ LayerAt(g)' = LayerAt(g) /\ SublayerAt(g)' = SublayerAt(g)
             /\ IsXor(g)' <=> IsXor(g)
  BY <1>1 DEF LayerAt, SublayerAt, IsXor, buildVars, countVars
<1>7. BucketsInv'
  <2>1. ASSUME NEW g \in Bucketed', IsXor(g)'
        PROVE  SublayerAt(g)' \in DOMAIN xorGates'[LayerAt(g)']
    <3>1. SublayerAt(g) \in DOMAIN xorGates[LayerAt(g)]
      <4>1. IsXor(g)
        BY <1>6, <2>1
      <4>2. CASE g \in Bucketed
        BY <1>1, <4>1, <4>2 DEF IInv, BucketsInv
      <4>3. CASE g = i
        BY <4>1, <4>3, BucketGateAppends
      <4> QED BY <1>5, <4>2, <4>3
    <3>2. LayerAt(g) \in 0 .. nbLayers - 1
      <4>1. g \in Layered
        BY <1>1, <1>2, <1>5, <2>1, CircuitAssumption DEF Layered, Bucketed
      <4>2. LayersInv
        BY <1>1 DEF IInv
      <4>3. LayerAt(g) \in 1 .. nbLayers - 1
        BY <4>1, <4>2 DEF LayersInv
      <4> QED BY <1>2, <4>3
    <3>3. DOMAIN xorGates'[LayerAt(g)] = DOMAIN xorGates[LayerAt(g)]
      BY <3>2, BucketGateAppends
    <3>4. LayerAt(g)' = LayerAt(g) /\ SublayerAt(g)' = SublayerAt(g)
      BY <1>6
    <3> QED BY <3>1, <3>3, <3>4
  <2>2. ASSUME NEW l \in 0 .. nbLayers - 1, NEW k \in 0 .. Len(xorGates[l])
        PROVE  Lists(SublayerOf(l, k)', OfSublayer(l, k)')
    <3>1. Lists(SublayerOf(l, k), OfSublayer(l, k))
      BY <1>1 DEF IInv, BucketsInv
    <3>2. CASE l = LayerAt(i) /\ k = SublayerAt(i)
      <4>1. SublayerOf(l, k)' = Append(SublayerOf(l, k), i)
        BY <3>2, BucketGateAppends
      <4>2. OfSublayer(l, k)' = OfSublayer(l, k) \cup {i} /\ i \notin OfSublayer(l, k)
        BY <1>5, <1>6, <3>2 DEF OfSublayer
      <4> QED BY <3>1, <4>1, <4>2, ListsAppend
    <3>3. CASE ~(l = LayerAt(i) /\ k = SublayerAt(i))
      <4>1. SublayerOf(l, k)' = SublayerOf(l, k)
        BY <3>3, BucketGateAppends
      <4>2. OfSublayer(l, k)' = OfSublayer(l, k)
        BY <1>5, <1>6, <3>3 DEF OfSublayer
      <4> QED BY <3>1, <4>1, <4>2
    <3> QED BY <3>2, <3>3
  <2>3. \A l \in 0 .. nbLayers - 1 : Len(xorGates'[l]) = Len(xorGates[l])
    BY BucketGateAppends
  <2>4. /\ nonXorGates' \in [0 .. nbLayers' - 1 -> Seq(Gates)]
        /\ xorGates' \in [0 .. nbLayers' - 1 -> Seq(Seq(Gates))]
    BY <1>5, BucketGateAppends
  <2>5. \A l \in 0 .. nbLayers' - 1 : \A k \in 0 .. Len(xorGates'[l]) :
          Lists(SublayerOf(l, k)', OfSublayer(l, k)')
    BY <1>5, <2>2, <2>3
  <2> QED BY <2>1, <2>4, <2>5 DEF BucketsInv, Lists
<1> QED BY <1>1, <1>3, <1>4, <1>7, PackedGatesStay DEF IInv, buildVars

(* Once the lists are made they stay. *)
LEMMA BucketsStay ==
  ASSUME BucketsInv, UNCHANGED buildVars, UNCHANGED countVars, UNCHANGED bucketVars,
         Bucketed' = Bucketed
  PROVE  BucketsInv'
<1>1. \A g : /\ LayerAt(g)' = LayerAt(g) /\ SublayerAt(g)' = SublayerAt(g)
             /\ IsXor(g)' <=> IsXor(g)
  BY DEF LayerAt, SublayerAt, IsXor, buildVars, countVars
<1>2. \A l, k : OfSublayer(l, k)' = OfSublayer(l, k) /\ SublayerOf(l, k)' = SublayerOf(l, k)
  BY <1>1 DEF OfSublayer, SublayerOf, bucketVars
<1>3. nbLayers' = nbLayers /\ nonXorGates' = nonXorGates /\ xorGates' = xorGates
  BY DEF countVars, bucketVars
<1>4. \A l \in 0 .. nbLayers - 1 : \A k \in 0 .. Len(xorGates[l]) :
        Lists(SublayerOf(l, k)', OfSublayer(l, k)')
  BY <1>2 DEF BucketsInv
<1> QED BY <1>1, <1>3, <1>4 DEF BucketsInv, Lists

--------------------------------------------------------------------------------
(* The third loop. *)
LEMMA GatesAreLayered ==
  ASSUME IInv, pc \in {"buckets", "order", "pack", "done"}, NEW g \in Gates
  PROVE  /\ LayerAt(g) \in 1 .. nbLayers - 1 /\ nbLayers \in 0 .. 4
         /\ SublayerAt(g) \in Int
         /\ pc # "buckets" => SublayerAt(g) \in 0 .. Len(xorGates[LayerAt(g)])
         /\ pc # "buckets" => (IsXor(g) <=> SublayerAt(g) # 0)
<1>1. g \in Layered /\ LayersInv /\ BucketsInv /\ nbLayers \in 0 .. 4
  BY DEF IInv, TypeOK, Layered, Gates
<1>2. LayerAt(g) \in 1 .. nbLayers - 1
  BY <1>1 DEF LayersInv
<1>3. SublayerAt(g) \in Int
  <2>1. minInput0[LayerAt(g)] \in 0 .. MaxId
    <3>1. minInput0 \in [0 .. 3 -> 0 .. MaxId]
      BY DEF IInv, TypeOK, Layers
    <3> QED BY <1>1, <1>2, <3>1
  <2>2. circuit.in0[g] \in Nat
    BY CircuitTypes DEF IInv, TypeOK
  <2> QED BY <2>1, <2>2, MaxIdAssumption DEF SublayerAt
<1>4. ASSUME pc # "buckets"
      PROVE  /\ SublayerAt(g) \in 0 .. Len(xorGates[LayerAt(g)])
             /\ IsXor(g) <=> SublayerAt(g) # 0
  <2>1. g \in Bucketed
    BY <1>4 DEF Bucketed, Gates
  <2>2. xorGates[LayerAt(g)] \in Seq(Seq(Gates))
    BY <1>1, <1>2 DEF BucketsInv
  <2>3. CASE IsXor(g)
    <3>1. SublayerAt(g) \in DOMAIN xorGates[LayerAt(g)]
      BY <1>1, <2>1, <2>3 DEF BucketsInv
    <3> QED BY <2>2, <2>3, <3>1
  <2>4. CASE ~IsXor(g)
    BY <2>2, <2>4 DEF SublayerAt
  <2> QED BY <2>3, <2>4
<1> QED BY <1>1, <1>2, <1>3, <1>4

(* The counts give where a layer starts: after all the gates of the others. *)
LEMMA CountsAreNat ==
  ASSUME IInv, NEW l \in 0 .. 4
  PROVE  /\ GateStart(l) \in Nat /\ TablesStart(l) \in Nat
         /\ l \in 1 .. 3 =>
              /\ GateStart(l + 1) = GateStart(l) + layerCounts[l]
              /\ TablesStart(l + 1) = TablesStart(l) + layerNonXorCounts[l]
              /\ layerCounts[l] \in Nat /\ layerNonXorCounts[l] \in Nat
<1>1. \A k \in 1 .. 3 : layerCounts[k] \in Nat /\ layerNonXorCounts[k] \in Nat
  <2>1. /\ layerCounts \in [0 .. 3 -> 0 .. NbGates]
        /\ layerNonXorCounts \in [0 .. 3 -> 0 .. NbGates]
    BY DEF IInv, TypeOK, Layers
  <2> QED BY <2>1, CircuitAssumption
<1>2. GateStart(l) \in Nat /\ TablesStart(l) \in Nat
  BY <1>1 DEF GateStart, TablesStart, StartOf
<1>3. ASSUME l \in 1 .. 3
      PROVE  /\ GateStart(l + 1) = GateStart(l) + layerCounts[l]
             /\ TablesStart(l + 1) = TablesStart(l) + layerNonXorCounts[l]
  <2>1. CASE l = 1
    BY <1>1, <2>1 DEF GateStart, TablesStart, StartOf
  <2>2. CASE l = 2
    BY <1>1, <2>2 DEF GateStart, TablesStart, StartOf
  <2>3. CASE l = 3
    BY <1>1, <2>3 DEF GateStart, TablesStart, StartOf
  <2> QED BY <1>3, <2>1, <2>2, <2>3
<1> QED BY <1>1, <1>2, <1>3

GatesBelow(l) == { g \in Gates : LayerAt(g) < l }

LEMMA CountOfGatesBelow ==
  ASSUME IInv, pc \in {"buckets", "order", "pack", "done"}, NEW l \in 0 .. 4
  PROVE  Cardinality(GatesBelow(l)) = GateStart(l)
<1>1. Layered = Gates /\ LayersInv
  BY DEF IInv, Layered, Gates
<1>2. \A g \in Gates : LayerAt(g) \in 1 .. 3
  BY GatesAreLayered
<1>3. ASSUME NEW k \in 1 .. 3, Cardinality(GatesBelow(k)) = GateStart(k)
      PROVE  Cardinality(GatesBelow(k + 1)) = GateStart(k + 1)
  <2>1. GatesBelow(k + 1) = GatesBelow(k) \cup OfLayer(k) /\ GatesBelow(k) \cap OfLayer(k) = {}
    BY <1>1, <1>2 DEF GatesBelow, OfLayer
  <2>2. IsFiniteSet(GatesBelow(k)) /\ IsFiniteSet(OfLayer(k))
    BY <1>1, SubsetOfGates DEF GatesBelow, OfLayer
  <2>3. Cardinality(OfLayer(k)) = layerCounts[k]
    BY <1>1 DEF LayersInv, Layers
  <2>4. Cardinality(GatesBelow(k + 1)) = Cardinality(GatesBelow(k)) + Cardinality(OfLayer(k)) - 0
    BY <2>1, <2>2, FS_Union, FS_EmptySet
  <2> QED BY <1>3, <2>3, <2>4, CountsAreNat
<1>4. Cardinality(GatesBelow(0)) = GateStart(0) /\ Cardinality(GatesBelow(1)) = GateStart(1)
  <2>1. GatesBelow(0) = {} /\ GatesBelow(1) = {}
    BY <1>2 DEF GatesBelow
  <2> QED BY <2>1, FS_EmptySet DEF GateStart, StartOf
<1>5. /\ Cardinality(GatesBelow(2)) = GateStart(2) /\ Cardinality(GatesBelow(3)) = GateStart(3)
      /\ Cardinality(GatesBelow(4)) = GateStart(4)
  <2>1. Cardinality(GatesBelow(1 + 1)) = GateStart(1 + 1)
    BY <1>3, <1>4
  <2>2. Cardinality(GatesBelow(2 + 1)) = GateStart(2 + 1)
    BY <1>3, <2>1
  <2>3. Cardinality(GatesBelow(3 + 1)) = GateStart(3 + 1)
    BY <1>3, <2>2
  <2> QED BY <2>1, <2>2, <2>3
<1> QED BY <1>4, <1>5

(* The layers and the counts stay when their variables do. *)
LEMMA KeysStay ==
  ASSUME UNCHANGED buildVars, UNCHANGED countVars
  PROVE  /\ \A g : LayerAt(g)' = LayerAt(g) /\ SublayerAt(g)' = SublayerAt(g)
         /\ \A g : IsXor(g)' <=> IsXor(g)
         /\ \A g, h : NotAfter(g, h)' <=> NotAfter(g, h)
         /\ \A g, l, k : Before(g, l, k)' <=> Before(g, l, k)
         /\ \A l : GateStart(l)' = GateStart(l) /\ NonXorEnd(l)' = NonXorEnd(l)
         /\ \A l : TablesStart(l)' = TablesStart(l)
         /\ nbLayers' = nbLayers
BY DEF buildVars, countVars, LayerAt, SublayerAt, IsXor, NotAfter, Before, GateStart,
       NonXorEnd, TablesStart, StartOf

LEMMA StartOrderKeepsIInv ==
  ASSUME IInv, StartOrder
  PROVE  IInv'
<1>1. /\ pc = "buckets" /\ pc' = "order" /\ i = NbGates /\ i' = 0
      /\ UNCHANGED buildVars /\ UNCHANGED countVars /\ UNCHANGED bucketVars
      /\ UNCHANGED <<sublayer, newGatesId, garbledGates, garbledTable>>
  BY DEF StartOrder, orderVars, pgcVars
<1>2. /\ sublayer = 0 /\ newGatesId = <<>> /\ nbLayers \in 0 .. 4
      /\ garbledGates = <<>> /\ garbledTable = <<>>
  BY <1>1 DEF IInv, TypeOK
<1>3. TypeOK'
  <2>1. newGatesId \in Seq(Gates) /\ garbledTable \in Seq(NonXorGates(circuit))
    BY DEF IInv, TypeOK
  <2> QED BY <1>1, <1>2, <2>1, TypeStays DEF IInv
<1>4. LayersInv'
  <2>1. Layered' = Layered
    BY <1>1 DEF Layered
  <2> QED BY <1>1, <2>1, LayersStay DEF IInv
<1>5. BucketsInv'
  <2>1. Bucketed' = Bucketed
    BY <1>1 DEF Bucketed
  <2> QED BY <1>1, <2>1, BucketsStay DEF IInv
<1>6. Lists(newGatesId', Placed')
  <2>1. Placed' = {}
    <3>1. \A g \in Gates : LayerAt(g) > 0
      BY <1>1, GatesAreLayered
    <3>2. \A g \in Gates : ~Before(g, 0, 0)
      BY <3>1, <1>1, GatesAreLayered DEF Before
    <3> QED BY <1>1, <1>2, <3>2, KeysStay DEF Placed
  <2> QED BY <1>1, <1>2, <2>1, ListsEmpty
<1>7. PlaceInv'
  <2>1. nbLayers > 0 => Len(xorGates[0]) \in Nat
    <3>1. nbLayers > 0 => xorGates[0] \in Seq(Seq(Gates))
      BY <1>1, <1>2 DEF IInv, BucketsInv
    <3> QED BY <3>1
  <2>2. xorGates' = xorGates /\ nbLayers' = nbLayers
    BY <1>1 DEF bucketVars, countVars
  <2>3. GateStart(0)' = 0
    BY DEF GateStart, StartOf
  <2> QED BY <1>1, <1>2, <2>1, <2>2, <2>3 DEF PlaceInv
<1>8. OrderInv'
  <2>1. Len(newGatesId') = 0
    BY <1>1, <1>2
  <2> QED BY <1>1, <1>6, <1>7, <2>1 DEF OrderInv, Lists
<1> QED BY <1>1, <1>2, <1>3, <1>4, <1>5, <1>8 DEF IInv

(* A turn of the loop appends a list, and goes on to the next one. *)
LEMMA OrderSublayerAppends ==
  ASSUME IInv, OrderSublayer
  PROVE  /\ i \in 0 .. nbLayers - 1 /\ nbLayers \in 0 .. 4
         /\ sublayer \in 0 .. Len(xorGates[i])
         /\ Lists(newGatesId', Placed')
         /\ Len(newGatesId) \in Nat
         /\ Len(newGatesId') = Len(newGatesId) + Cardinality(OfSublayer(i, sublayer))
         /\ IsFiniteSet(OfSublayer(i, sublayer))
         /\ \A p \in 1 .. Len(newGatesId') :
              \/ p <= Len(newGatesId) /\ newGatesId'[p] = newGatesId[p] /\ newGatesId[p] \in Placed
              \/ p > Len(newGatesId) /\ newGatesId'[p] \in OfSublayer(i, sublayer)
<1>1. /\ pc = "order" /\ pc' = "order" /\ i < nbLayers
      /\ UNCHANGED buildVars /\ UNCHANGED countVars /\ UNCHANGED bucketVars
      /\ newGatesId' = newGatesId \o SublayerOf(i, sublayer)
  BY DEF OrderSublayer, NbLayersToOrder
<1>2. nbLayers \in 0 .. 4 /\ i \in 0 .. nbLayers - 1
  BY <1>1 DEF IInv, TypeOK
<1>3. /\ sublayer \in 0 .. Len(xorGates[i]) /\ Lists(newGatesId, Placed)
      /\ xorGates[i] \in Seq(Seq(Gates))
  BY <1>1, <1>2 DEF IInv, OrderInv, PlaceInv, BucketsInv
<1>4. Lists(SublayerOf(i, sublayer), OfSublayer(i, sublayer))
  BY <1>1, <1>2, <1>3 DEF IInv, BucketsInv
<1>5. Bucketed = Gates
  BY <1>1 DEF Bucketed, Gates
<1>6. Placed' = Placed \cup OfSublayer(i, sublayer) /\ Placed \cap OfSublayer(i, sublayer) = {}
  <2>1. \A g \in Gates : LayerAt(g) \in Nat /\ SublayerAt(g) \in 0 .. Len(xorGates[LayerAt(g)])
    BY <1>1, GatesAreLayered
  <2>2. \A g \in Gates : Len(xorGates[LayerAt(g)]) \in Nat
    <3>1. \A g \in Gates : xorGates[LayerAt(g)] \in Seq(Seq(Gates))
      BY <1>1, GatesAreLayered DEF IInv, BucketsInv
    <3> QED BY <3>1
  <2>3. Placed' = { g \in Gates : Before(g, i', sublayer') }
    BY <1>1, KeysStay DEF Placed
  <2>4. Placed = { g \in Gates : Before(g, i, sublayer) }
    BY <1>1 DEF Placed
  <2>5. OfSublayer(i, sublayer) = { g \in Gates : LayerAt(g) = i /\ SublayerAt(g) = sublayer }
    BY <1>5 DEF OfSublayer
  <2>6. \A g \in Gates : Before(g, i', sublayer') <=>
          Before(g, i, sublayer) \/ (LayerAt(g) = i /\ SublayerAt(g) = sublayer)
    <3>1. CASE sublayer < Len(xorGates[i])
      <4>1. sublayer' = sublayer + 1 /\ i' = i
        BY <3>1 DEF OrderSublayer
      <4> QED BY <1>2, <1>3, <2>1, <2>2, <4>1 DEF Before
    <3>2. CASE ~(sublayer < Len(xorGates[i]))
      <4>1. sublayer' = 0 /\ i' = i + 1
        BY <3>2 DEF OrderSublayer
      <4>2. sublayer = Len(xorGates[i])
        BY <1>3, <3>2
      <4> QED BY <1>2, <2>1, <2>2, <4>1, <4>2 DEF Before
    <3> QED BY <3>1, <3>2
  <2>7. Placed' = Placed \cup OfSublayer(i, sublayer)
    BY <2>3, <2>4, <2>5, <2>6
  <2>8. Placed \cap OfSublayer(i, sublayer) = {}
    BY <1>2, <1>3, <2>1, <2>2, <2>4, <2>5 DEF Before
  <2> QED BY <2>7, <2>8
<1>7. Lists(newGatesId', Placed')
  BY <1>1, <1>3, <1>4, <1>6, ListsConcat
<1>8. /\ newGatesId \in Seq(Placed) /\ SublayerOf(i, sublayer) \in Seq(OfSublayer(i, sublayer))
      /\ Len(SublayerOf(i, sublayer)) = Cardinality(OfSublayer(i, sublayer))
      /\ IsFiniteSet(OfSublayer(i, sublayer))
  BY <1>3, <1>4, ListsCardinality DEF Lists
<1> DEFINE s == newGatesId
           t == SublayerOf(i, sublayer)
           S == Placed
           T == OfSublayer(i, sublayer)
<1>9. s \in Seq(S) /\ t \in Seq(T) /\ newGatesId' = s \o t
  BY <1>1, <1>8
<1> HIDE DEF s, t, S, T
<1>10. Len(s) \in Nat /\ Len(t) \in Nat /\ Len(newGatesId') = Len(s) + Len(t)
  BY <1>9
<1>11. ASSUME NEW p \in 1 .. Len(newGatesId')
       PROVE  \/ p <= Len(s) /\ newGatesId'[p] = s[p] /\ s[p] \in S
              \/ p > Len(s) /\ newGatesId'[p] \in T
  BY <1>9, <1>10
<1> QED BY <1>2, <1>3, <1>7, <1>8, <1>10, <1>11 DEF s, t, S, T

(* The order so far: what comes later is not before. *)
LEMMA OrderSublayerKeepsOrder ==
  ASSUME IInv, OrderSublayer,
         NEW p \in 1 .. Len(newGatesId'), NEW q \in 1 .. Len(newGatesId'), p < q
  PROVE  NotAfter(newGatesId'[p], newGatesId'[q])
<1>1. /\ pc = "order" /\ OrderInv
  BY DEF OrderSublayer, IInv
<1> DEFINE n == Len(newGatesId)
           g == newGatesId'[p]
           h == newGatesId'[q]
<1>2. n \in Nat /\ i \in Nat /\ p \in Nat /\ q \in Nat
  BY OrderSublayerAppends
<1>3. ASSUME NEW x \in OfSublayer(i, sublayer)
      PROVE  x \in Gates /\ LayerAt(x) = i /\ SublayerAt(x) = sublayer /\ SublayerAt(x) \in Int
  BY <1>1, GatesAreLayered DEF OfSublayer, Bucketed, Gates
<1>4. CASE q <= n
  <2>1. g = newGatesId[p] /\ h = newGatesId[q] /\ p \in 1 .. n /\ q \in 1 .. n
    BY <1>2, <1>4, OrderSublayerAppends
  <2> QED BY <1>1, <2>1 DEF OrderInv
<1>5. CASE p <= n /\ q > n
  <2>1. g \in Placed /\ h \in OfSublayer(i, sublayer)
    BY <1>2, <1>5, OrderSublayerAppends
  <2>2. g \in Gates /\ Before(g, i, sublayer)
    BY <1>1, <2>1 DEF Placed
  <2>3. SublayerAt(g) \in Int
    BY <1>1, <2>2, GatesAreLayered
  <2> HIDE DEF g, h
  <2>4. NotAfter(g, h)
    BY <1>3, <2>1, <2>2, <2>3 DEF Before, NotAfter
  <2> QED BY <2>4 DEF g, h
<1>6. CASE p > n
  <2>1. g \in OfSublayer(i, sublayer) /\ h \in OfSublayer(i, sublayer)
    BY <1>2, <1>6, OrderSublayerAppends
  <2> HIDE DEF g, h
  <2>2. NotAfter(g, h)
    BY <1>3, <2>1 DEF NotAfter
  <2> QED BY <2>2 DEF g, h
<1> QED BY <1>2, <1>4, <1>5, <1>6

(* Layer i begins with its gates that are not XOR, as many as were counted. *)
LEMMA NonXorSublayer ==
  ASSUME IInv, OrderSublayer, sublayer = 0
  PROVE  Cardinality(OfSublayer(i, sublayer)) = layerNonXorCounts[i]
<1>1. pc = "order" /\ i \in Layers /\ LayersInv
  BY OrderSublayerAppends DEF OrderSublayer, IInv, Layers
<1>2. Layered = Gates /\ Bucketed = Gates
  BY <1>1 DEF Layered, Bucketed, Gates
<1>3. \A g \in Gates : IsXor(g) <=> SublayerAt(g) # 0
  BY <1>1, GatesAreLayered
<1>4. OfSublayer(i, sublayer) = NonXorOfLayer(i)
  BY <1>2, <1>3 DEF OfSublayer, NonXorOfLayer
<1> QED BY <1>1, <1>4 DEF LayersInv

LEMMA OrderSublayerLength ==
  ASSUME IInv, OrderSublayer
  PROVE  /\ sublayer = 0 => Len(newGatesId) = GateStart(i)
                            /\ Len(newGatesId') = NonXorEnd(i)
         /\ sublayer > 0 => Len(newGatesId) >= NonXorEnd(i)
         /\ sublayer' = 0 => Len(newGatesId') = GateStart(i + 1)
         /\ Len(newGatesId') >= Len(newGatesId)
<1>1. pc = "order" /\ pc' = "order" /\ PlaceInv
  BY DEF IInv, OrderInv, OrderSublayer
<1>2. /\ Len(newGatesId) \in Nat
      /\ Len(newGatesId') = Len(newGatesId) + Cardinality(OfSublayer(i, sublayer))
      /\ Cardinality(OfSublayer(i, sublayer)) \in Nat
  BY OrderSublayerAppends, FS_CardinalityType
<1>3. sublayer = 0 => Len(newGatesId) = GateStart(i) /\ Len(newGatesId') = NonXorEnd(i)
  BY <1>1, <1>2, NonXorSublayer DEF PlaceInv, NonXorEnd
<1>4. sublayer > 0 => Len(newGatesId) >= NonXorEnd(i)
  BY <1>1 DEF PlaceInv
<1>5. ASSUME sublayer' = 0
      PROVE  Len(newGatesId') = GateStart(i + 1)
  <2>1. i' = i + 1 /\ i + 1 \in 0 .. 4
    <3>1. sublayer \in Nat /\ i \in 0 .. nbLayers - 1 /\ nbLayers \in 0 .. 4
      BY OrderSublayerAppends
    <3> QED BY <1>5, <3>1 DEF OrderSublayer
  <2>2. Placed' = GatesBelow(i + 1)
    <3>1. \A g \in Gates : SublayerAt(g) \in 0 .. Len(xorGates[LayerAt(g)])
      BY <1>1, GatesAreLayered
    <3>2. \A g \in Gates : Before(g, i + 1, 0) <=> LayerAt(g) < i + 1
      BY <3>1 DEF Before
    <3>3. Placed' = { g \in Gates : Before(g, i', sublayer') }
      BY <1>1, KeysStay DEF Placed, OrderSublayer
    <3> QED BY <1>5, <2>1, <3>2, <3>3 DEF GatesBelow
  <2>3. Len(newGatesId') = Cardinality(Placed')
    BY OrderSublayerAppends, ListsCardinality
  <2> QED BY <1>1, <2>1, <2>2, <2>3, CountOfGatesBelow
<1> QED BY <1>2, <1>3, <1>4, <1>5

LEMMA OrderSublayerKeepsPlace ==
  ASSUME IInv, OrderSublayer
  PROVE  PlaceInv'
<1>1. /\ i \in 0 .. nbLayers - 1 /\ nbLayers \in 0 .. 4 /\ sublayer \in 0 .. Len(xorGates[i])
      /\ pc = "order" /\ xorGates' = xorGates /\ nbLayers' = nbLayers
      /\ \A l : GateStart(l)' = GateStart(l) /\ NonXorEnd(l)' = NonXorEnd(l)
  BY OrderSublayerAppends, KeysStay DEF OrderSublayer, bucketVars, countVars
<1>2. \A l \in 0 .. nbLayers - 1 : Len(xorGates[l]) \in Nat
  <2>1. \A l \in 0 .. nbLayers - 1 : xorGates[l] \in Seq(Seq(Gates))
    BY <1>1 DEF IInv, BucketsInv
  <2> QED BY <2>1
<1>3. CASE sublayer < Len(xorGates[i])
  <2>1. sublayer' = sublayer + 1 /\ i' = i
    BY <1>3 DEF OrderSublayer
  <2>2. Len(newGatesId') >= NonXorEnd(i)
    <3>1. NonXorEnd(i) \in Nat /\ Len(newGatesId) \in Nat /\ Len(newGatesId') \in Nat
      <4>1. GateStart(i) \in Nat
        <5>1. i \in 0 .. 4
          BY <1>1
        <5> QED BY <5>1, CountsAreNat
      <4>2. layerNonXorCounts[i] \in Nat
        <5>1. layerNonXorCounts \in [0 .. 3 -> 0 .. NbGates]
          BY DEF IInv, TypeOK, Layers
        <5> QED BY <1>1, <5>1, CircuitAssumption
      <4>3. Len(newGatesId') \in Nat
        BY OrderSublayerAppends, FS_CardinalityType
      <4> QED BY <4>1, <4>2, <4>3, OrderSublayerAppends DEF NonXorEnd
    <3> QED BY <1>1, <3>1, OrderSublayerLength
  <2> QED BY <1>1, <1>2, <1>3, <2>1, <2>2 DEF PlaceInv
<1>4. CASE ~(sublayer < Len(xorGates[i]))
  <2>1. sublayer' = 0 /\ i' = i + 1
    BY <1>4 DEF OrderSublayer
  <2>2. Len(newGatesId') = GateStart(i + 1)
    BY <2>1, OrderSublayerLength
  <2> QED BY <1>1, <1>2, <2>1, <2>2 DEF PlaceInv
<1> QED BY <1>3, <1>4

LEMMA OrderSublayerKeepsBoundary ==
  ASSUME IInv, OrderSublayer, NEW l \in 1 .. nbLayers, l <= i'
  PROVE  /\ GateStart(l) <= Len(newGatesId')
         /\ \A p \in 1 .. Len(newGatesId') :
              p <= GateStart(l) <=> LayerAt(newGatesId'[p]) < l
<1>1. /\ i \in 0 .. nbLayers - 1 /\ nbLayers \in 0 .. 4 /\ pc = "order" /\ OrderInv
      /\ Len(newGatesId) \in Nat /\ Len(newGatesId') \in Nat /\ GateStart(l) \in Nat
  <2>1. l \in 0 .. 4
    BY OrderSublayerAppends
  <2>2. GateStart(l) \in Nat
    BY <2>1, CountsAreNat
  <2>3. pc = "order" /\ OrderInv
    BY DEF OrderSublayer, IInv
  <2>4. Len(newGatesId') \in Nat
    BY OrderSublayerAppends, FS_CardinalityType
  <2> QED BY <2>2, <2>3, <2>4, OrderSublayerAppends
<1>2. \A x \in OfSublayer(i, sublayer) : LayerAt(x) = i
  BY DEF OfSublayer
<1>3. CASE l <= i
  <2>1. Boundary(l)
    BY <1>1, <1>3 DEF OrderInv
  <2>2. GateStart(l) <= Len(newGatesId) /\ GateStart(l) <= Len(newGatesId')
    BY <1>1, <2>1, OrderSublayerLength DEF Boundary
  <2>3. ASSUME NEW p \in 1 .. Len(newGatesId')
        PROVE  p <= GateStart(l) <=> LayerAt(newGatesId'[p]) < l
    <3>1. CASE p <= Len(newGatesId)
      <4>1. p \in 1 .. Len(newGatesId) /\ newGatesId'[p] = newGatesId[p]
        BY <1>1, <3>1, OrderSublayerAppends
      <4> QED BY <2>1, <4>1 DEF Boundary
    <3>2. CASE p > Len(newGatesId)
      <4>1. LayerAt(newGatesId'[p]) = i
        BY <1>1, <1>2, <3>2, OrderSublayerAppends
      <4> QED BY <1>1, <1>3, <2>2, <3>2, <4>1
    <3> QED BY <1>1, <3>1, <3>2
  <2> QED BY <2>2, <2>3
<1>4. CASE l = i + 1
  <2>1. sublayer' = 0
    BY <1>1, <1>4 DEF OrderSublayer
  <2>2. Len(newGatesId') = GateStart(l)
    BY <1>4, <2>1, OrderSublayerLength
  <2>3. ASSUME NEW p \in 1 .. Len(newGatesId')
        PROVE  LayerAt(newGatesId'[p]) < l
    <3>1. CASE p <= Len(newGatesId)
      <4>1. newGatesId'[p] = newGatesId[p] /\ newGatesId[p] \in Placed
        BY <1>1, <3>1, OrderSublayerAppends
      <4>2. newGatesId[p] \in Gates /\ Before(newGatesId[p], i, sublayer)
        BY <1>1, <4>1 DEF Placed
      <4>3. LayerAt(newGatesId[p]) \in Int
        BY <1>1, <4>2, GatesAreLayered
      <4> QED BY <1>1, <1>4, <4>1, <4>2, <4>3 DEF Before
    <3>2. CASE p > Len(newGatesId)
      <4>1. LayerAt(newGatesId'[p]) = i
        BY <1>1, <1>2, <3>2, OrderSublayerAppends
      <4> QED BY <1>1, <1>4, <4>1
    <3> QED BY <1>1, <3>1, <3>2
  <2> QED BY <1>1, <2>2, <2>3
<1>5. l <= i \/ l = i + 1
  <2>1. i' = i \/ i' = i + 1
    BY DEF OrderSublayer
  <2> QED BY <1>1, <2>1
<1> QED BY <1>3, <1>4, <1>5

LEMMA OrderSublayerKeepsNonXorFirst ==
  ASSUME IInv, OrderSublayer, NEW p \in 1 .. Len(newGatesId')
  PROVE  IsXor(newGatesId'[p]) <=> p > NonXorEnd(LayerAt(newGatesId'[p]))
<1>1. /\ pc = "order" /\ OrderInv /\ sublayer \in Nat /\ Len(newGatesId) \in Nat
      /\ Len(newGatesId') \in Nat
  BY OrderSublayerAppends, FS_CardinalityType DEF OrderSublayer, IInv
<1>2. CASE p <= Len(newGatesId)
  <2>1. p \in 1 .. Len(newGatesId) /\ newGatesId'[p] = newGatesId[p]
    BY <1>1, <1>2, OrderSublayerAppends
  <2> QED BY <1>1, <2>1 DEF OrderInv
<1>3. CASE p > Len(newGatesId)
  <2> DEFINE g == newGatesId'[p]
  <2>1. g \in OfSublayer(i, sublayer)
    BY <1>1, <1>3, OrderSublayerAppends
  <2> HIDE DEF g
  <2>2. /\ LayerAt(g) = i /\ SublayerAt(g) = sublayer
        /\ IsXor(g) <=> sublayer # 0
    BY <1>1, <2>1, GatesAreLayered DEF OfSublayer, Bucketed, Gates
  <2>3. NonXorEnd(i) \in Int
    <3>1. i \in 0 .. 3
      BY OrderSublayerAppends
    <3>2. layerNonXorCounts \in [0 .. 3 -> 0 .. NbGates]
      BY DEF IInv, TypeOK, Layers
    <3>3. GateStart(i) \in Nat
      <4>1. i \in 0 .. 4
        BY <3>1
      <4> QED BY <4>1, CountsAreNat
    <3> QED BY <3>1, <3>2, <3>3, CircuitAssumption DEF NonXorEnd
  <2>4. IsXor(g) <=> p > NonXorEnd(LayerAt(g))
    <3>1. CASE sublayer = 0
      BY <1>1, <2>2, <2>3, <3>1, OrderSublayerLength
    <3>2. CASE sublayer # 0
      BY <1>1, <1>3, <2>2, <2>3, <3>2, OrderSublayerLength
    <3> QED BY <3>1, <3>2
  <2> QED BY <2>4 DEF g
<1> QED BY <1>1, <1>2, <1>3

LEMMA OrderSublayerKeepsIInv ==
  ASSUME IInv, OrderSublayer
  PROVE  IInv'
<1>1. /\ pc = "order" /\ pc' = "order"
      /\ UNCHANGED buildVars /\ UNCHANGED countVars /\ UNCHANGED bucketVars
      /\ UNCHANGED <<garbledGates, garbledTable>>
  BY DEF OrderSublayer, pgcVars
<1>2. /\ i \in 0 .. nbLayers - 1 /\ nbLayers \in 0 .. 4
      /\ garbledGates = <<>> /\ garbledTable = <<>>
  BY <1>1, OrderSublayerAppends DEF IInv
<1>3. TypeOK'
  <2>1. newGatesId' \in Seq(Gates)
    <3>1. newGatesId' \in Seq(Placed') /\ Placed' \subseteq Gates
      BY OrderSublayerAppends DEF Lists, Placed
    <3> QED BY <3>1
  <2>2. garbledTable' \in Seq(NonXorGates(circuit))
    BY <1>1 DEF IInv, TypeOK
  <2>3. i' \in 0 .. nbLayers
    BY <1>2 DEF OrderSublayer
  <2> QED BY <1>1, <2>1, <2>2, <2>3, TypeStays DEF IInv
<1>4. LayersInv'
  <2>1. Layered' = Layered
    BY <1>1 DEF Layered
  <2> QED BY <1>1, <2>1, LayersStay DEF IInv
<1>5. BucketsInv'
  <2>1. Bucketed' = Bucketed
    BY <1>1 DEF Bucketed
  <2> QED BY <1>1, <2>1, BucketsStay DEF IInv
<1>6. OrderInv'
  <2>1. \A p, q \in 1 .. Len(newGatesId') :
          p < q => NotAfter(newGatesId[p], newGatesId[q])'
    BY <1>1, OrderSublayerKeepsOrder, KeysStay
  <2>2. \A l \in 1 .. nbLayers' : l <= i' => Boundary(l)'
    BY <1>1, OrderSublayerKeepsBoundary, KeysStay DEF Boundary
  <2>3. \A p \in 1 .. Len(newGatesId') :
          (IsXor(newGatesId[p]) <=> p > NonXorEnd(LayerAt(newGatesId[p])))'
    BY <1>1, OrderSublayerKeepsNonXorFirst, KeysStay
  <2>4. Lists(newGatesId', Placed')
    BY OrderSublayerAppends
  <2> QED BY <1>1, <2>1, <2>2, <2>3, <2>4, OrderSublayerKeepsPlace DEF OrderInv, Lists
<1> QED BY <1>1, <1>2, <1>3, <1>4, <1>5, <1>6 DEF IInv

LEMMA StartPackKeepsIInv ==
  ASSUME IInv, StartPack
  PROVE  IInv'
<1>1. /\ pc = "order" /\ pc' = "pack" /\ i = nbLayers /\ i' = 0
      /\ UNCHANGED buildVars /\ UNCHANGED countVars /\ UNCHANGED bucketVars
      /\ UNCHANGED <<newGatesId, garbledGates, garbledTable>>
  BY DEF StartPack, NbLayersToOrder, orderVars, pgcVars
<1>2. /\ garbledGates = <<>> /\ garbledTable = <<>> /\ OrderInv
  BY <1>1 DEF IInv
<1>3. TypeOK'
  <2>1. newGatesId \in Seq(Gates) /\ garbledTable \in Seq(NonXorGates(circuit))
    BY DEF IInv, TypeOK
  <2> QED BY <1>1, <2>1, CircuitAssumption, TypeStays DEF IInv
<1>4. LayersInv'
  <2>1. Layered' = Layered
    BY <1>1 DEF Layered
  <2> QED BY <1>1, <2>1, LayersStay DEF IInv
<1>5. BucketsInv'
  <2>1. Bucketed' = Bucketed
    BY <1>1 DEF Bucketed
  <2> QED BY <1>1, <2>1, BucketsStay DEF IInv
<1>6. OrderInv'
  <2>1. Placed = Gates /\ Placed' = Gates
    <3>1. \A g \in Gates : LayerAt(g) < i
      BY <1>1, GatesAreLayered
    <3> QED BY <1>1, <3>1 DEF Placed, Before
  <2>2. \A l \in 1 .. nbLayers : Boundary(l)
    BY <1>1, <1>2 DEF OrderInv, IInv, TypeOK
  <2>3. \A l : Boundary(l)' <=> Boundary(l)
    BY <1>1, KeysStay DEF Boundary
  <2>4. \A p, q \in 1 .. Len(newGatesId') : p < q => NotAfter(newGatesId[p], newGatesId[q])'
    BY <1>1, <1>2, KeysStay DEF OrderInv
  <2>5. \A p \in 1 .. Len(newGatesId') :
          (IsXor(newGatesId[p]) <=> p > NonXorEnd(LayerAt(newGatesId[p])))'
    BY <1>1, <1>2, KeysStay DEF OrderInv
  <2>6. Lists(newGatesId', Placed') /\ nbLayers' = nbLayers
    BY <1>1, <1>2, <2>1 DEF OrderInv, countVars
  <2> QED BY <1>1, <2>2, <2>3, <2>4, <2>5, <2>6 DEF OrderInv, Lists
<1>7. PackInv'
  <2>1. NbPacked' = 0 /\ Len(garbledGates') = 0 /\ Len(garbledTable') = 0
    BY <1>1, <1>2 DEF NbPacked
  <2>2. TablesAmong(0)' = 0
    <3>1. \A l \in 1 .. 3 : GateStart(l) \in Nat /\ layerNonXorCounts[l] \in Nat
      BY CountsAreNat
    <3>2. /\ GateStart(1)' = GateStart(1) /\ GateStart(2)' = GateStart(2)
          /\ GateStart(3)' = GateStart(3) /\ layerNonXorCounts' = layerNonXorCounts
      BY <1>1, KeysStay DEF countVars
    <3> QED BY <3>1, <3>2 DEF TablesAmong, NonXorEnd
  <2>3. TablesAmong(NbPacked)' = 0
    BY <2>1, <2>2 DEF TablesAmong
  <2> QED BY <2>1, <2>3 DEF PackInv
<1> QED BY <1>1, <1>2, <1>3, <1>4, <1>5, <1>6, <1>7, PackedGatesStay DEF IInv, buildVars

--------------------------------------------------------------------------------
(* The fourth loop.  The gate at place p is in the layer the counts give, and *)
(* is not XOR if it is among the first ones there.                            *)
LEMMA PlaceOfGate ==
  ASSUME IInv, pc \in {"pack", "done"}, NEW p \in 1 .. NbGates
  PROVE  LET l == LayerAt(newGatesId[p])
         IN  /\ newGatesId \in Seq(Gates) /\ Len(newGatesId) = NbGates
             /\ newGatesId[p] \in Gates /\ l \in 1 .. 3 /\ l + 1 <= nbLayers
             /\ GateStart(l) < p /\ p <= GateStart(l + 1)
             /\ IsXor(newGatesId[p]) <=> p > NonXorEnd(l)
<1> DEFINE g == newGatesId[p]
           l == LayerAt(g)
<1>1. OrderInv /\ Placed = Gates
  BY DEF IInv, Placed
<1>2. /\ newGatesId \in Seq(Gates) /\ Len(newGatesId) = NbGates
  BY <1>1, GatesFinite, ListsCardinality DEF OrderInv, Lists
<1>3. g \in Gates /\ p \in 1 .. Len(newGatesId)
  BY <1>2
<1>4. l \in 1 .. nbLayers - 1 /\ nbLayers \in 0 .. 4
  BY <1>3, GatesAreLayered
<1>5. Boundary(l) /\ Boundary(l + 1)
  <2>1. l \in 1 .. nbLayers /\ l + 1 \in 1 .. nbLayers
    BY <1>4
  <2> QED BY <1>1, <2>1 DEF OrderInv
<1>6. GateStart(l) \in Nat /\ GateStart(l + 1) \in Nat
  <2>1. l \in 0 .. 4 /\ l + 1 \in 0 .. 4
    BY <1>4
  <2> QED BY <2>1, CountsAreNat
<1>7. p <= GateStart(l) <=> LayerAt(g) < l
  BY <1>3, <1>5 DEF Boundary
<1>8. p <= GateStart(l + 1) <=> LayerAt(g) < l + 1
  BY <1>3, <1>5 DEF Boundary
<1>9. IsXor(g) <=> p > NonXorEnd(l)
  BY <1>1, <1>3 DEF OrderInv
<1> HIDE DEF g
<1>10. GateStart(l) < p /\ p <= GateStart(l + 1) /\ l \in 1 .. 3 /\ l + 1 <= nbLayers
  BY <1>4, <1>6, <1>7, <1>8
<1> QED BY <1>2, <1>3, <1>9, <1>10 DEF g

(* No layer has more gates that are not XOR than it has gates. *)
LEMMA NonXorAreGates ==
  ASSUME IInv, pc \in {"buckets", "order", "pack", "done"}, NEW l \in 1 .. 3
  PROVE  layerNonXorCounts[l] <= layerCounts[l]
<1>1. LayersInv /\ l \in Layers /\ Layered = Gates
  BY DEF IInv, Layers, Layered, Gates
<1>2. NonXorOfLayer(l) \subseteq OfLayer(l) /\ OfLayer(l) \subseteq Gates
  BY <1>1 DEF NonXorOfLayer, OfLayer
<1>3. Cardinality(NonXorOfLayer(l)) <= Cardinality(OfLayer(l))
  BY <1>2, SubsetOfGates, FS_Subset
<1> QED BY <1>1, <1>3 DEF LayersInv

(* Where the layers and their tables start, added up. *)
LEMMA StartsAre ==
  ASSUME IInv
  PROVE  /\ GateStart(1) = 0 /\ TablesStart(1) = 0
         /\ GateStart(2) = layerCounts[1] /\ TablesStart(2) = layerNonXorCounts[1]
         /\ GateStart(3) = layerCounts[1] + layerCounts[2]
         /\ TablesStart(3) = layerNonXorCounts[1] + layerNonXorCounts[2]
         /\ GateStart(4) = layerCounts[1] + layerCounts[2] + layerCounts[3]
         /\ \A l \in 1 .. 3 : layerCounts[l] \in Nat /\ layerNonXorCounts[l] \in Nat
<1>1. \A l \in 1 .. 3 : layerCounts[l] \in Nat /\ layerNonXorCounts[l] \in Nat
  BY CountsAreNat
<1> QED BY <1>1 DEF GateStart, TablesStart, StartOf

(* One gate more is one table more, unless it is XOR. *)
LEMMA OneTableMore ==
  ASSUME IInv, pc \in {"pack", "done"}, NEW n \in Nat, n < NbGates
  PROVE  /\ TablesAmong(n) \in Nat
         /\ IsXor(newGatesId[n + 1]) => TablesAmong(n + 1) = TablesAmong(n)
         /\ ~IsXor(newGatesId[n + 1]) =>
              /\ TablesAmong(n + 1) = TablesAmong(n) + 1
              /\ TableAt(n + 1) = TablesAmong(n) + 1
<1> DEFINE l == LayerAt(newGatesId[n + 1])
           x == IsXor(newGatesId[n + 1])
           c1 == layerCounts[1]
           c2 == layerCounts[2]
           c3 == layerCounts[3]
           n1 == layerNonXorCounts[1]
           n2 == layerNonXorCounts[2]
           n3 == layerNonXorCounts[3]
           Among(k, s, m) == IF k < s THEN 0 ELSE IF k > s + m THEN m ELSE k - s
<1>1. /\ l \in 1 .. 3 /\ GateStart(l) < n + 1 /\ n + 1 <= GateStart(l + 1)
      /\ x <=> n + 1 > NonXorEnd(l)
  <2>1. n + 1 \in 1 .. NbGates
    BY CircuitAssumption
  <2> QED BY <2>1, PlaceOfGate
<1>2. /\ c1 \in Nat /\ c2 \in Nat /\ c3 \in Nat /\ n1 \in Nat /\ n2 \in Nat /\ n3 \in Nat
      /\ n1 <= c1 /\ n2 <= c2 /\ n3 <= c3
  BY StartsAre, NonXorAreGates
<1>3. \A k : TablesAmong(k) = Among(k, 0, n1) + Among(k, c1, n2) + Among(k, c1 + c2, n3)
  BY StartsAre DEF TablesAmong, NonXorEnd
<1>4. TableAt(n + 1) = TablesStart(l) + (n + 1) - GateStart(l)
  BY DEF TableAt
<1>5. CASE l = 1
  <2>1. /\ 0 < n + 1 /\ n + 1 <= c1 /\ (x <=> n + 1 > n1)
        /\ TableAt(n + 1) = 0 + (n + 1) - 0
    BY <1>1, <1>4, <1>5, StartsAre DEF NonXorEnd
  <2> HIDE DEF l, x, c1, c2, c3, n1, n2, n3
  <2>2. /\ TablesAmong(n) \in Nat
        /\ x => TablesAmong(n + 1) = TablesAmong(n)
        /\ ~x => /\ TablesAmong(n + 1) = TablesAmong(n) + 1
                 /\ TableAt(n + 1) = TablesAmong(n) + 1
    BY <1>2, <1>3, <2>1
  <2> QED BY <2>2 DEF x
<1>6. CASE l = 2
  <2>1. /\ c1 < n + 1 /\ n + 1 <= c1 + c2 /\ (x <=> n + 1 > c1 + n2)
        /\ TableAt(n + 1) = n1 + (n + 1) - c1
    BY <1>1, <1>4, <1>6, StartsAre DEF NonXorEnd
  <2> HIDE DEF l, x, c1, c2, c3, n1, n2, n3
  <2>2. \A k \in {n, n + 1} : TablesAmong(k) = n1 + (IF k > c1 + n2 THEN n2 ELSE k - c1)
    <3> SUFFICES ASSUME NEW k \in {n, n + 1}
                 PROVE  TablesAmong(k) = n1 + (IF k > c1 + n2 THEN n2 ELSE k - c1)
      OBVIOUS
    <3>1. k \in Nat /\ c1 <= k /\ k <= c1 + c2
      BY <1>2, <2>1
    <3>2. Among(k, 0, n1) = n1
      BY <1>2, <3>1
    <3>3. Among(k, c1 + c2, n3) = 0
      BY <1>2, <3>1
    <3>4. Among(k, c1, n2) = IF k > c1 + n2 THEN n2 ELSE k - c1
      BY <1>2, <3>1
    <3>5. Among(k, c1, n2) \in Nat
      BY <1>2, <3>1, <3>4
    <3> QED BY <1>2, <1>3, <3>2, <3>3, <3>4, <3>5
  <2>3. /\ TablesAmong(n) \in Nat
        /\ x => TablesAmong(n + 1) = TablesAmong(n)
        /\ ~x => /\ TablesAmong(n + 1) = TablesAmong(n) + 1
                 /\ TableAt(n + 1) = TablesAmong(n) + 1
    BY <1>2, <2>1, <2>2
  <2> QED BY <2>3 DEF x
<1>7. CASE l = 3
  <2>1. /\ c1 + c2 < n + 1 /\ n + 1 <= c1 + c2 + c3 /\ (x <=> n + 1 > c1 + c2 + n3)
        /\ TableAt(n + 1) = n1 + n2 + (n + 1) - (c1 + c2)
    BY <1>1, <1>4, <1>7, StartsAre DEF NonXorEnd
  <2> HIDE DEF l, x, c1, c2, c3, n1, n2, n3
  <2>2. /\ TablesAmong(n) \in Nat
        /\ x => TablesAmong(n + 1) = TablesAmong(n)
        /\ ~x => /\ TablesAmong(n + 1) = TablesAmong(n) + 1
                 /\ TableAt(n + 1) = TablesAmong(n) + 1
    BY <1>2, <1>3, <2>1
  <2> QED BY <2>2 DEF x
<1> QED BY <1>1, <1>5, <1>6, <1>7

(* Once the order is complete it stays, and so does what was packed. *)
LEMMA OrderStays ==
  ASSUME OrderInv, pc \in {"pack", "done"}, pc' \in {"pack", "done"},
         UNCHANGED buildVars, UNCHANGED countVars, UNCHANGED newGatesId
  PROVE  OrderInv'
<1>1. Placed' = Placed
  BY DEF Placed
<1>2. \A l : Boundary(l)' <=> Boundary(l)
  BY KeysStay DEF Boundary
<1> QED BY <1>1, <1>2, KeysStay DEF OrderInv, Lists

LEMMA PackStays ==
  ASSUME PackInv, NbPacked' = NbPacked, UNCHANGED buildVars, UNCHANGED countVars,
         UNCHANGED <<newGatesId, garbledGates, garbledTable>>
  PROVE  PackInv'
<1>1. \A p : /\ TableAt(p)' = TableAt(p) /\ TablesAmong(p)' = TablesAmong(p)
             /\ PackedGate(newGatesId[p])' = PackedGate(newGatesId[p])
             /\ IsXor(newGatesId[p])' <=> IsXor(newGatesId[p])
  BY KeysStay DEF TableAt, TablesAmong, PackedGate, LayerAt, IsXor, buildVars, countVars
<1>2. TablesAmong(NbPacked)' = TablesAmong(NbPacked)
  BY <1>1 DEF TablesAmong
<1> QED BY <1>1, <1>2 DEF PackInv

(* A gate that is packed leaves what was found of the ones before. *)
LEMMA PackGateChanges ==
  ASSUME IInv, PackGate
  PROVE  /\ pc = "pack" /\ i \in Nat /\ i < NbGates /\ i' = i + 1
         /\ newGatesId[i + 1] \in Gates
         /\ garbledGates' = Append(garbledGates, PackedGate(newGatesId[i + 1]))
         /\ garbledTable' = IF IsXor(newGatesId[i + 1]) THEN garbledTable
                            ELSE Append(garbledTable, newGatesId[i + 1])
         /\ Len(garbledGates) = i /\ garbledTable \in Seq(NonXorGates(circuit))
         /\ garbledTable' \in Seq(NonXorGates(circuit))
         /\ Len(garbledTable) = TablesAmong(i)
         /\ UNCHANGED buildVars /\ UNCHANGED <<pc, newGatesId>>
         /\ UNCHANGED countVars /\ UNCHANGED bucketVars
<1>1. /\ pc = "pack" /\ i < NbGates /\ i' = i + 1
      /\ garbledGates' = Append(garbledGates, PackedGate(newGatesId[i + 1]))
      /\ garbledTable' = IF IsXor(newGatesId[i + 1]) THEN garbledTable
                         ELSE Append(garbledTable, newGatesId[i + 1])
      /\ UNCHANGED buildVars /\ UNCHANGED <<pc, newGatesId>>
      /\ UNCHANGED countVars /\ UNCHANGED bucketVars
  BY DEF PackGate, TableOwner, PackedGate, orderVars
<1>2. i \in Nat /\ garbledTable \in Seq(NonXorGates(circuit))
  BY <1>1, CircuitAssumption DEF IInv, TypeOK
<1>3. newGatesId[i + 1] \in Gates
  <2>1. i + 1 \in 1 .. NbGates
    BY <1>1, <1>2, CircuitAssumption
  <2> QED BY <1>1, <2>1, PlaceOfGate
<1>4. Len(garbledGates) = i /\ Len(garbledTable) = TablesAmong(i)
  BY <1>1 DEF IInv, PackInv, NbPacked
<1>5. garbledTable' \in Seq(NonXorGates(circuit))
  <2>1. ~IsXor(newGatesId[i + 1]) => newGatesId[i + 1] \in NonXorGates(circuit)
    BY <1>3 DEF IsXor, NonXorGates, XorGates
  <2> QED BY <1>1, <1>2, <2>1
<1> QED BY <1>1, <1>2, <1>3, <1>4, <1>5

LEMMA PackGateKeepsPackInv ==
  ASSUME IInv, PackGate
  PROVE  PackInv'
<1>1. /\ pc = "pack" /\ i \in Nat /\ i < NbGates /\ i' = i + 1 /\ NbGates \in Nat
      /\ NbPacked = i /\ NbPacked' = i + 1
  BY PackGateChanges, CircuitAssumption DEF NbPacked
<1>2. \A p : /\ TableAt(p)' = TableAt(p) /\ TablesAmong(p)' = TablesAmong(p)
             /\ PackedGate(newGatesId[p])' = PackedGate(newGatesId[p])
             /\ IsXor(newGatesId[p])' <=> IsXor(newGatesId[p])
  BY PackGateChanges, KeysStay
  DEF TableAt, TablesAmong, PackedGate, LayerAt, IsXor, buildVars, countVars
<1>3. garbledGates \in Seq({ PackedGate(g) : g \in Gates }) /\ PackInv
  BY <1>1 DEF IInv
<1>4. /\ Len(garbledGates') = i + 1
      /\ \A p \in 1 .. i + 1 : garbledGates'[p] = PackedGate(newGatesId[p])
  BY <1>1, <1>3, PackGateChanges DEF PackInv
<1>5. /\ TablesAmong(i) \in Nat
      /\ IsXor(newGatesId[i + 1]) => TablesAmong(i + 1) = TablesAmong(i)
      /\ ~IsXor(newGatesId[i + 1]) =>
           /\ TablesAmong(i + 1) = TablesAmong(i) + 1
           /\ TableAt(i + 1) = TablesAmong(i) + 1
  BY <1>1, OneTableMore
<1>6. \A p \in 1 .. i : ~IsXor(newGatesId[p]) =>
        /\ TableAt(p) \in 1 .. Len(garbledTable)
        /\ garbledTable[TableAt(p)] = newGatesId[p]
  BY <1>1, <1>3 DEF PackInv
<1>7. /\ Len(garbledTable') = TablesAmong(i + 1)
      /\ \A p \in 1 .. i + 1 : ~IsXor(newGatesId[p]) =>
           /\ TableAt(p) \in 1 .. Len(garbledTable')
           /\ garbledTable'[TableAt(p)] = newGatesId[p]
  <2>1. CASE IsXor(newGatesId[i + 1])
    BY <1>1, <1>5, <1>6, <2>1, PackGateChanges
  <2>2. CASE ~IsXor(newGatesId[i + 1])
    <3>1. /\ garbledTable' = Append(garbledTable, newGatesId[i + 1])
          /\ garbledTable \in Seq(NonXorGates(circuit))
      BY <2>2, PackGateChanges
    <3>2. /\ Len(garbledTable') = Len(garbledTable) + 1 /\ Len(garbledTable) \in Nat
          /\ \A k \in 1 .. Len(garbledTable) : garbledTable'[k] = garbledTable[k]
          /\ garbledTable'[Len(garbledTable) + 1] = newGatesId[i + 1]
      BY <3>1
    <3>3. Len(garbledTable) = TablesAmong(i)
      BY PackGateChanges
    <3>4. ASSUME NEW p \in 1 .. i + 1, ~IsXor(newGatesId[p])
          PROVE  /\ TableAt(p) \in 1 .. Len(garbledTable')
                 /\ garbledTable'[TableAt(p)] = newGatesId[p]
      <4>1. CASE p \in 1 .. i
        BY <1>6, <3>2, <3>4, <4>1
      <4>2. CASE p = i + 1
        BY <1>5, <2>2, <3>2, <3>3, <4>2
      <4> QED BY <1>1, <4>1, <4>2
    <3> QED BY <1>5, <2>2, <3>2, <3>3, <3>4
  <2> QED BY <2>1, <2>2
<1>8. newGatesId' = newGatesId
  BY PackGateChanges
<1> QED BY <1>1, <1>2, <1>4, <1>7, <1>8 DEF PackInv

LEMMA PackGateKeepsIInv ==
  ASSUME IInv, PackGate
  PROVE  IInv'
<1>1. /\ pc = "pack" /\ pc' = "pack"
      /\ UNCHANGED buildVars /\ UNCHANGED countVars /\ UNCHANGED bucketVars
      /\ UNCHANGED newGatesId
  BY PackGateChanges
<1>2. TypeOK'
  <2>1. newGatesId \in Seq(Gates) /\ garbledTable' \in Seq(NonXorGates(circuit))
    BY PackGateChanges DEF IInv, TypeOK
  <2>2. i' \in 0 .. NbGates
    BY PackGateChanges, CircuitAssumption
  <2> QED BY <1>1, <2>1, <2>2, TypeStays DEF IInv
<1>3. garbledGates' \in Seq({ PackedGate(g) : g \in Gates })
  <2> DEFINE S == { PackedGate(g) : g \in Gates }
  <2>1. garbledGates \in Seq(S) /\ PackedGate(newGatesId[i + 1]) \in S
    BY PackGateChanges DEF IInv
  <2>2. garbledGates' = Append(garbledGates, PackedGate(newGatesId[i + 1]))
    BY PackGateChanges
  <2> HIDE DEF S
  <2>3. garbledGates' \in Seq(S)
    BY <2>1, <2>2
  <2> QED BY <2>3 DEF S
<1>4. LayersInv'
  <2>1. Layered' = Layered
    BY <1>1 DEF Layered
  <2> QED BY <1>1, <2>1, LayersStay DEF IInv
<1>5. BucketsInv'
  <2>1. Bucketed' = Bucketed
    BY <1>1 DEF Bucketed
  <2> QED BY <1>1, <2>1, BucketsStay DEF IInv
<1>6. OrderInv'
  BY <1>1, OrderStays DEF IInv
<1>7. PackInv'
  BY PackGateKeepsPackInv
<1> QED BY <1>1, <1>2, <1>3, <1>4, <1>5, <1>6, <1>7, PackedGatesStay DEF IInv, buildVars

LEMMA FinishKeepsIInv ==
  ASSUME IInv, Finish
  PROVE  IInv'
<1>1. /\ pc = "pack" /\ pc' = "done" /\ i = NbGates /\ i' = i
      /\ UNCHANGED buildVars /\ UNCHANGED countVars /\ UNCHANGED bucketVars
      /\ UNCHANGED <<newGatesId, garbledGates, garbledTable>>
  BY DEF Finish, orderVars, pgcVars
<1>2. TypeOK'
  <2>1. /\ newGatesId \in Seq(Gates) /\ garbledTable \in Seq(NonXorGates(circuit))
        /\ i \in 0 .. NbGates
    BY <1>1 DEF IInv, TypeOK
  <2> QED BY <1>1, <2>1, TypeStays DEF IInv
<1>3. LayersInv'
  <2>1. Layered' = Layered
    BY <1>1 DEF Layered
  <2> QED BY <1>1, <2>1, LayersStay DEF IInv
<1>4. BucketsInv'
  <2>1. Bucketed' = Bucketed
    BY <1>1 DEF Bucketed
  <2> QED BY <1>1, <2>1, BucketsStay DEF IInv
<1>5. OrderInv'
  BY <1>1, OrderStays DEF IInv
<1>6. PackInv'
  <2>1. NbPacked' = NbPacked /\ PackInv
    BY <1>1 DEF NbPacked, IInv
  <2> QED BY <1>1, <2>1, PackStays
<1> QED BY <1>1, <1>2, <1>3, <1>4, <1>5, <1>6, PackedGatesStay DEF IInv, buildVars

--------------------------------------------------------------------------------
LEMMA StutteringKeepsIInv ==
  ASSUME IInv, UNCHANGED vars
  PROVE  IInv'
<1>1. /\ UNCHANGED buildVars /\ UNCHANGED countVars /\ UNCHANGED bucketVars
      /\ UNCHANGED <<pc, i, sublayer, newGatesId, garbledGates, garbledTable>>
  BY DEF vars, orderVars, pgcVars
<1>2. TypeOK'
  BY <1>1, TypeStays DEF IInv, TypeOK
<1>3. LayersInv => LayersInv'
  <2>1. Layered' = Layered
    BY <1>1 DEF Layered
  <2> QED BY <1>1, <2>1, LayersStay
<1>4. BucketsInv => BucketsInv'
  <2>1. Bucketed' = Bucketed
    BY <1>1 DEF Bucketed
  <2> QED BY <1>1, <2>1, BucketsStay
<1>5. OrderInv => OrderInv'
  <2>1. PlaceInv => PlaceInv'
    BY <1>1, KeysStay DEF PlaceInv, countVars, bucketVars
  <2>2. Placed' = Placed
    BY <1>1, KeysStay DEF Placed
  <2>3. \A l : Boundary(l)' <=> Boundary(l)
    BY <1>1, KeysStay DEF Boundary
  <2> QED BY <1>1, <2>1, <2>2, <2>3, KeysStay DEF OrderInv, Lists
<1>6. PackInv => PackInv'
  <2>1. NbPacked' = NbPacked
    BY <1>1 DEF NbPacked
  <2> QED BY <1>1, <2>1, PackStays
<1> QED BY <1>1, <1>2, <1>3, <1>4, <1>5, <1>6, PackedGatesStay DEF IInv, buildVars

LEMMA NextKeepsIInv ==
  ASSUME IInv, [Next]_vars
  PROVE  IInv'
BY AssignLayerKeepsIInv, EndKeepsIInv, MakeBucketsKeepsIInv, BucketGateKeepsIInv,
   StartOrderKeepsIInv, OrderSublayerKeepsIInv, StartPackKeepsIInv, PackGateKeepsIInv,
   FinishKeepsIInv, StutteringKeepsIInv DEF Next

--------------------------------------------------------------------------------
(* The word of a gate: fields one above the other. *)
LEMMA FieldSizeIsInt == FieldSize \in Int
BY PackBitsAssumption DEF FieldSize

(* A field above another one is found again. *)
LEMMA FieldAbove ==
  ASSUME NEW f \in Nat, NEW a \in 0 .. FieldSize - 1
  PROVE  Beyond(f * FieldSize + a) = f /\ Within(f * FieldSize + a) = a
<1> DEFINE F == FieldSize
           n == f * F + a
<1>1. F \in Nat \ {0}
  BY FieldSizeIsInt
<1>2. n \in Nat
  BY <1>1
<1>3. n = F * (n \div F) + (n % F) /\ n % F \in 0 .. F - 1 /\ n \div F \in Nat
  <2> HIDE DEF n, F
  <2> QED BY <1>1, <1>2
<1>4. n \div F = f
  <2> DEFINE d == n \div F
             r == n % F
  <2>0. n = F * d + r /\ r \in 0 .. F - 1 /\ d \in Nat
    BY <1>3
  <2>1. n = f * F + a
    OBVIOUS
  <2> HIDE DEF n, d, r
  <2>2. CASE d > f
    <3>1. PICK k \in Nat : d = f + 1 + k
      <4>1. d - f - 1 \in Nat /\ d = f + 1 + (d - f - 1)
        BY <2>0, <2>2
      <4> QED BY <4>1
    <3>2. F * d = F * f + F + F * k /\ F * k >= 0
      BY <1>1, <3>1
    <3> QED BY <1>1, <2>0, <2>1, <3>2
  <2>3. CASE d < f
    <3>1. PICK k \in Nat : f = d + 1 + k
      <4>1. f - d - 1 \in Nat /\ f = d + 1 + (f - d - 1)
        BY <2>0, <2>3
      <4> QED BY <4>1
    <3>2. F * f = F * d + F + F * k /\ F * k >= 0
      BY <1>1, <2>0, <3>1
    <3> QED BY <1>1, <2>0, <2>1, <3>2
  <2> QED BY <2>0, <2>2, <2>3 DEF d
<1>5. n % F = a
  <2>0. f * F = F * f /\ F * f \in Int
    BY <1>1
  <2>1. n = F * f + (n % F)
    <3> HIDE DEF n, F
    <3> QED BY <1>3, <1>4
  <2> DEFINE r == n % F
             m == F * f
  <2>2. n = m + a /\ n = m + r /\ m \in Int /\ r \in Int
    BY <1>3, <2>0, <2>1
  <2> HIDE DEF n, F, r, m
  <2>3. r = a
    BY <2>2
  <2> QED BY <2>3 DEF r
<1> QED BY <1>4, <1>5 DEF Beyond, Within

LEMMA FieldOfItsOwn ==
  ASSUME NEW a \in 0 .. FieldSize - 1
  PROVE  Within(a) = a /\ Beyond(a) = 0
<1>1. FieldSize \in Nat \ {0}
  BY FieldSizeIsInt
<1>2. 0 * FieldSize + a = a
  BY <1>1
<1> QED BY <1>2, FieldAbove

(* What is packed is unpacked, when every id fits in its field. *)
LEMMA UnpackPack ==
  ASSUME NEW isXor \in BOOLEAN, NEW in0 \in 0 .. FieldSize - 1,
         NEW in1 \in 0 .. FieldSize - 1, NEW out \in 0 .. FieldSize - 1
  PROVE  Unpack(Pack(isXor, in0, in1, out)) =
           [xor |-> isXor, in0 |-> in0, in1 |-> in1, out |-> out]
<1> DEFINE flag == IF isXor THEN 1 ELSE 0
           top  == flag * FieldSize + in0
           mid  == top * FieldSize + in1
           word == mid * FieldSize + out
<1>1. FieldSize \in Nat
  BY FieldSizeIsInt
<1>2. top \in Nat /\ mid \in Nat
  BY <1>1
<1>3. Pack(isXor, in0, in1, out) = word
  <2>1. BitOr(in0, 0) = in0 /\ BitOr(in1, 0) = in1
    BY DEF BitOr
  <2>2. (IF isXor THEN 1 ELSE Beyond(in0) % 2) = flag
    BY FieldOfItsOwn
  <2> QED BY <2>1, <2>2, FieldOfItsOwn DEF Pack
<1>4. Beyond(word) = mid /\ Within(word) = out
  <2> HIDE DEF mid
  <2> QED BY <1>2, FieldAbove
<1>5. Beyond(mid) = top /\ Within(mid) = in1
  <2> HIDE DEF top
  <2> QED BY <1>2, FieldAbove
<1>6. Beyond(top) = flag /\ Within(top) = in0
  BY FieldAbove
<1> HIDE DEF word, mid, top
<1> QED BY <1>3, <1>4, <1>5, <1>6 DEF Unpack

--------------------------------------------------------------------------------
(* What the invariant says of the order, once it is complete. *)
LEMMA IInvEveryGateOnce ==
  ASSUME IInv
  PROVE  EveryGateOnce
<1> SUFFICES ASSUME pc \in {"pack", "done"}
             PROVE  Len(newGatesId) = NbGates /\ ToSet(newGatesId) = Gates
  BY DEF EveryGateOnce
<1>1. Placed = Gates /\ OrderInv
  BY DEF IInv, Placed
<1> QED BY <1>1, GatesFinite, ListsCardinality DEF OrderInv, Lists

(* The start of the layer of the gate that reads is between the two. *)
LEMMA IInvBarrierSeparates ==
  ASSUME IInv
  PROVE  BarrierSeparates
<1> SUFFICES ASSUME pc = "done",
                    NEW p \in 1 .. NbGates, NEW q \in 1 .. NbGates,
                    circuit.out[newGatesId[p]] \in
                      {circuit.in0[newGatesId[q]], circuit.in1[newGatesId[q]]}
             PROVE  \E l \in 1 .. nbLayers - 1 :
                      p <= StartOf(layerCounts, l) /\ StartOf(layerCounts, l) < q
  BY DEF BarrierSeparates
<1> DEFINE l == LayerAt(newGatesId[q])
           m == LayerAt(newGatesId[p])
<1>1. /\ newGatesId[q] \in Gates /\ newGatesId[p] \in Gates
      /\ m \in 1 .. 3 /\ p <= GateStart(m + 1)
      /\ l \in 1 .. 3 /\ GateStart(l) < q /\ l + 1 <= nbLayers
  BY PlaceOfGate
<1>2. m < l
  <2>1. newGatesId[q] \in Layered /\ LayersInv
    BY <1>1 DEF Layered, Gates, IInv
  <2>2. l > layer[circuit.in0[newGatesId[q]]] /\ l > layer[circuit.in1[newGatesId[q]]]
    BY <2>1 DEF LayersInv
  <2>3. \/ m = layer[circuit.in0[newGatesId[q]]]
        \/ m = layer[circuit.in1[newGatesId[q]]]
    BY DEF LayerAt
  <2> HIDE DEF m, l
  <2> QED BY <1>1, <2>2, <2>3
<1>3. GateStart(m + 1) <= GateStart(l)
  <2> HIDE DEF m, l
  <2>1. CASE m = 1 /\ l = 2
    BY <2>1, StartsAre
  <2>2. CASE m = 1 /\ l = 3
    BY <2>2, StartsAre
  <2>3. CASE m = 2 /\ l = 3
    BY <2>3, StartsAre
  <2> QED BY <1>1, <1>2, <2>1, <2>2, <2>3
<1>4. GateStart(l) \in Nat /\ GateStart(m + 1) \in Nat
  <2> HIDE DEF m, l
  <2>1. l \in 0 .. 4 /\ m + 1 \in 0 .. 4
    BY <1>1
  <2> QED BY <2>1, CountsAreNat
<1>5. /\ l \in 1 .. nbLayers - 1
      /\ p <= StartOf(layerCounts, l) /\ StartOf(layerCounts, l) < q
  <2>1. nbLayers \in 0 .. 4
    BY DEF IInv, TypeOK
  <2> HIDE DEF m, l
  <2> QED BY <1>1, <1>3, <1>4, <2>1 DEF GateStart
<1> QED BY <1>5

(* A place of the l-th layer, as the counts have it, is one of a gate of it. *)
LEMMA LayerOfPlace ==
  ASSUME IInv, pc = "done", NEW l \in 1 .. nbLayers - 1,
         NEW p \in Int, GateStart(l) < p, p <= GateStart(l + 1)
  PROVE  p \in 1 .. NbGates /\ newGatesId[p] \in Gates /\ LayerAt(newGatesId[p]) = l
<1>1. nbLayers \in 0 .. 4 /\ OrderInv /\ Placed = Gates
  BY DEF IInv, TypeOK, Placed
<1>2. GateStart(l) \in Nat /\ GateStart(l + 1) \in Nat
  <2>1. l \in 0 .. 4 /\ l + 1 \in 0 .. 4
    BY <1>1
  <2> QED BY <2>1, CountsAreNat
<1>3. Boundary(l) /\ Boundary(l + 1)
  <2>1. l \in 1 .. nbLayers /\ l + 1 \in 1 .. nbLayers
    BY <1>1
  <2> QED BY <1>1, <2>1 DEF OrderInv
<1>4. newGatesId \in Seq(Gates) /\ Len(newGatesId) = NbGates
  BY <1>1, GatesFinite, ListsCardinality DEF OrderInv, Lists
<1>5. p \in 1 .. NbGates
  BY <1>2, <1>3, <1>4, CircuitAssumption DEF Boundary
<1>6. newGatesId[p] \in Gates
  BY <1>4, <1>5
<1>7. ~(LayerAt(newGatesId[p]) < l) /\ LayerAt(newGatesId[p]) < l + 1
  BY <1>2, <1>3, <1>4, <1>5 DEF Boundary
<1>8. LayerAt(newGatesId[p]) \in Int
  BY <1>6, GatesAreLayered
<1> QED BY <1>1, <1>5, <1>6, <1>7, <1>8

LEMMA IInvEvaluatorFindsTables ==
  ASSUME IInv
  PROVE  EvaluatorFindsTables
<1> SUFFICES ASSUME pc = "done", NEW l \in 1 .. nbLayers - 1,
                    NEW n \in StartOf(layerCounts, l) .. StartOf(layerCounts, l + 1) - 1,
                    ~IsXor(newGatesId[n + 1])
             PROVE  LET tableIndex == StartOf(layerNonXorCounts, l) + n
                                        - StartOf(layerCounts, l)
                    IN  /\ tableIndex < Len(garbledTable)
                        /\ garbledTable[tableIndex + 1] = newGatesId[n + 1]
  BY DEF EvaluatorFindsTables
<1>1. /\ GateStart(l) \in Nat /\ GateStart(l + 1) \in Nat /\ TablesStart(l) \in Nat
      /\ n \in GateStart(l) .. GateStart(l + 1) - 1
  <2>1. nbLayers \in 0 .. 4
    BY DEF IInv, TypeOK
  <2>2. l \in 0 .. 4 /\ l + 1 \in 0 .. 4
    BY <2>1
  <2> QED BY <2>2, CountsAreNat DEF GateStart
<1>2. n + 1 \in 1 .. NbGates /\ LayerAt(newGatesId[n + 1]) = l
  <2>1. n + 1 \in Int /\ GateStart(l) < n + 1 /\ n + 1 <= GateStart(l + 1)
    BY <1>1
  <2> QED BY <2>1, LayerOfPlace
<1>3. /\ TableAt(n + 1) \in 1 .. Len(garbledTable)
      /\ garbledTable[TableAt(n + 1)] = newGatesId[n + 1]
  <2>1. NbPacked = NbGates /\ PackInv
    BY DEF NbPacked, IInv
  <2> QED BY <1>2, <2>1 DEF PackInv
<1>4. TableAt(n + 1) = TablesStart(l) + (n + 1) - GateStart(l)
  BY <1>2 DEF TableAt
<1> DEFINE t == TablesStart(l) + n - GateStart(l)
<1>5. t + 1 = TableAt(n + 1) /\ t \in Int
  BY <1>1, <1>4
<1>6. t < Len(garbledTable) /\ garbledTable[t + 1] = newGatesId[n + 1]
  <2>1. Len(garbledTable) \in Nat
    BY DEF IInv, TypeOK
  <2> HIDE DEF t
  <2> QED BY <1>3, <1>5, <2>1
<1> QED BY <1>6 DEF TablesStart, GateStart

(* Two XOR gates of a layer are in the order of their buckets. *)
LEMMA IInvXorGatesByInput0 ==
  ASSUME IInv
  PROVE  XorGatesByInput0
<1> SUFFICES ASSUME pc = "done", NEW p \in 1 .. NbGates, NEW q \in 1 .. NbGates, p < q,
                    IsXor(newGatesId[p]), IsXor(newGatesId[q]),
                    LayerAt(newGatesId[p]) = LayerAt(newGatesId[q])
             PROVE  circuit.in0[newGatesId[p]] <= circuit.in0[newGatesId[q]]
  BY DEF XorGatesByInput0, LayerAt
<1> DEFINE g == newGatesId[p]
           h == newGatesId[q]
<1>1. g \in Gates /\ h \in Gates /\ Len(newGatesId) = NbGates
  BY PlaceOfGate
<1>2. NotAfter(g, h)
  BY <1>1 DEF IInv, OrderInv
<1>3. LayerAt(g) = LayerAt(h) /\ LayerAt(g) \in 1 .. 3 /\ IsXor(g) /\ IsXor(h)
  BY PlaceOfGate
<1>4. minInput0[LayerAt(g)] \in Nat
  <2>1. minInput0 \in [0 .. 3 -> 0 .. MaxId]
    BY DEF IInv, TypeOK, Layers
  <2> QED BY <1>3, <2>1, MaxIdAssumption
<1>5. circuit.in0[g] \in Nat /\ circuit.in0[h] \in Nat
  BY <1>1, CircuitTypes DEF IInv, TypeOK
<1> HIDE DEF g, h
<1>6. circuit.in0[g] <= circuit.in0[h]
  BY <1>2, <1>3, <1>4, <1>5 DEF NotAfter, SublayerAt
<1> QED BY <1>6 DEF g, h

(* Every id fits in its field. *)
IdsFit == Wires \subseteq 0 .. FieldSize - 1

(* The gate in a place is the one that was sorted there, if its ids fit. *)
LEMMA PackedGateUnpacks ==
  ASSUME IInv, IdsFit, NEW p \in DOMAIN garbledGates
  PROVE  LET g == newGatesId[p]
         IN  /\ g \in Gates
             /\ Unpack(garbledGates[p]) =
                  [xor |-> IsXor(g), in0 |-> circuit.in0[g],
                   in1 |-> circuit.in1[g], out |-> circuit.out[g]]
<1>1. pc \in {"pack", "done"} /\ PackInv
  BY DEF IInv
<1>2. p \in 1 .. NbPacked /\ NbPacked \in 0 .. NbGates
  BY <1>1, CircuitAssumption DEF IInv, TypeOK, PackInv, NbPacked
<1>3. newGatesId[p] \in Gates
  <2>1. p \in 1 .. NbGates
    BY <1>2, CircuitAssumption
  <2> QED BY <1>1, <2>1, PlaceOfGate
<1>4. /\ circuit.in0[newGatesId[p]] \in 0 .. FieldSize - 1
      /\ circuit.in1[newGatesId[p]] \in 0 .. FieldSize - 1
      /\ circuit.out[newGatesId[p]] \in 0 .. FieldSize - 1
  BY <1>3, CircuitTypes DEF IdsFit, IInv, TypeOK
<1>5. IsXor(newGatesId[p]) \in BOOLEAN
  BY DEF IsXor
<1>6. garbledGates[p] = PackedGate(newGatesId[p])
  BY <1>1, <1>2 DEF PackInv
<1> QED BY <1>3, <1>4, <1>5, <1>6, UnpackPack DEF PackedGate

(* No gate of a layer reads or writes what another one of it writes. *)
LEMMA LayerIsIndependent ==
  ASSUME IInv, pc = "done", NEW l \in 1 .. nbLayers - 1,
         NEW p \in Int, GateStart(l) < p, p <= GateStart(l + 1),
         NEW q \in Int, GateStart(l) < q, q <= GateStart(l + 1), p # q
  PROVE  LET g == newGatesId[p]
             h == newGatesId[q]
         IN  circuit.out[g] \notin {circuit.in0[h], circuit.in1[h], circuit.out[h]}
<1> DEFINE g == newGatesId[p]
           h == newGatesId[q]
<1>1. /\ p \in 1 .. NbGates /\ g \in Gates /\ LayerAt(g) = l
      /\ q \in 1 .. NbGates /\ h \in Gates /\ LayerAt(h) = l
  BY LayerOfPlace
<1>2. WellFormed(circuit) /\ Lists(newGatesId, Gates) /\ LayersInv /\ h \in Layered
  BY <1>1 DEF IInv, TypeOK, OrderInv, Placed, Layered, Gates
<1>3. g # h
  BY <1>1, <1>2, GatesFinite, ListsElements, ListsCardinality
<1>4. circuit.out[g] # circuit.out[h]
  BY <1>1, <1>2, <1>3, OutputsDiffer
<1>5. /\ LayerAt(h) > layer[circuit.in0[h]]
      /\ LayerAt(h) > layer[circuit.in1[h]]
  BY <1>2 DEF LayersInv
<1>6. l \in Int /\ layer[circuit.out[g]] = l
  BY <1>1 DEF LayerAt
<1>7. circuit.out[g] # circuit.in0[h] /\ circuit.out[g] # circuit.in1[h]
  <2> HIDE DEF g, h
  <2> QED BY <1>1, <1>5, <1>6
<1> QED BY <1>4, <1>7

(* Every gate is put in a place of its layer. *)
LEMMA GateHasPlace ==
  ASSUME IInv, pc = "done", NEW g \in Gates
  PROVE  \E p \in 1 .. NbGates :
           LET l == LayerAt(g)
           IN  /\ newGatesId[p] = g /\ l \in 1 .. nbLayers - 1
               /\ GateStart(l) < p /\ p <= GateStart(l + 1)
<1>1. Lists(newGatesId, Gates)
  BY DEF IInv, OrderInv, Placed
<1>2. PICK p \in 1 .. NbGates : newGatesId[p] = g
  <2>1. Len(newGatesId) = NbGates
    BY <1>1, GatesFinite, ListsCardinality
  <2>2. DOMAIN newGatesId = 1 .. NbGates
    BY <1>1, <2>1, ListsElements
  <2>3. g \in { newGatesId[p] : p \in DOMAIN newGatesId }
    BY <1>1 DEF Lists, ToSet
  <2> QED BY <2>2, <2>3
<1>3. LET l == LayerAt(g) IN GateStart(l) < p /\ p <= GateStart(l + 1)
  BY <1>2, PlaceOfGate
<1>4. LayerAt(g) \in 1 .. nbLayers - 1
  BY GatesAreLayered
<1> QED BY <1>2, <1>3, <1>4

(* What a gate reads is an input, or written by a gate of an earlier layer. *)
LEMMA ReadsAreEarlier ==
  ASSUME IInv, pc = "done", NEW l \in 1 .. nbLayers - 1,
         NEW p \in Int, GateStart(l) < p, p <= GateStart(l + 1),
         NEW w \in {circuit.in0[newGatesId[p]], circuit.in1[newGatesId[p]]}
  PROVE  \/ w \in Inputs
         \/ \E m \in 1 .. l - 1 : \E q \in 1 .. NbGates :
              /\ GateStart(m) < q /\ q <= GateStart(m + 1)
              /\ w = circuit.out[newGatesId[q]]
<1> DEFINE g == newGatesId[p]
<1>1. g \in Gates /\ LayerAt(g) = l
  BY LayerOfPlace
<1>2. WellFormed(circuit) /\ LayersInv /\ Layered = Gates
  BY DEF IInv, TypeOK, Layered, Gates
<1>3. w \in Inputs \cup { circuit.out[h] : h \in 0 .. g - 1 }
  BY <1>1, <1>2 DEF WellFormed
<1>4. ASSUME NEW h \in 0 .. g - 1, w = circuit.out[h]
      PROVE  \E m \in 1 .. l - 1 : \E q \in 1 .. NbGates :
               /\ GateStart(m) < q /\ q <= GateStart(m + 1)
               /\ w = circuit.out[newGatesId[q]]
  <2>1. h \in Gates
    BY <1>1, CircuitAssumption DEF Gates
  <2>2. PICK q \in 1 .. NbGates :
          /\ newGatesId[q] = h /\ LayerAt(h) \in 1 .. nbLayers - 1
          /\ GateStart(LayerAt(h)) < q /\ q <= GateStart(LayerAt(h) + 1)
    BY <2>1, GateHasPlace
  <2>3. LayerAt(g) > layer[circuit.in0[g]] /\ LayerAt(g) > layer[circuit.in1[g]]
    BY <1>1, <1>2 DEF LayersInv
  <2>4. LayerAt(h) < l
    BY <1>1, <1>4, <2>3 DEF LayerAt
  <2>5. LayerAt(h) \in 1 .. l - 1
    BY <2>2, <2>4
  <2> QED BY <1>4, <2>2, <2>5
<1> QED BY <1>3, <1>4

(* No two places hold gates with one output. *)
LEMMA OutputsHaveOnePlace ==
  ASSUME IInv, pc = "done",
         NEW l \in 1 .. nbLayers - 1, NEW p \in Int, GateStart(l) < p, p <= GateStart(l + 1),
         NEW m \in 1 .. nbLayers - 1, NEW q \in Int, GateStart(m) < q, q <= GateStart(m + 1),
         circuit.out[newGatesId[p]] = circuit.out[newGatesId[q]]
  PROVE  l = m /\ p = q
<1>1. /\ p \in 1 .. NbGates /\ newGatesId[p] \in Gates /\ LayerAt(newGatesId[p]) = l
      /\ q \in 1 .. NbGates /\ newGatesId[q] \in Gates /\ LayerAt(newGatesId[q]) = m
  BY LayerOfPlace
<1>2. WellFormed(circuit) /\ Lists(newGatesId, Gates)
  BY DEF IInv, TypeOK, OrderInv, Placed
<1>3. newGatesId[p] = newGatesId[q]
  BY <1>1, <1>2, OutputsDiffer
<1>4. p \in DOMAIN newGatesId /\ q \in DOMAIN newGatesId
  BY <1>1, <1>2, GatesFinite, ListsCardinality, ListsElements
<1>5. p = q
  BY <1>2, <1>3, <1>4 DEF Lists, IsInjective
<1> QED BY <1>1, <1>5

--------------------------------------------------------------------------------
THEOREM IInvAlways == Spec => []IInv
<1>1. Init => IInv
  BY InitIInv
<1>2. IInv /\ [Next]_vars => IInv'
  BY NextKeepsIInv
<1> QED BY <1>1, <1>2, PTL DEF Spec

(***************************************************************************)
(* Whatever the circuit and the build, layers, counts and the ranges of     *)
(* input 0 stay within the four layers and the 16 bits that the vectors are *)
(* made for (parallel_garbled_circuit.cpp:83-98): a gate beyond them ends   *)
(* the constructor, or loses it, before it is counted.                      *)
(***************************************************************************)
THEOREM TypesOK == Spec => []TypeOK
<1>1. IInv => TypeOK
  BY DEF IInv
<1> QED BY <1>1, IInvAlways, PTL

(***************************************************************************)
(* The counting sort loses no gate and repeats none, however many gates and *)
(* whatever ids they read (parallel_garbled_circuit.cpp:196-251).           *)
(***************************************************************************)
THEOREM SortKeepsEveryGate == Spec => []EveryGateOnce
<1>1. IInv => EveryGateOnce
  BY IInvEveryGateOnce
<1> QED BY <1>1, IInvAlways, PTL

(***************************************************************************)
(* A barrier of the evaluator separates each gate from those that read it:  *)
(* the layers the first loop assigns, the counts it collects and the order  *)
(* the third one builds agree (parallel_garbled_circuit.cpp:85-145).        *)
(***************************************************************************)
THEOREM BarriersSeparate == Spec => []BarrierSeparates
<1>1. IInv => BarrierSeparates
  BY IInvBarrierSeparates
<1> QED BY <1>1, IInvAlways, PTL

(***************************************************************************)
(* The index a thread computes for the table of its gate from the counts of *)
(* the layers (evaluate.cpp:116-128) is where the fourth loop has put it    *)
(* (parallel_garbled_circuit.cpp:253-302).                                  *)
(***************************************************************************)
THEOREM TablesAreFound == Spec => []EvaluatorFindsTables
<1>1. IInv => EvaluatorFindsTables
  BY IInvEvaluatorFindsTables
<1> QED BY <1>1, IInvAlways, PTL

(***************************************************************************)
(* Within a layer XOR gates come in the order of their input 0, although    *)
(* the buckets are chosen by ids cut to 16 bits: a gate whose bucket would  *)
(* be another one has none (parallel_garbled_circuit.cpp:136-139, 219-224). *)
(***************************************************************************)
THEOREM XorGatesAreSorted == Spec => []XorGatesByInput0
<1>1. IInv => XorGatesByInput0
  BY IInvXorGatesByInput0
<1> QED BY <1>1, IInvAlways, PTL

(***************************************************************************)
(* The assertion that parallel_garbled_circuit.cpp:278-279 takes for        *)
(* granted is enough: a circuit whose ids fit in 21 bits is unpacked as it  *)
(* was packed.  That nothing makes it is what the run with wider ids shows. *)
(***************************************************************************)
THEOREM FittingGatesUnpack == IdsFit => (Spec => []PackedGatesUnpack)
<1> SUFFICES ASSUME IdsFit PROVE Spec => []PackedGatesUnpack
  OBVIOUS
<1>1. IInv => PackedGatesUnpack
  BY PackedGateUnpacks DEF PackedGatesUnpack
<1> QED BY <1>1, IInvAlways, PTL

================================================================================
