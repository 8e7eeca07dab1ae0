------------------------------- MODULE Garble_proofs ------------------------------
(***************************************************************************)
(* Garble for every circuit: the labels of a wire can be told apart, tables *)
(* evaluate, and the search keeps the contract of the XorGateProcessor.     *)
(* When the circuit is one the search supports, it also finds whole         *)
(* connected sets, no label changes behind a finished gate, and the XOR     *)
(* gates evaluate by combining labels.                                      *)
(***************************************************************************)
EXTENDS Garble, FiniteSetTheorems, WellFoundedInduction, TLAPS

--------------------------------------------------------------------------------
(* A non-empty set of naturals has a minimum. *)
LEMMA MinOfNats ==
  ASSUME NEW S \in SUBSET Nat, S # {}
  PROVE  Min(S) \in S /\ \A y \in S : Min(S) <= y
<1> DEFINE Less == { p \in Nat \X Nat : p[1] < p[2] }
<1>1. IsWellFoundedOn(Less, Nat)
  BY NatLessThanWellFounded DEF OpToRel
<1>2. PICK x \in S : \A y \in S : <<y, x>> \notin Less
  <2> HIDE DEF Less
  <2> QED BY <1>1, WFMin
<1>3. \A y \in S : x <= y
  <2> SUFFICES ASSUME NEW y \in S PROVE ~ (y < x)
    OBVIOUS
  <2>1. x \in Nat /\ y \in Nat
    OBVIOUS
  <2>2. y < x => <<y, x>> \in Less
    BY <2>1
  <2> QED BY <1>2, <2>2
<1>4. \E z \in S : \A y \in S : z <= y
  BY <1>3
<1> QED BY <1>4, Zenon DEF Min

(* A list in the order of a key: every element once, by increasing key. *)
LEMMA InOrderLists ==
  ASSUME NEW S, IsFiniteSet(S), NEW key \in [S -> Int],
         \A x, y \in S : key[x] = key[y] => x = y
  PROVE  /\ InOrder(S, key) \in Seq(S)
         /\ ToSet(InOrder(S, key)) = S
         /\ Len(InOrder(S, key)) = Cardinality(S)
         /\ \A x \in S : (\A y \in S : key[x] <= key[y]) => InOrder(S, key)[1] = x
<1> DEFINE Below(x) == { y \in S : key[y] < key[x] }
           n == Cardinality(S)
           rank == [x \in S |-> Cardinality(Below(x))]
           s == InOrder(S, key)
<1>1. n \in Nat
  BY FS_CardinalityType
<1>2. ASSUME NEW x \in S
      PROVE  IsFiniteSet(Below(x)) /\ rank[x] \in 0 .. n - 1
  <2>1. Below(x) \in SUBSET (S \ {x})
    OBVIOUS
  <2>2. IsFiniteSet(S \ {x}) /\ Cardinality(S \ {x}) = n - 1
    BY FS_RemoveElement
  <2>3. IsFiniteSet(Below(x)) /\ Cardinality(Below(x)) <= n - 1
    BY <2>1, <2>2, FS_Subset
  <2>4. Cardinality(Below(x)) \in Nat
    BY <2>3, FS_CardinalityType
  <2> QED BY <1>1, <2>3, <2>4
<1>3. ASSUME NEW x \in S, NEW y \in S, key[x] < key[y]
      PROVE  rank[x] # rank[y]
  <2>1. Below(x) \cup {x} \in SUBSET Below(y) /\ x \notin Below(x)
    BY <1>3
  <2>2. Cardinality(Below(x) \cup {x}) = rank[x] + 1
    BY <1>2, <2>1, FS_AddElement
  <2>3. Cardinality(Below(x) \cup {x}) <= rank[y]
    BY <1>2, <2>1, FS_Subset
  <2>4. rank[x] \in 0 .. n - 1 /\ rank[y] \in 0 .. n - 1
    BY <1>2
  <2> QED BY <1>1, <2>2, <2>3, <2>4
<1>4. rank \in Injection(S, 0 .. n - 1)
  <2>1. rank \in [S -> 0 .. n - 1]
    BY <1>2
  <2>2. ASSUME NEW x \in S, NEW y \in S, rank[x] = rank[y] PROVE x = y
    <3>1. ~(key[x] < key[y]) /\ ~(key[y] < key[x])
      BY <1>3, <2>2
    <3> QED BY <3>1
  <2> HIDE DEF rank
  <2> QED BY <2>1, <2>2 DEF Injection, IsInjective
<1>5. rank \in Surjection(S, 0 .. n - 1)
  <2>1. IsFiniteSet(0 .. n - 1) /\ Cardinality(0 .. n - 1) = n
    BY <1>1, FS_Interval
  <2> HIDE DEF rank
  <2> QED BY <1>4, <2>1, FS_Injection
<1>6. \A k \in 1 .. n : \E x \in S : rank[x] = k - 1
  <2>1. \A k \in 0 .. n - 1 : \E x \in S : rank[x] = k
    <3> HIDE DEF rank
    <3> QED BY <1>5 DEF Surjection
  <2>2. \A k \in 1 .. n : k - 1 \in 0 .. n - 1
    <3> HIDE DEF n
    <3> QED BY <1>1
  <2> HIDE DEF rank, n
  <2> QED BY <2>1, <2>2
<1>7. s = [k \in 1 .. n |-> CHOOSE x \in S : Cardinality(Below(x)) = k - 1]
  BY DEF InOrder
<1>8. \A k \in 1 .. n : s[k] \in S /\ rank[s[k]] = k - 1
  <2> SUFFICES ASSUME NEW k \in 1 .. n PROVE s[k] \in S /\ rank[s[k]] = k - 1
    OBVIOUS
  <2>1. s[k] = CHOOSE x \in S : Cardinality(Below(x)) = k - 1
    <3> HIDE DEF s, Below
    <3> QED BY <1>7
  <2>2. \E x \in S : Cardinality(Below(x)) = k - 1
    BY <1>6
  <2>3. s[k] \in S /\ Cardinality(Below(s[k])) = k - 1
    <3> HIDE DEF s, Below
    <3> QED BY <2>1, <2>2, Zenon
  <2> QED BY <2>3
<1>9. s \in Seq(S) /\ Len(s) = n /\ DOMAIN s = 1 .. n
  <2>1. DOMAIN s = 1 .. n
    BY DEF InOrder
  <2>2. s \in [1 .. n -> S]
    <3>1. s = [k \in 1 .. n |-> s[k]]
      <4> DEFINE f(k) == CHOOSE x \in S : Cardinality(Below(x)) = k - 1
      <4>1. s = [k \in 1 .. n |-> f(k)]
        BY <1>7
      <4> HIDE DEF s, f
      <4> QED BY <4>1
    <3> HIDE DEF rank, s
    <3> QED BY <1>8, <3>1
  <2> HIDE DEF rank, s
  <2> QED BY <1>1, <2>1, <2>2
<1>10. ASSUME NEW x \in S PROVE s[rank[x] + 1] = x /\ rank[x] + 1 \in 1 .. n
  <2>1. rank[x] + 1 \in 1 .. n /\ rank[x] \in Int
    <3>1. rank[x] \in 0 .. n - 1
      BY <1>2
    <3> HIDE DEF rank, n
    <3> QED BY <1>1, <3>1
  <2>2. s[rank[x] + 1] \in S /\ rank[s[rank[x] + 1]] = rank[x]
    <3> HIDE DEF rank, s
    <3> QED BY <1>8, <2>1
  <2>3. s[rank[x] + 1] = x
    <3> HIDE DEF rank, s
    <3> QED BY <1>4, <2>2 DEF Injection, IsInjective
  <2> QED BY <2>1, <2>3
<1>11. ToSet(s) = S
  <2> HIDE DEF rank, s
  <2> QED BY <1>8, <1>9, <1>10 DEF ToSet
<1>12. ASSUME NEW x \in S, \A y \in S : key[x] <= key[y] PROVE s[1] = x
  <2>1. Below(x) = {}
    BY <1>12
  <2>2. rank[x] = 0
    BY <2>1, FS_EmptySet
  <2> QED BY <1>10, <2>2
<1> QED BY <1>9, <1>11, <1>12

--------------------------------------------------------------------------------
(* The circuit and the lists of the search. *)

LEMMA GatesAreFinite ==
  IsFiniteSet(Gates) /\ \A S \in SUBSET Gates : IsFiniteSet(S) /\ Cardinality(S) \in Nat
<1>1. IsFiniteSet(Gates)
  BY CircuitAssumption, FS_Interval DEF Gates
<1>2. ASSUME NEW S \in SUBSET Gates PROVE IsFiniteSet(S) /\ Cardinality(S) \in Nat
  BY <1>1, FS_Subset, FS_CardinalityType
<1> QED BY <1>1, <1>2

LEMMA ReadsAreWires ==
  ASSUME NEW c, WellFormed(c), NEW g \in Gates
  PROVE  /\ g \in Nat /\ g < NbGates /\ NbGates \in Nat
         /\ c.in0[g] \in Wires /\ c.in1[g] \in Wires /\ c.out[g] \in Wires
         /\ Reads(c, g) \subseteq Wires
         /\ Wires \subseteq Nat
BY CircuitAssumption DEF WellFormed, Reads, Gates, Wires

LEMMA SeqOfMore ==
  ASSUME NEW S, NEW T, S \subseteq T, NEW s \in Seq(S)
  PROVE  s \in Seq(T)
OBVIOUS

(* Two places with the same rank are one. *)
LEMMA SameRank ==
  ASSUME NEW N \in Nat, NEW a \in Nat, NEW b \in Nat,
         NEW x \in 0 .. N - 1, NEW y \in 0 .. N - 1, a * N + x = b * N + y
  PROVE  x = y
<1>1. ASSUME NEW d \in Nat, NEW e \in Nat, NEW u \in 0 .. N - 1, NEW v \in 0 .. N - 1,
             d < e
      PROVE  d * N + u < e * N + v
  <2>1. PICK k \in Nat : e = d + 1 + k
    <3>1. e - d - 1 \in Nat /\ e = d + 1 + (e - d - 1)
      BY <1>1
    <3> QED BY <3>1
  <2>2. e * N = d * N + N + k * N /\ d * N \in Nat /\ k * N \in Nat
    BY <2>1
  <2> QED BY <2>2
<1>2. ~(a < b) /\ ~(b < a)
  <2>1. a * N + x \in Int /\ b * N + y \in Int
    OBVIOUS
  <2>2. a < b => a * N + x < b * N + y
    BY <1>1
  <2>3. b < a => b * N + y < a * N + x
    BY <1>1
  <2> QED BY <2>1, <2>2, <2>3
<1>3. a = b
  BY <1>2
<1> QED BY <1>3

(* The gates that read one of the labels, every one once. *)
LEMMA ReadersFound ==
  ASSUME NEW c, WellFormed(c), NEW gates \in SUBSET Gates, NEW list \in Seq(Wires)
  PROVE  /\ ReadersInOrder(c, gates, list) \in Seq(gates)
         /\ ToSet(ReadersInOrder(c, gates, list))
              = { g \in gates : Reads(c, g) \cap ToSet(list) # {} }
<1> DEFINE readers == { g \in gates : Reads(c, g) \cap ToSet(list) # {} }
           places(g) == { k \in DOMAIN list : list[k] \in Reads(c, g) }
           first(g) == Min(places(g))
           key == [g \in readers |-> first(g) * NbGates + g]
<1>1. IsFiniteSet(readers)
  BY GatesAreFinite
<1>2. ASSUME NEW g \in readers PROVE first(g) \in Nat
  <2>1. places(g) \in SUBSET Nat
    OBVIOUS
  <2>2. places(g) # {}
    BY DEF ToSet
  <2> HIDE DEF places
  <2> QED BY <2>1, <2>2, MinOfNats
<1>3. \A g \in readers : g \in 0 .. NbGates - 1 /\ NbGates \in Nat
  BY CircuitAssumption DEF Gates
<1>4. key \in [readers -> Int]
  <2> HIDE DEF readers, first
  <2> QED BY <1>2, <1>3
<1>5. ASSUME NEW x \in readers, NEW y \in readers, key[x] = key[y] PROVE x = y
  <2>1. first(x) * NbGates + x = first(y) * NbGates + y
    <3> HIDE DEF readers, first
    <3> QED BY <1>5
  <2>2. first(x) \in Nat /\ first(y) \in Nat
    BY <1>2
  <2> HIDE DEF readers, first
  <2> QED BY <1>3, <2>1, <2>2, SameRank
<1>6. ReadersInOrder(c, gates, list) = InOrder(readers, key)
  BY DEF ReadersInOrder
<1>7. readers \subseteq gates
  OBVIOUS
<1> HIDE DEF readers, key
<1>8. InOrder(readers, key) \in Seq(readers) /\ ToSet(InOrder(readers, key)) = readers
  BY <1>1, <1>4, <1>5, InOrderLists
<1> QED BY <1>6, <1>7, <1>8 DEF readers

(***************************************************************************)
(* The inputs of a gate and its siblings, every one once.  If no sibling    *)
(* comes before the gate, a label that it reads is the first.               *)
(***************************************************************************)
LEMMA ParentsFound ==
  ASSUME NEW c, WellFormed(c), NEW gate \in XorGates(c)
  PROVE  LET parents == GetParentAndStepParentInputsFromGate(c, gate)
             taken0  == IF c.in0[gate] # 0 THEN Siblings(c, gate) ELSE {}
             taken1  == IF c.in1[gate] # 0 THEN Siblings(c, gate) ELSE {}
         IN  /\ parents \in Seq(Wires)
             /\ ToSet(parents) = { c.in0[s] : s \in taken0 } \cup { c.in1[s] : s \in taken1 }
             /\ /\ Reads(c, gate) # {0}
                /\ \A s \in Siblings(c, gate) : gate <= s
                => Len(parents) >= 1 /\ parents[1] \in Reads(c, gate)
<1> DEFINE in0 == c.in0
           in1 == c.in1
           taken0 == IF in0[gate] # 0 THEN Siblings(c, gate) ELSE {}
           taken1 == IF in1[gate] # 0 THEN Siblings(c, gate) ELSE {}
           turn(s) == IF in0[gate] \in Reads(c, s) \ {0} THEN s ELSE NbGates + s
           places(label) == { 2 * turn(s)     : s \in { t \in taken0 : in0[t] = label } }
                       \cup { 2 * turn(s) + 1 : s \in { t \in taken1 : in1[t] = label } }
           parents == { in0[s] : s \in taken0 } \cup { in1[s] : s \in taken1 }
           key == [label \in parents |-> Min(places(label))]
           list == InOrder(parents, key)
<1>1. /\ taken0 \subseteq Siblings(c, gate) /\ taken1 \subseteq Siblings(c, gate)
      /\ Siblings(c, gate) \subseteq Gates /\ gate \in Gates
  BY DEF Siblings, XorGates
<1>2. \A s \in Siblings(c, gate) :
        /\ s \in Nat /\ s < NbGates /\ NbGates \in Nat /\ turn(s) \in Nat
        /\ s <= turn(s) /\ in0[s] \in Wires /\ in1[s] \in Wires
  BY <1>1, ReadsAreWires
<1>3. \A s, t \in Siblings(c, gate) : turn(s) = turn(t) => s = t
  BY <1>2
<1>4. parents \subseteq Wires /\ Wires \subseteq Nat
  <2> HIDE DEF taken0, taken1, in0, in1
  <2> QED BY <1>1, <1>2, ReadsAreWires
<1>5. IsFiniteSet(parents)
  <2>1. IsFiniteSet(Wires)
    BY CircuitAssumption, FS_Interval DEF Wires
  <2> HIDE DEF parents
  <2> QED BY <1>4, <2>1, FS_Subset
<1> HIDE DEF turn, taken0, taken1, in0, in1
<1>6. ASSUME NEW label \in parents
      PROVE  /\ Min(places(label)) \in places(label)
             /\ \A p \in places(label) : Min(places(label)) <= p
  <2>1. places(label) \in SUBSET Nat
    BY <1>1, <1>2
  <2>2. places(label) # {}
    OBVIOUS
  <2> HIDE DEF places
  <2> QED BY <2>1, <2>2, MinOfNats
<1>7. ASSUME NEW a \in parents, NEW b \in parents, NEW v,
             v \in places(a), v \in places(b)
      PROVE  a = b
  <2>1. \/ \E s \in taken0 : in0[s] = a /\ v = 2 * turn(s)
        \/ \E s \in taken1 : in1[s] = a /\ v = 2 * turn(s) + 1
    BY <1>7
  <2>2. \/ \E s \in taken0 : in0[s] = b /\ v = 2 * turn(s)
        \/ \E s \in taken1 : in1[s] = b /\ v = 2 * turn(s) + 1
    BY <1>7
  <2>3. \A m, n \in Nat : 2 * m # 2 * n + 1 /\ (2 * m = 2 * n => m = n)
                          /\ (2 * m + 1 = 2 * n + 1 => m = n)
    OBVIOUS
  <2> HIDE DEF places, parents
  <2> QED BY <1>1, <1>2, <1>3, <2>1, <2>2, <2>3
<1>8. key \in [parents -> Int] /\ \A a, b \in parents : key[a] = key[b] => a = b
  <2>1. \A a \in parents : places(a) \subseteq Nat
    BY <1>1, <1>2
  <2> HIDE DEF places, parents
  <2> QED BY <1>6, <1>7, <2>1
<1>9. /\ list \in Seq(parents) /\ Len(list) = Cardinality(parents)
      /\ ToSet(list) = parents
      /\ \A x \in parents : (\A y \in parents : key[x] <= key[y]) => list[1] = x
  <2> HIDE DEF parents, key
  <2> QED BY <1>5, <1>8, InOrderLists
<1>10. list \in Seq(Wires)
  <2> HIDE DEF list, parents
  <2> QED BY <1>4, <1>9, SeqOfMore
<1>11. ASSUME Reads(c, gate) # {0}, \A s \in Siblings(c, gate) : gate <= s
       PROVE  Len(list) >= 1 /\ list[1] \in Reads(c, gate)
  <2>1. gate \in Siblings(c, gate)
    BY <1>11 DEF Siblings, Reads
  <2>2. ASSUME NEW x \in parents, NEW p \in places(x),
               \A y \in parents : \A q \in places(y) : p <= q
        PROVE  list[1] = x /\ Len(list) >= 1
    <3>1. \A y \in parents : key[x] <= key[y]
      <4> SUFFICES ASSUME NEW y \in parents PROVE key[x] <= key[y]
        OBVIOUS
      <4>1. key[x] <= p /\ p <= key[y]
        <5> HIDE DEF places, parents
        <5> QED BY <1>6, <2>2
      <4>2. p \in Nat
        BY <1>1, <1>2, <2>2
      <4> HIDE DEF places, parents, key
      <4>3. key[x] \in Int /\ key[y] \in Int
        BY <1>8
      <4> QED BY <4>1, <4>2, <4>3
    <3>2. Cardinality(parents) \in Nat /\ Cardinality(parents) # 0
      <4> HIDE DEF places, parents
      <4> QED BY <1>5, FS_CardinalityType, FS_EmptySet
    <3> HIDE DEF places, parents, key, list
    <3> QED BY <1>9, <3>1, <3>2
  <2>3. CASE in0[gate] # 0
    <3>1. turn(gate) = gate /\ gate \in taken0
      BY <2>1, <2>3 DEF turn, taken0, Reads, in0
    <3>2. in0[gate] \in parents /\ 2 * gate \in places(in0[gate])
      BY <3>1
    <3>3. ASSUME NEW y \in parents, NEW q \in places(y) PROVE 2 * gate <= q
      <4>1. \E s \in Siblings(c, gate) : q = 2 * turn(s) \/ q = 2 * turn(s) + 1
        BY <1>1
      <4> HIDE DEF places, parents
      <4> QED BY <1>1, <1>2, <1>11, <2>1, <4>1
    <3>4. in0[gate] \in Reads(c, gate)
      BY DEF Reads, in0
    <3> HIDE DEF places, parents, list
    <3> QED BY <2>2, <3>2, <3>3, <3>4
  <2>4. CASE in0[gate] = 0
    <3>1. /\ in1[gate] # 0 /\ taken0 = {} /\ gate \in taken1
          /\ \A s \in Siblings(c, gate) : turn(s) = NbGates + s
      BY <1>11, <2>1, <2>4 DEF turn, taken0, taken1, Reads, in0, in1
    <3>2. in1[gate] \in parents /\ 2 * turn(gate) + 1 \in places(in1[gate])
      BY <3>1
    <3>3. ASSUME NEW y \in parents, NEW q \in places(y) PROVE 2 * turn(gate) + 1 <= q
      <4>1. \E s \in Siblings(c, gate) : q = 2 * turn(s) + 1
        BY <1>1, <3>1
      <4> HIDE DEF places, parents
      <4> QED BY <1>1, <1>2, <1>11, <2>1, <3>1, <4>1
    <3>4. in1[gate] \in Reads(c, gate)
      BY DEF Reads, in1
    <3> HIDE DEF places, parents, list
    <3> QED BY <2>2, <3>2, <3>3, <3>4
  <2> QED BY <2>3, <2>4
<1>12. GetParentAndStepParentInputsFromGate(c, gate) = list
  BY DEF GetParentAndStepParentInputsFromGate, turn, taken0, taken1, in0, in1
<1>13. ToSet(list) = { c.in0[s] : s \in IF c.in0[gate] # 0 THEN Siblings(c, gate) ELSE {} }
                \cup { c.in1[s] : s \in IF c.in1[gate] # 0 THEN Siblings(c, gate) ELSE {} }
  <2> HIDE DEF list
  <2> QED BY <1>9 DEF taken0, taken1, in0, in1
<1> HIDE DEF list
<1> QED BY <1>10, <1>11, <1>12, <1>13

(* The root inputs are cut short, at the gate's own id, but not before the first. *)
LEMMA RootsFound ==
  ASSUME NEW c, WellFormed(c), NEW gate \in XorGates(c)
  PROVE  /\ RootInputs(c, gate) \in Seq(Wires)
         /\ gate \notin ToSet(GetParentAndStepParentInputsFromGate(c, gate))
            => RootInputs(c, gate) = GetParentAndStepParentInputsFromGate(c, gate)
         /\ /\ Reads(c, gate) # {0}
            /\ \A s \in Siblings(c, gate) : gate <= s
            => Reads(c, gate) \cap ToSet(RootInputs(c, gate)) # {}
<1> DEFINE inputs == GetParentAndStepParentInputsFromGate(c, gate)
           upToGateId == { k \in 1 .. Len(inputs) : inputs[k] = gate }
           k0 == CHOOSE k \in upToGateId : TRUE
           roots == RootInputs(c, gate)
<1>1. /\ inputs \in Seq(Wires)
      /\ /\ Reads(c, gate) # {0}
         /\ \A s \in Siblings(c, gate) : gate <= s
         => Len(inputs) >= 1 /\ inputs[1] \in Reads(c, gate)
  BY ParentsFound
<1>2. roots = IF upToGateId = {} THEN inputs ELSE SubSeq(inputs, 1, k0)
  BY DEF RootInputs
<1>3. upToGateId # {} => k0 \in 1 .. Len(inputs)
  OBVIOUS
<1> HIDE DEF inputs, upToGateId, k0
<1>4. /\ roots \in Seq(Wires)
      /\ Len(inputs) >= 1 => Len(roots) >= 1 /\ roots[1] = inputs[1]
  <2>1. CASE upToGateId = {}
    BY <1>1, <1>2, <2>1
  <2>2. CASE upToGateId # {}
    <3>1. roots = SubSeq(inputs, 1, k0) /\ k0 \in 1 .. Len(inputs)
      BY <1>2, <1>3, <2>2
    <3> HIDE DEF roots
    <3> QED BY <1>1, <3>1
  <2> QED BY <2>1, <2>2
<1> HIDE DEF roots
<1>5. Len(roots) >= 1 => roots[1] \in ToSet(roots)
  <2>1. Len(roots) \in Nat /\ DOMAIN roots = 1 .. Len(roots)
    BY <1>4
  <2> QED BY <2>1 DEF ToSet
<1>6. /\ Reads(c, gate) # {0}
      /\ \A s \in Siblings(c, gate) : gate <= s
      => Reads(c, gate) \cap ToSet(roots) # {}
  BY <1>1, <1>4, <1>5
<1>7. gate \notin ToSet(inputs) => roots = inputs
  <2>1. DOMAIN inputs = 1 .. Len(inputs)
    BY <1>1
  <2>2. gate \notin ToSet(inputs) => upToGateId = {}
    BY <2>1 DEF ToSet, upToGateId
  <2> QED BY <1>2, <2>2
<1> QED BY <1>4, <1>6, <1>7 DEF roots, inputs

(* What a round finds, and the labels of the next one. *)
LEMMA RoundFinds ==
  ASSUME NEW c, WellFormed(c), NEW marks, NEW list \in Seq(Wires)
  PROVE  LET found == NewGates(c, marks, list)
         IN  /\ found \in Seq(XorGates(c))
             /\ ToSet(found) = { g \in XorGates(c) \ marks : Reads(c, g) \cap ToSet(list) # {} }
             /\ OutputsOf(c, found) \in Seq(Wires)
<1> DEFINE found == NewGates(c, marks, list)
<1>1. XorGates(c) \subseteq Gates
  BY DEF XorGates
<1>2. /\ found \in Seq(XorGates(c) \ marks)
      /\ ToSet(found) = { g \in XorGates(c) \ marks : Reads(c, g) \cap ToSet(list) # {} }
  <2> DEFINE gates == XorGates(c) \ marks
  <2>1. gates \in SUBSET Gates
    BY <1>1
  <2> HIDE DEF gates
  <2>2. /\ ReadersInOrder(c, gates, list) \in Seq(gates)
        /\ ToSet(ReadersInOrder(c, gates, list)) =
             { g \in gates : Reads(c, g) \cap ToSet(list) # {} }
    BY <2>1, ReadersFound
  <2> QED BY <2>2 DEF gates, NewGates
<1> HIDE DEF found
<1>3. found \in Seq(XorGates(c))
  BY <1>2, SeqOfMore
<1>4. OutputsOf(c, found) \in Seq(Wires)
  <2>1. Len(found) \in Nat /\ \A k \in 1 .. Len(found) : c.out[found[k]] \in Wires
    BY <1>1, <1>3, ReadsAreWires
  <2>2. OutputsOf(c, found) = [k \in 1 .. Len(found) |-> c.out[found[k]]]
    BY DEF OutputsOf
  <2> QED BY <2>1, <2>2
<1> QED BY <1>2, <1>3, <1>4 DEF found

--------------------------------------------------------------------------------
(* The inductive invariant. *)

Seeds == INSTANCE XorGateProcessor_proofs

(* The gates of earlier searches; while a search is on, not those of its own. *)
Marked ==
  IF pc \in {"search", "xor"} THEN gatesIndexes \ ToSet(allGates) ELSE gatesIndexes

(***************************************************************************)
(* The flags cleared are those of the gates earlier searches have returned, *)
(* and the iterator is at a gate that waits.  In a debug build, where every *)
(* subgraph holds its seed, the scan has skipped none.                      *)
(***************************************************************************)
WorklistInv ==
  /\ \A g \in Gates : g \notin XorGates(circuit) => toBeProcessed[g] = 0
  /\ seedGateIt # NbGates => toBeProcessed[seedGateIt] = 1
  /\ pc \in {"seed", "search", "xor"} =>
       /\ \A g \in XorGates(circuit) : toBeProcessed[g] = 0 <=> g \in Marked
       /\ ~ndebug => Processor!NoGateSkipped

(* In a debug build the seed is found, and it is in the first round. *)
SearchInv ==
  /\ labels \in Seq(Wires)
  /\ pc \in {"search", "xor"} =>
       /\ seedGateIt # NbGates
       /\ ToSet(allGates) \subseteq gatesIndexes
       /\ round = 0 => allGates = <<>> /\ pc = "search"
       /\ round = 0 /\ ~ndebug => Reads(circuit, seedGateIt) \cap ToSet(labels) # {}
       /\ round # 0 /\ ~ndebug => seedGateIt \in ToSet(allGates)

(* Two labels per wire, with different lowest bits. *)
TwoLabels(ws) ==
  /\ ws = [w \in Wires |-> [label0 |-> ws[w].label0, label1 |-> ws[w].label1]]
  /\ \A w \in Wires : GetLsb(ws[w].label0) # GetLsb(ws[w].label1)

(* While an offset is in use its lowest bit is 1. *)
LabelsInv == TwoLabels(wires) /\ (pc = "xor" => Lsb \in R)

Tables == { TableOf(g) : g \in NonXorGates(circuit) }

Early == {"seed", "search", "xor", "aborted"}

(* The tables are made when the labels are final, and the map has their places. *)
TablesInv ==
  /\ pc \in Early => garbledTable = <<>> /\ garbledTableIndexMap = <<>>
  /\ garbledTable \in Seq(Tables)
  /\ \A g \in DOMAIN garbledTableIndexMap :
       \E n \in 1 .. Len(garbledTable) :
         garbledTable[n] = TableOf(g) /\ garbledTableIndexMap[g] = ToInt16(n - 1)
  /\ pc = "done" => NonXorGates(circuit) \subseteq DOMAIN garbledTableIndexMap

IInv == TypeOK /\ WorklistInv /\ SearchInv /\ LabelsInv /\ TablesInv

--------------------------------------------------------------------------------
(* The labels. *)

LEMMA XorFlips ==
  ASSUME NEW x, NEW y
  PROVE  /\ Lsb \in Xor(x, y) <=> ~(Lsb \in x <=> Lsb \in y)
         /\ GetLsb(x) # GetLsb(y) <=> ~(Lsb \in x <=> Lsb \in y)
<1>1. Lsb \in Xor(x, y) <=> ~(Lsb \in x <=> Lsb \in y)
  BY DEF Xor
<1>2. GetLsb(x) # GetLsb(y) <=> ~(Lsb \in x <=> Lsb \in y)
  BY DEF GetLsb
<1> QED BY <1>1, <1>2

LEMMA NewRIsOdd ==
  ASSUME NEW tag
  PROVE  Lsb \in NewR(tag)
BY DEF NewR, NewRandom

(* A record of two labels for one wire keeps the others as they were. *)
LEMMA SetWire ==
  ASSUME NEW ws, TwoLabels(ws), NEW w \in Wires, NEW x, NEW y, GetLsb(x) # GetLsb(y),
         NEW v, v = [ws EXCEPT ![w] = [label0 |-> x, label1 |-> y]]
  PROVE  /\ TwoLabels(v)
         /\ v[w].label0 = x /\ v[w].label1 = y
<1>1. DOMAIN ws = Wires
  BY DEF TwoLabels
<1>2. /\ DOMAIN v = Wires /\ v[w] = [label0 |-> x, label1 |-> y]
      /\ \A u \in Wires : u # w => v[u] = ws[u]
  BY <1>1
<1>3. \A u \in Wires : ws[u] = [label0 |-> ws[u].label0, label1 |-> ws[u].label1]
  BY DEF TwoLabels
<1>4. ASSUME NEW u \in Wires
      PROVE  /\ v[u] = [label0 |-> v[u].label0, label1 |-> v[u].label1]
             /\ GetLsb(v[u].label0) # GetLsb(v[u].label1)
  BY <1>2, <1>3 DEF TwoLabels
<1>5. v = [u \in Wires |-> v[u]]
  BY <1>1
<1>6. v = [u \in Wires |-> [label0 |-> v[u].label0, label1 |-> v[u].label1]]
  BY <1>4, <1>5
<1> QED BY <1>2, <1>4, <1>6 DEF TwoLabels

(* However the wires of a XOR gate are shared, its labels differ in a bit. *)
LEMMA XorGateLabels ==
  ASSUME NEW ws, TwoLabels(ws), Lsb \in R, WellFormed(circuit), NEW g \in Gates
  PROVE  TwoLabels(SetXorGate(ws, g))
<1> DEFINE setInput(v, w) == [v EXCEPT ![w].label1 = Xor(R, v[w].label0)]
           i0 == circuit.in0[g]
           i1 == circuit.in1[g]
           v1 == setInput(ws, i0)
           v2 == setInput(v1, i1)
           x  == Xor(v2[i0].label0, v2[i1].label0)
           y  == Xor(v2[i0].label0, v2[i1].label1)
<1>1. i0 \in Wires /\ i1 \in Wires /\ circuit.out[g] \in Wires
  BY ReadsAreWires
<1>2. ASSUME NEW v, TwoLabels(v), NEW w \in Wires PROVE TwoLabels(setInput(v, w))
  <2>1. v[w] = [label0 |-> v[w].label0, label1 |-> v[w].label1] /\ DOMAIN v = Wires
    BY <1>2 DEF TwoLabels
  <2>2. [v[w] EXCEPT !.label1 = Xor(R, v[w].label0)]
          = [label0 |-> v[w].label0, label1 |-> Xor(R, v[w].label0)]
    BY <2>1
  <2>3. setInput(v, w) = [v EXCEPT ![w] = [v[w] EXCEPT !.label1 = Xor(R, v[w].label0)]]
    BY <2>1
  <2>4. GetLsb(v[w].label0) # GetLsb(Xor(R, v[w].label0))
    BY XorFlips
  <2> DEFINE z  == setInput(v, w)
             l0 == v[w].label0
             l1 == Xor(R, l0)
  <2>5. z = [v EXCEPT ![w] = [label0 |-> l0, label1 |-> l1]] /\ GetLsb(l0) # GetLsb(l1)
    BY <2>2, <2>3, <2>4
  <2> HIDE DEF z, l0, l1
  <2>6. TwoLabels(z)
    BY <1>2, <2>5, SetWire
  <2> QED BY <2>6 DEF z
<1>3. TwoLabels(v1)
  <2> HIDE DEF setInput
  <2> QED BY <1>1, <1>2
<1>4. TwoLabels(v2)
  <2> HIDE DEF setInput, v1
  <2> QED BY <1>1, <1>2, <1>3
<1>5. SetXorGate(ws, g) = [v2 EXCEPT ![circuit.out[g]] = [label0 |-> x, label1 |-> y]]
  BY DEF SetXorGate
<1> HIDE DEF v2
<1>6. GetLsb(x) # GetLsb(y)
  <2> DEFINE a  == v2[i0].label0
             b0 == v2[i1].label0
             b1 == v2[i1].label1
  <2>1. GetLsb(b0) # GetLsb(b1)
    BY <1>1, <1>4 DEF TwoLabels
  <2> HIDE DEF a, b0, b1
  <2>2. GetLsb(Xor(a, b0)) # GetLsb(Xor(a, b1))
    BY <2>1, XorFlips
  <2> QED BY <2>2 DEF a, b0, b1
<1> DEFINE z == SetXorGate(ws, g)
           o == circuit.out[g]
<1> HIDE DEF x, y, z, o
<1>7. z = [v2 EXCEPT ![o] = [label0 |-> x, label1 |-> y]] /\ o \in Wires
  BY <1>1, <1>5 DEF z, o
<1>8. TwoLabels(z)
  BY <1>4, <1>6, <1>7, SetWire
<1> QED BY <1>8 DEF z

LEMMA LabelsStay ==
  ASSUME LabelsInv, UNCHANGED wires, pc' = "xor" => Lsb \in R'
  PROVE  LabelsInv'
BY DEF LabelsInv, TwoLabels

LEMMA NoTablesYet ==
  ASSUME garbledTable' = <<>>, garbledTableIndexMap' = <<>>, pc' # "done"
  PROVE  TablesInv'
<1>1. DOMAIN garbledTableIndexMap' = {}
  OBVIOUS
<1> QED BY <1>1 DEF TablesInv

--------------------------------------------------------------------------------
(* The initial states and the search. *)

LEMMA InitIInv == Init => IInv
<1> SUFFICES ASSUME Init PROVE IInv
  OBVIOUS
<1>1. WellFormed(circuit) /\ ndebug \in BOOLEAN /\ pc = "seed"
  BY CircuitAssumption DEF Init, GraphInit
<1>2. seedGateIt \in 0 .. NbGates
  BY CircuitAssumption DEF Init, Processor!Find
<1>3. TypeOK
  <2>1. Len(garbledTable) = Cardinality(DOMAIN garbledTableIndexMap)
        /\ DOMAIN garbledTableIndexMap \subseteq NonXorGates(circuit)
    <3>1. garbledTable = <<>> /\ DOMAIN garbledTableIndexMap = {}
      BY DEF Init
    <3> QED BY <3>1, FS_EmptySet
  <2>2. DOMAIN wires = Wires
    BY DEF Init, RandomWires
  <2>3. /\ gatesIndexes = {} /\ allGates = <<>> /\ round = 0 /\ labelled = 0
        /\ toBeProcessed \in [Gates -> {0, 1}]
    BY DEF Init, GraphInit
  <2> QED BY <1>1, <1>2, <2>1, <2>2, <2>3 DEF TypeOK
<1>4. WorklistInv
  <2>1. toBeProcessed = [g \in Gates |-> IF g \in XorGates(circuit) THEN 1 ELSE 0]
    BY DEF Init
  <2>2. /\ seedGateIt = NbGates \/ toBeProcessed[seedGateIt] = 1
        /\ \A j \in 0 .. seedGateIt - 1 : toBeProcessed[j] = 0
    BY DEF Init, Processor!Find
  <2>3. Processor!NoGateSkipped
    <3>1. \A g \in Gates : g < seedGateIt => g \in 0 .. seedGateIt - 1
      BY <1>2, CircuitAssumption DEF Gates
    <3> QED BY <2>2, <3>1 DEF Processor!NoGateSkipped, Processor!Gates, Gates
  <2>4. Marked = {}
    BY <1>1 DEF Marked, Init, GraphInit
  <2>5. \A g \in XorGates(circuit) : toBeProcessed[g] = 1
    BY <2>1 DEF XorGates
  <2> QED BY <2>1, <2>2, <2>3, <2>4, <2>5 DEF WorklistInv
<1>5. SearchInv
  BY <1>1 DEF Init, GraphInit, SearchInv
<1>6. LabelsInv
  <2>1. PICK lsbs \in LabelLsbs : wires = RandomWires(lsbs)
    BY DEF Init
  <2> DEFINE l0(w) == NewRandom(<<"label", w>>, lsbs[w])
             l1(w) == Xor(NewR(<<"R", w>>), l0(w))
  <2>2. wires = [w \in Wires |-> [label0 |-> l0(w), label1 |-> l1(w)]]
    BY <2>1 DEF RandomWires
  <2>3. \A w \in Wires : GetLsb(l0(w)) # GetLsb(l1(w))
    BY NewRIsOdd, XorFlips
  <2> HIDE DEF l0, l1
  <2>4. TwoLabels(wires)
    BY <2>2, <2>3 DEF TwoLabels
  <2> QED BY <1>1, <2>4 DEF LabelsInv
<1>7. TablesInv
  <2>1. DOMAIN garbledTableIndexMap = {} /\ garbledTable = <<>>
    BY DEF Init
  <2> QED BY <1>1, <2>1 DEF TablesInv, Init
<1> QED BY <1>3, <1>4, <1>5, <1>6, <1>7 DEF IInv

(* What the type says of the flags, and what the seed is. *)
LEMMA SeedIsXor ==
  ASSUME IInv, seedGateIt # NbGates
  PROVE  /\ Processor!GetNextSeedGate = seedGateIt
         /\ seedGateIt \in XorGates(circuit) /\ seedGateIt \in Gates
         /\ toBeProcessed[seedGateIt] = 1
<1>1. seedGateIt \in Gates
  BY CircuitAssumption DEF IInv, TypeOK, Gates
<1>2. toBeProcessed[seedGateIt] = 1
  BY DEF IInv, WorklistInv
<1>3. seedGateIt \in XorGates(circuit)
  BY <1>1, <1>2 DEF IInv, WorklistInv
<1> QED BY <1>1, <1>2, <1>3 DEF Processor!GetNextSeedGate

LEMMA NextSeed ==
  ASSUME IInv
  PROVE  Processor!GetNextSeedGate >= 0 => seedGateIt # NbGates
BY DEF Processor!GetNextSeedGate

LEMMA StartSearchKeepsIInv ==
  ASSUME IInv, StartSearch
  PROVE  IInv'
<1>1. seedGateIt # NbGates
  BY NextSeed DEF StartSearch
<1>2. /\ pc = "seed" /\ pc' = "search"
      /\ allGates' = <<>> /\ round' = 0 /\ labelled' = 0
      /\ labels' = RootInputs(circuit, seedGateIt)
      /\ ndebug \/ SeedAsserts(seedGateIt)
      /\ UNCHANGED <<ndebug, circuit, gatesIndexes>>
      /\ UNCHANGED <<wires, toBeProcessed, seedGateIt, garbledTable, garbledTableIndexMap>>
  BY <1>1, SeedIsXor DEF StartSearch, BeginFindAllGates, processorVars, tableVars
<1>3. TypeOK'
  BY <1>2 DEF IInv, TypeOK
<1>4. WorklistInv'
  <2>1. Marked' = Marked
    BY <1>2 DEF Marked, ToSet
  <2> QED BY <1>2, <2>1 DEF IInv, WorklistInv, Processor!NoGateSkipped
<1>5. SearchInv'
  <2>1. /\ RootInputs(circuit, seedGateIt) \in Seq(Wires)
        /\ /\ Reads(circuit, seedGateIt) # {0}
           /\ \A h \in Siblings(circuit, seedGateIt) : seedGateIt <= h
           => Reads(circuit, seedGateIt) \cap ToSet(RootInputs(circuit, seedGateIt)) # {}
    BY <1>1, SeedIsXor, RootsFound DEF IInv, TypeOK
  <2>2. ASSUME ~ndebug PROVE Reads(circuit, seedGateIt) # {0}
    BY <1>2, <2>2 DEF SeedAsserts, Reads
  <2>3. ASSUME ~ndebug, NEW h \in Siblings(circuit, seedGateIt) PROVE seedGateIt <= h
    <3>1. h \in XorGates(circuit) /\ h \in Gates /\ h \notin gatesIndexes
      BY <1>2, <2>3 DEF SeedAsserts, Siblings, XorGates
    <3>2. toBeProcessed[h] # 0
      BY <1>2, <3>1 DEF IInv, WorklistInv, Marked
    <3>3. ~(h < seedGateIt)
      BY <1>2, <2>3, <3>1, <3>2
         DEF IInv, WorklistInv, Processor!NoGateSkipped, Processor!Gates, Gates
    <3>4. h \in Int /\ seedGateIt \in Int
      BY <3>1, CircuitAssumption DEF IInv, TypeOK, Gates
    <3> QED BY <3>3, <3>4
  <2>4. ToSet(allGates') = {}
    BY <1>2 DEF ToSet
  <2> QED BY <1>1, <1>2, <2>1, <2>2, <2>3, <2>4 DEF SearchInv
<1>6. LabelsInv'
  BY <1>2, LabelsStay DEF IInv
<1>7. TablesInv'
  BY <1>2, NoTablesYet DEF IInv, TablesInv, Early
<1> QED BY <1>3, <1>4, <1>5, <1>6, <1>7 DEF IInv

(* The elements of a list that is put after another. *)
LEMMA ToSetConcat ==
  ASSUME NEW S, NEW s \in Seq(S), NEW t \in Seq(S)
  PROVE  s \o t \in Seq(S) /\ ToSet(s \o t) = ToSet(s) \cup ToSet(t)
<1>1. /\ s \o t \in Seq(S) /\ Len(s \o t) = Len(s) + Len(t)
      /\ Len(s) \in Nat /\ Len(t) \in Nat
      /\ DOMAIN s = 1 .. Len(s) /\ DOMAIN t = 1 .. Len(t)
      /\ DOMAIN (s \o t) = 1 .. Len(s) + Len(t)
  OBVIOUS
<1>2. \A k \in 1 .. Len(s) + Len(t) : (s \o t)[k] = IF k <= Len(s) THEN s[k] ELSE t[k - Len(s)]
  OBVIOUS
<1>3. ToSet(s \o t) \subseteq ToSet(s) \cup ToSet(t)
  <2> SUFFICES ASSUME NEW k \in 1 .. Len(s) + Len(t)
               PROVE  (s \o t)[k] \in ToSet(s) \cup ToSet(t)
    BY <1>1 DEF ToSet
  <2>1. CASE k <= Len(s)
    BY <1>1, <1>2, <2>1 DEF ToSet
  <2>2. CASE ~(k <= Len(s))
    <3>1. k - Len(s) \in 1 .. Len(t)
      BY <1>1, <2>2
    <3> QED BY <1>1, <1>2, <2>2, <3>1 DEF ToSet
  <2> QED BY <2>1, <2>2
<1>4. ToSet(s) \subseteq ToSet(s \o t)
  <2> SUFFICES ASSUME NEW k \in 1 .. Len(s) PROVE s[k] \in ToSet(s \o t)
    BY <1>1 DEF ToSet
  <2>1. k \in 1 .. Len(s) + Len(t) /\ (s \o t)[k] = s[k]
    BY <1>1, <1>2
  <2> QED BY <1>1, <2>1 DEF ToSet
<1>5. ToSet(t) \subseteq ToSet(s \o t)
  <2> SUFFICES ASSUME NEW k \in 1 .. Len(t) PROVE t[k] \in ToSet(s \o t)
    BY <1>1 DEF ToSet
  <2>1. Len(s) + k \in 1 .. Len(s) + Len(t) /\ (s \o t)[Len(s) + k] = t[k]
    BY <1>1, <1>2
  <2> QED BY <1>1, <2>1 DEF ToSet
<1> QED BY <1>1, <1>3, <1>4, <1>5

LEMMA SearchRoundKeepsIInv ==
  ASSUME IInv, SearchRound
  PROVE  IInv'
<1> DEFINE found == NewGates(circuit, gatesIndexes, labels)
<1>1. /\ pc = "search" /\ pc' = "search" /\ round # 4
      /\ allGates' = allGates \o found
      /\ gatesIndexes' = gatesIndexes \cup ToSet(found)
      /\ labels' = OutputsOf(circuit, found)
      /\ round' = round + 1
      /\ UNCHANGED <<ndebug, circuit, wires, labelled>>
      /\ UNCHANGED <<toBeProcessed, seedGateIt, garbledTable, garbledTableIndexMap>>
  BY DEF SearchRound, AllGatesFound, GetAllOutputsFromInputs, Found, processorVars, tableVars
<1>2. /\ WellFormed(circuit) /\ labels \in Seq(Wires)
      /\ gatesIndexes \subseteq XorGates(circuit) /\ allGates \in Seq(XorGates(circuit))
      /\ round \in 0 .. 4
  BY DEF IInv, TypeOK, SearchInv
<1>3. /\ found \in Seq(XorGates(circuit))
      /\ ToSet(found) = { g \in XorGates(circuit) \ gatesIndexes :
                            Reads(circuit, g) \cap ToSet(labels) # {} }
      /\ OutputsOf(circuit, found) \in Seq(Wires)
  BY <1>2, RoundFinds
<1> HIDE DEF found
<1>4. /\ allGates' \in Seq(XorGates(circuit))
      /\ ToSet(allGates') = ToSet(allGates) \cup ToSet(found)
      /\ Len(allGates') = Len(allGates) + Len(found)
  <2> DEFINE X == XorGates(circuit)
  <2>1. allGates \in Seq(X) /\ found \in Seq(X)
    BY <1>2, <1>3
  <2> HIDE DEF X
  <2>2. /\ allGates \o found \in Seq(X)
        /\ ToSet(allGates \o found) = ToSet(allGates) \cup ToSet(found)
        /\ Len(allGates \o found) = Len(allGates) + Len(found)
    BY <2>1, ToSetConcat
  <2> QED BY <1>1, <2>2 DEF X
<1>5. round' \in 1 .. 4
  BY <1>1, <1>2
<1>6. TypeOK'
  <2>1. labelled' \in 0 .. Len(allGates')
    <3>1. labelled \in 0 .. Len(allGates) /\ Len(allGates) \in Nat /\ Len(found) \in Nat
      BY <1>2, <1>3 DEF IInv, TypeOK
    <3> QED BY <1>1, <1>4, <3>1
  <2>2. gatesIndexes' \subseteq XorGates(circuit)
    BY <1>1, <1>2, <1>3
  <2>3. round' \in 0 .. 4
    BY <1>5
  <2> QED BY <1>1, <1>4, <2>1, <2>2, <2>3 DEF IInv, TypeOK
<1>7. WorklistInv'
  <2>1. Marked' = Marked
    BY <1>1, <1>3, <1>4 DEF Marked
  <2> QED BY <1>1, <2>1 DEF IInv, WorklistInv, Processor!NoGateSkipped
<1>8. SearchInv'
  <2>1. seedGateIt # NbGates /\ ToSet(allGates) \subseteq gatesIndexes
    BY <1>1 DEF IInv, SearchInv
  <2>2. ASSUME ~ndebug PROVE seedGateIt \in ToSet(allGates')
    <3>1. CASE round = 0
      <4>1. Reads(circuit, seedGateIt) \cap ToSet(labels) # {} /\ allGates = <<>>
        BY <1>1, <2>2, <3>1 DEF IInv, SearchInv
      <4>2. seedGateIt \in XorGates(circuit) /\ toBeProcessed[seedGateIt] = 1
        BY <2>1, SeedIsXor
      <4>3. ToSet(allGates) = {}
        BY <4>1 DEF ToSet
      <4>4. seedGateIt \notin gatesIndexes
        BY <1>1, <4>2, <4>3 DEF IInv, WorklistInv, Marked
      <4> QED BY <1>3, <1>4, <4>1, <4>2, <4>4
    <3>2. CASE round # 0
      BY <1>1, <1>4, <2>2, <3>2 DEF IInv, SearchInv
    <3> QED BY <3>1, <3>2
  <2>3. ToSet(allGates') \subseteq gatesIndexes'
    BY <1>1, <1>4, <2>1
  <2> QED BY <1>1, <1>3, <1>5, <2>1, <2>2, <2>3 DEF SearchInv
<1>9. LabelsInv'
  BY <1>1, LabelsStay DEF IInv
<1>10. TablesInv'
  BY <1>1, NoTablesYet DEF IInv, TablesInv, Early
<1> QED BY <1>6, <1>7, <1>8, <1>9, <1>10 DEF IInv

LEMMA AbortSearchKeepsIInv ==
  ASSUME IInv, AbortSearch
  PROVE  IInv'
<1>1. /\ pc \in {"seed", "search"} /\ pc' = "aborted"
      /\ UNCHANGED graphVars /\ UNCHANGED <<wires, labelled, R>>
      /\ UNCHANGED <<toBeProcessed, seedGateIt, garbledTable, garbledTableIndexMap>>
  BY DEF AbortSearch, processorVars, tableVars
<1>2. TypeOK'
  BY <1>1 DEF IInv, TypeOK, graphVars
<1>3. WorklistInv'
  BY <1>1 DEF IInv, WorklistInv, graphVars
<1>4. SearchInv'
  BY <1>1 DEF IInv, SearchInv, graphVars
<1>5. LabelsInv'
  BY <1>1, LabelsStay DEF IInv
<1>6. TablesInv'
  BY <1>1, NoTablesYet DEF IInv, TablesInv, Early
<1> QED BY <1>2, <1>3, <1>4, <1>5, <1>6 DEF IInv

--------------------------------------------------------------------------------
(* The labels of a subgraph, and the next seed. *)

LEMMA ChooseRKeepsIInv ==
  ASSUME IInv, ChooseR
  PROVE  IInv'
<1>1. /\ pc = "search" /\ pc' = "xor" /\ AllGatesFound
      /\ Lsb \in R'
      /\ UNCHANGED graphVars /\ UNCHANGED <<wires, labelled>>
      /\ UNCHANGED <<toBeProcessed, seedGateIt, garbledTable, garbledTableIndexMap>>
  BY NewRIsOdd DEF ChooseR, processorVars, tableVars
<1>2. TypeOK'
  BY <1>1 DEF IInv, TypeOK, graphVars
<1>3. WorklistInv'
  <2>1. Marked' = Marked
    BY <1>1 DEF Marked, graphVars
  <2> QED BY <1>1, <2>1 DEF IInv, WorklistInv, Processor!NoGateSkipped, graphVars
<1>4. SearchInv'
  <2>1. round # 0
    <3>1. round \in 0 .. 4
      BY DEF IInv, TypeOK
    <3> QED BY <1>1, <3>1 DEF AllGatesFound
  <2> QED BY <1>1, <2>1 DEF IInv, SearchInv, graphVars
<1>5. LabelsInv'
  BY <1>1, LabelsStay DEF IInv
<1>6. TablesInv'
  BY <1>1, NoTablesYet DEF IInv, TablesInv, Early
<1> QED BY <1>2, <1>3, <1>4, <1>5, <1>6 DEF IInv

LEMMA LabelXorGateKeepsIInv ==
  ASSUME IInv, LabelXorGate
  PROVE  IInv'
<1>1. /\ pc = "xor" /\ pc' = "xor"
      /\ labelled < Len(allGates) /\ labelled' = labelled + 1
      /\ wires' = SetXorGate(wires, allGates[labelled + 1])
      /\ UNCHANGED graphVars /\ UNCHANGED R
      /\ UNCHANGED <<toBeProcessed, seedGateIt, garbledTable, garbledTableIndexMap>>
  BY DEF LabelXorGate, processorVars, tableVars
<1>2. labelled + 1 \in 1 .. Len(allGates) /\ allGates[labelled + 1] \in Gates
  <2>1. /\ allGates \in Seq(XorGates(circuit)) /\ labelled \in 0 .. Len(allGates)
        /\ XorGates(circuit) \subseteq Gates
    BY DEF IInv, TypeOK, XorGates
  <2>2. labelled + 1 \in 1 .. Len(allGates)
    BY <1>1, <2>1
  <2> QED BY <2>1, <2>2
<1>3. TwoLabels(wires')
  <2> DEFINE ws == SetXorGate(wires, allGates[labelled + 1])
  <2>1. TwoLabels(ws)
    BY <1>1, <1>2, XorGateLabels DEF IInv, TypeOK, LabelsInv
  <2> HIDE DEF ws
  <2>2. wires' = ws
    BY <1>1 DEF ws
  <2> QED BY <2>1, <2>2
<1>4. TypeOK'
  <2>1. DOMAIN wires' = Wires
    BY <1>3 DEF TwoLabels
  <2>2. labelled' \in 0 .. Len(allGates)
    BY <1>1, <1>2
  <2> QED BY <1>1, <2>1, <2>2 DEF IInv, TypeOK, graphVars
<1>5. WorklistInv'
  <2>1. Marked' = Marked
    BY <1>1 DEF Marked, graphVars
  <2> QED BY <1>1, <2>1 DEF IInv, WorklistInv, Processor!NoGateSkipped, graphVars
<1>6. SearchInv'
  BY <1>1 DEF IInv, SearchInv, graphVars
<1>7. LabelsInv'
  BY <1>1, <1>3 DEF IInv, LabelsInv
<1>8. TablesInv'
  BY <1>1, NoTablesYet DEF IInv, TablesInv, Early
<1> QED BY <1>4, <1>5, <1>6, <1>7, <1>8 DEF IInv

(* The subgraph found is new, and in a debug build it holds the seed. *)
LEMMA SubgraphKeepsContract ==
  ASSUME IInv
  PROVE  KeepsProcessorContract
<1> SUFFICES ASSUME pc = "xor"
             PROVE  /\ \A g \in ToSet(allGates) : toBeProcessed[g] = 1
                    /\ ndebug \/ Processor!Precondition(ToSet(allGates))
  BY DEF KeepsProcessorContract
<1>1. ASSUME NEW g \in ToSet(allGates) PROVE toBeProcessed[g] = 1
  <2>1. g \in XorGates(circuit) /\ g \in Gates
    <3>1. allGates \in Seq(XorGates(circuit))
      BY DEF IInv, TypeOK
    <3> QED BY <3>1 DEF ToSet, XorGates
  <2>2. g \notin Marked
    BY DEF Marked
  <2>3. toBeProcessed[g] # 0
    BY <2>1, <2>2 DEF IInv, WorklistInv
  <2> QED BY <2>1, <2>3 DEF IInv, TypeOK
<1>2. ASSUME ~ndebug PROVE Processor!Precondition(ToSet(allGates))
  <2>1. seedGateIt # NbGates /\ round # 0 /\ seedGateIt \in ToSet(allGates)
    BY <1>2 DEF IInv, SearchInv
  <2>2. Processor!GetNextSeedGate = seedGateIt
    BY <2>1, SeedIsXor
  <2> QED BY <1>1, <2>1, <2>2 DEF Processor!Precondition
<1> QED BY <1>1, <1>2

(* What the scan for the next seed leaves, for any subgraph. *)
LEMMA ScanFinds ==
  ASSUME NEW S \in SUBSET Gates, Processor!MarkAsProcessed(S),
         toBeProcessed \in [Gates -> {0, 1}]
  PROVE  /\ toBeProcessed' = [g \in Gates |-> IF g \in S THEN 0 ELSE toBeProcessed[g]]
         /\ toBeProcessed' \in [Gates -> {0, 1}]
         /\ seedGateIt' \in 0 .. NbGates
         /\ seedGateIt' # NbGates => toBeProcessed'[seedGateIt'] = 1
<1>1. toBeProcessed' = [g \in Gates |-> IF g \in S THEN 0 ELSE toBeProcessed[g]]
  BY DEF Processor!MarkAsProcessed, Processor!Gates, Gates
<1>2. PICK first \in Processor!ScanStarts(S) : seedGateIt' \in Processor!Find(toBeProcessed', first)
  BY DEF Processor!MarkAsProcessed
<1>3. first \in Nat
  BY <1>2, CircuitAssumption DEF Processor!ScanStarts, Gates
<1>4. /\ seedGateIt' \in first .. NbGates
      /\ seedGateIt' = NbGates \/ toBeProcessed'[seedGateIt'] = 1
  BY <1>2 DEF Processor!Find
<1>5. seedGateIt' \in 0 .. NbGates
  BY <1>3, <1>4, CircuitAssumption
<1> QED BY <1>1, <1>4, <1>5

(* A subgraph that keeps the contract does not make the scan skip a gate. *)
LEMMA ScanSkipsNone ==
  ASSUME IInv, NEW S \in SUBSET Gates, Processor!MarkAsProcessed(S),
         Processor!Precondition(S), Processor!NoGateSkipped
  PROVE  Processor!NoGateSkipped'
<1>1. Seeds!NbGatesAssumption
  BY CircuitAssumption DEF Seeds!NbGatesAssumption
<1>2. Seeds!TypeOK /\ Seeds!NoGateSkipped
  BY DEF IInv, TypeOK, Seeds!TypeOK, Seeds!NoGateSkipped,
         Processor!NoGateSkipped, Processor!Gates, Seeds!Gates, Gates
<1>3. Seeds!Process(S) /\ S \in SUBSET Seeds!Gates
  BY DEF Seeds!Process, Seeds!Precondition, Seeds!MarkAsProcessed, Seeds!GetNextSeedGate,
         Seeds!ScanStarts, Seeds!Find, Seeds!Gates, Processor!Precondition,
         Processor!MarkAsProcessed, Processor!GetNextSeedGate, Processor!ScanStarts,
         Processor!Find, Processor!Gates, Gates
<1>4. Seeds!NoGateSkipped'
  BY <1>1, <1>2, <1>3, Seeds!ProcessStep
<1> QED BY <1>4 DEF Seeds!NoGateSkipped, Processor!NoGateSkipped, Processor!Gates, Seeds!Gates

LEMMA MarkSubgraphKeepsIInv ==
  ASSUME IInv, MarkSubgraph
  PROVE  IInv'
<1> DEFINE S == ToSet(allGates)
<1>1. /\ pc = "xor" /\ pc' = "seed"
      /\ Processor!MarkAsProcessed(S)
      /\ UNCHANGED graphVars /\ UNCHANGED <<wires, labelled, R>>
      /\ UNCHANGED <<garbledTable, garbledTableIndexMap>>
  BY DEF MarkSubgraph, tableVars
<1>2. /\ allGates \in Seq(XorGates(circuit)) /\ XorGates(circuit) \subseteq Gates
      /\ toBeProcessed \in [Gates -> {0, 1}] /\ seedGateIt \in 0 .. NbGates
  BY DEF IInv, TypeOK, XorGates
<1>3. S \subseteq XorGates(circuit) /\ S \in SUBSET Gates /\ S \subseteq gatesIndexes
  <2>1. S \subseteq XorGates(circuit)
    BY <1>2 DEF ToSet
  <2>2. S \subseteq gatesIndexes
    BY <1>1 DEF IInv, SearchInv
  <2> QED BY <1>2, <2>1, <2>2
<1>4. \A g \in S : toBeProcessed[g] = 1
  BY <1>1, SubgraphKeepsContract DEF KeepsProcessorContract
<1>5. ~ndebug => Processor!Precondition(S)
  BY <1>1, SubgraphKeepsContract DEF KeepsProcessorContract
<1> HIDE DEF S
<1>6. /\ toBeProcessed' = [g \in Gates |-> IF g \in S THEN 0 ELSE toBeProcessed[g]]
      /\ toBeProcessed' \in [Gates -> {0, 1}]
      /\ seedGateIt' \in 0 .. NbGates
      /\ seedGateIt' # NbGates => toBeProcessed'[seedGateIt'] = 1
  BY <1>1, <1>2, <1>3, ScanFinds
<1>7. TypeOK'
  BY <1>1, <1>6 DEF IInv, TypeOK, graphVars
<1>8. WorklistInv'
  <2>1. ASSUME NEW g \in Gates, g \notin XorGates(circuit) PROVE toBeProcessed'[g] = 0
    BY <1>6, <2>1 DEF IInv, WorklistInv
  <2>2. ASSUME NEW g \in XorGates(circuit)
        PROVE  toBeProcessed'[g] = 0 <=> g \in gatesIndexes
    <3>1. toBeProcessed[g] = 0 <=> g \in gatesIndexes \ S
      BY <1>1 DEF IInv, WorklistInv, Marked, S
    <3>2. g \in Gates
      BY <1>2
    <3> QED BY <1>3, <1>6, <3>1, <3>2
  <2>3. Marked' = gatesIndexes /\ circuit' = circuit
    BY <1>1 DEF Marked, graphVars
  <2>4. ASSUME ~ndebug PROVE Processor!NoGateSkipped'
    BY <1>1, <1>3, <1>5, <2>4, ScanSkipsNone DEF IInv, WorklistInv
  <2>5. ndebug' = ndebug
    BY <1>1 DEF graphVars
  <2> QED BY <1>6, <2>1, <2>2, <2>3, <2>4, <2>5 DEF WorklistInv
<1>9. SearchInv'
  BY <1>1 DEF IInv, SearchInv, graphVars
<1>10. LabelsInv'
  BY <1>1, LabelsStay DEF IInv
<1>11. TablesInv'
  BY <1>1, NoTablesYet DEF IInv, TablesInv, Early
<1> QED BY <1>7, <1>8, <1>9, <1>10, <1>11 DEF IInv

LEMMA NoMoreSeedsKeepsIInv ==
  ASSUME IInv, NoMoreSeeds
  PROVE  IInv'
<1>1. /\ pc = "seed" /\ pc' = "nonxor"
      /\ UNCHANGED graphVars /\ UNCHANGED <<wires, labelled, R>>
      /\ UNCHANGED <<toBeProcessed, seedGateIt, garbledTable, garbledTableIndexMap>>
  BY DEF NoMoreSeeds, processorVars, tableVars
<1>2. TypeOK'
  BY <1>1 DEF IInv, TypeOK, graphVars
<1>3. WorklistInv'
  BY <1>1 DEF IInv, WorklistInv, graphVars
<1>4. SearchInv'
  BY <1>1 DEF IInv, SearchInv, graphVars
<1>5. LabelsInv'
  BY <1>1, LabelsStay DEF IInv
<1>6. TablesInv'
  BY <1>1, NoTablesYet DEF IInv, TablesInv, Early
<1> QED BY <1>2, <1>3, <1>4, <1>5, <1>6 DEF IInv

--------------------------------------------------------------------------------
(* The tables. *)

(* A table is made from the labels, which no longer change. *)
LEMMA TableStays ==
  ASSUME UNCHANGED <<circuit, wires>>
  PROVE  /\ Tables' = Tables
         /\ \A g : TableOf(g)' = TableOf(g)
<1>1. \A g : TableOf(g)' = TableOf(g)
  BY DEF TableOf, LsbIndex, Ciphertext, Label, Tweak
<1>2. NonXorGates(circuit)' = NonXorGates(circuit)
  BY DEF NonXorGates, XorGates
<1> QED BY <1>1, <1>2 DEF Tables

LEMMA GarbleNonXorGateKeepsIInv ==
  ASSUME IInv, GarbleNonXorGate
  PROVE  IInv'
<1> DEFINE map == garbledTableIndexMap
<1>1. PICK g \in NonXorGates(circuit) \ DOMAIN map :
        /\ garbledTable' = Append(garbledTable, TableOf(g))
        /\ map' = [h \in DOMAIN map \cup {g} |->
                     IF h = g THEN ToInt16(Len(garbledTable)) ELSE map[h]]
        /\ pc' \in {"nonxor", "lost"}
  BY DEF GarbleNonXorGate
<1>2. /\ pc = "nonxor"
      /\ UNCHANGED graphVars /\ UNCHANGED <<wires, labelled, R>>
      /\ UNCHANGED <<toBeProcessed, seedGateIt>>
  BY DEF GarbleNonXorGate, processorVars
<1>3. Tables' = Tables /\ \A h : TableOf(h)' = TableOf(h)
  BY <1>2, TableStays DEF graphVars
<1>4. garbledTable \in Seq(Tables) /\ TableOf(g) \in Tables
  BY <1>1 DEF IInv, TablesInv, Tables
<1>5. /\ garbledTable' \in Seq(Tables)
      /\ Len(garbledTable) \in Nat /\ Len(garbledTable') = Len(garbledTable) + 1
      /\ garbledTable'[Len(garbledTable) + 1] = TableOf(g)
      /\ \A n \in 1 .. Len(garbledTable) : garbledTable'[n] = garbledTable[n]
  <2> DEFINE T == Tables
             t == TableOf(g)
  <2>1. garbledTable \in Seq(T) /\ t \in T /\ garbledTable' = Append(garbledTable, t)
    BY <1>1, <1>4
  <2> HIDE DEF T, t
  <2>2. /\ garbledTable' \in Seq(T)
        /\ Len(garbledTable) \in Nat /\ Len(garbledTable') = Len(garbledTable) + 1
        /\ garbledTable'[Len(garbledTable) + 1] = t
        /\ \A n \in 1 .. Len(garbledTable) : garbledTable'[n] = garbledTable[n]
    BY <2>1
  <2> QED BY <2>2 DEF T, t
<1>6. /\ DOMAIN map' = DOMAIN map \cup {g}
      /\ map'[g] = ToInt16(Len(garbledTable))
      /\ \A h \in DOMAIN map : map'[h] = map[h]
  BY <1>1
<1>7. TypeOK'
  <2>1. DOMAIN map \in SUBSET Gates /\ g \in NonXorGates(circuit)
        /\ Len(garbledTable) = Cardinality(DOMAIN map)
    BY <1>1 DEF IInv, TypeOK, NonXorGates
  <2>2. Cardinality(DOMAIN map \cup {g}) = Cardinality(DOMAIN map) + 1
    BY <1>1, <2>1, GatesAreFinite, FS_AddElement
  <2>3. Len(garbledTable') = Cardinality(DOMAIN map')
    BY <1>5, <1>6, <2>1, <2>2
  <2>4. DOMAIN map' \subseteq NonXorGates(circuit)
    BY <1>1, <1>6 DEF IInv, TypeOK
  <2> QED BY <1>1, <1>2, <2>3, <2>4 DEF IInv, TypeOK, graphVars
<1>8. WorklistInv'
  BY <1>1, <1>2 DEF IInv, WorklistInv, graphVars
<1>9. SearchInv'
  BY <1>1, <1>2 DEF IInv, SearchInv, graphVars
<1>10. LabelsInv'
  BY <1>1, <1>2, LabelsStay DEF IInv
<1>11. TablesInv'
  <2>1. pc' \notin Early /\ pc' # "done"
    BY <1>1 DEF Early
  <2>2. garbledTable' \in Seq(Tables)'
    BY <1>3, <1>5
  <2>3. ASSUME NEW h \in DOMAIN map'
        PROVE  \E n \in 1 .. Len(garbledTable') :
                 garbledTable'[n] = TableOf(h) /\ map'[h] = ToInt16(n - 1)
    <3>1. CASE h = g
      <4>1. Len(garbledTable) + 1 \in 1 .. Len(garbledTable')
            /\ (Len(garbledTable) + 1) - 1 = Len(garbledTable)
        BY <1>5
      <4> QED BY <1>5, <1>6, <3>1, <4>1
    <3>2. CASE h # g
      <4>1. h \in DOMAIN map
        BY <1>6, <2>3, <3>2
      <4>2. PICK n \in 1 .. Len(garbledTable) :
              garbledTable[n] = TableOf(h) /\ map[h] = ToInt16(n - 1)
        BY <4>1 DEF IInv, TablesInv
      <4>3. n \in 1 .. Len(garbledTable') /\ garbledTable'[n] = TableOf(h)
        BY <1>5, <4>2
      <4> QED BY <1>6, <4>1, <4>2, <4>3
    <3> QED BY <3>1, <3>2
  <2>4. \A n : ToInt16(n)' = ToInt16(n)
    BY DEF ToInt16
  <2> QED BY <1>3, <2>1, <2>2, <2>3, <2>4 DEF TablesInv
<1> QED BY <1>7, <1>8, <1>9, <1>10, <1>11 DEF IInv

LEMMA SetLabelsKeepsIInv ==
  ASSUME IInv, SetLabels
  PROVE  IInv'
<1>1. /\ pc = "nonxor" /\ pc' = "done"
      /\ NonXorGates(circuit) \subseteq DOMAIN garbledTableIndexMap
      /\ UNCHANGED graphVars /\ UNCHANGED <<wires, labelled, R>>
      /\ UNCHANGED <<toBeProcessed, seedGateIt, garbledTable, garbledTableIndexMap>>
  BY DEF SetLabels, processorVars, tableVars
<1>2. TypeOK'
  BY <1>1 DEF IInv, TypeOK, graphVars
<1>3. WorklistInv'
  BY <1>1 DEF IInv, WorklistInv, graphVars
<1>4. SearchInv'
  BY <1>1 DEF IInv, SearchInv, graphVars
<1>5. LabelsInv'
  BY <1>1, LabelsStay DEF IInv
<1>6. TablesInv'
  <2>1. Tables' = Tables /\ \A h : TableOf(h)' = TableOf(h)
    BY <1>1, TableStays DEF graphVars
  <2> QED BY <1>1, <2>1 DEF IInv, TablesInv, Early, graphVars
<1> QED BY <1>2, <1>3, <1>4, <1>5, <1>6 DEF IInv

--------------------------------------------------------------------------------
LEMMA NextKeepsIInv ==
  ASSUME IInv, [Next]_vars
  PROVE  IInv'
<1>1. CASE StartSearch
  BY <1>1, StartSearchKeepsIInv
<1>2. CASE SearchRound
  BY <1>2, SearchRoundKeepsIInv
<1>3. CASE AbortSearch
  BY <1>3, AbortSearchKeepsIInv
<1>4. CASE ChooseR
  BY <1>4, ChooseRKeepsIInv
<1>5. CASE LabelXorGate
  BY <1>5, LabelXorGateKeepsIInv
<1>6. CASE MarkSubgraph
  BY <1>6, MarkSubgraphKeepsIInv
<1>7. CASE NoMoreSeeds
  BY <1>7, NoMoreSeedsKeepsIInv
<1>8. CASE GarbleNonXorGate
  BY <1>8, GarbleNonXorGateKeepsIInv
<1>9. CASE SetLabels
  BY <1>9, SetLabelsKeepsIInv
<1>10. CASE UNCHANGED vars
  <2>1. /\ UNCHANGED graphVars /\ UNCHANGED <<pc, wires, labelled, R>>
        /\ UNCHANGED <<toBeProcessed, seedGateIt, garbledTable, garbledTableIndexMap>>
    BY <1>10 DEF vars, processorVars, tableVars
  <2>2. TypeOK'
    BY <2>1 DEF IInv, TypeOK, graphVars
  <2>3. WorklistInv'
    <3>1. Marked' = Marked
      BY <2>1 DEF Marked, graphVars
    <3> QED BY <2>1, <3>1 DEF IInv, WorklistInv, Processor!NoGateSkipped, graphVars
  <2>4. SearchInv'
    BY <2>1 DEF IInv, SearchInv, graphVars
  <2>5. LabelsInv'
    BY <2>1, LabelsStay DEF IInv, LabelsInv
  <2>6. TablesInv'
    <3>1. Tables' = Tables /\ \A h : TableOf(h)' = TableOf(h)
      BY <2>1, TableStays DEF graphVars
    <3> QED BY <2>1, <3>1 DEF IInv, TablesInv, graphVars
  <2> QED BY <2>2, <2>3, <2>4, <2>5, <2>6 DEF IInv
<1> QED BY <1>1, <1>2, <1>3, <1>4, <1>5, <1>6, <1>7, <1>8, <1>9, <1>10 DEF Next

LEMMA IInvAlways == Spec => []IInv
<1>1. IInv /\ [Next]_vars => IInv'
  BY NextKeepsIInv
<1> QED BY <1>1, InitIInv, PTL DEF Spec

(* The worklist, the lists of the search and the tables keep their types. *)
THEOREM TypesOK == Spec => []TypeOK
<1>1. IInv => TypeOK
  BY DEF IInv
<1> QED BY <1>1, IInvAlways, PTL

(***************************************************************************)
(* The two labels of every wire differ in their lowest bit at every moment, *)
(* for every circuit: however its XOR gates share wires and in whatever     *)
(* order the search returns them (garble.cpp:184-262).                      *)
(***************************************************************************)
THEOREM LabelsAreToldApart == Spec => []PermuteBitsDiffer
<1>1. IInv => PermuteBitsDiffer
  BY DEF IInv, LabelsInv, TwoLabels, PermuteBitsDiffer
<1> QED BY <1>1, IInvAlways, PTL

(***************************************************************************)
(* For every circuit, also those the search was not made for, MarkAsProcessed *)
(* is given gates that were not processed before, and in a debug build the  *)
(* seed is among them (xor_gate_processor.cpp:47-66).                       *)
(***************************************************************************)
THEOREM SubgraphsKeepContract == Spec => []KeepsProcessorContract
<1>1. IInv => KeepsProcessorContract
  BY SubgraphKeepsContract
<1> QED BY <1>1, IInvAlways, PTL

--------------------------------------------------------------------------------
(* What the tables evaluate to. *)

LEMMA SmallRemainder ==
  ASSUME NEW m \in Nat \ {0}, NEW x \in 0 .. m - 1
  PROVE  x % m = x
OBVIOUS

LEMMA SmallIndex ==
  ASSUME NEW n \in 0 .. MaxTables - 1
  PROVE  ToInt16(n) = n
<1> DEFINE x == n + MaxTables
           m == 2 * MaxTables
<1>1. MaxTables \in Nat \ {0}
  BY DEF MaxTables
<1>2. m \in Nat \ {0} /\ x \in 0 .. m - 1
  BY <1>1
<1>3. x % m = x
  <2> HIDE DEF x, m
  <2> QED BY <1>2, SmallRemainder
<1> QED BY <1>1, <1>3 DEF ToInt16

(* The index map leads to the table of the gate. *)
LEMMA MapLeadsToTable ==
  ASSUME IInv, pc = "done", Cardinality(NonXorGates(circuit)) <= MaxTables,
         NEW g \in NonXorGates(circuit)
  PROVE  GetGarbledTable(g) = TableOf(g)
<1>1. g \in DOMAIN garbledTableIndexMap
  BY DEF IInv, TablesInv
<1>2. PICK n \in 1 .. Len(garbledTable) :
        garbledTable[n] = TableOf(g) /\ garbledTableIndexMap[g] = ToInt16(n - 1)
  BY <1>1 DEF IInv, TablesInv
<1>3. Len(garbledTable) <= MaxTables
  <2>1. /\ NonXorGates(circuit) \in SUBSET Gates
        /\ DOMAIN garbledTableIndexMap \subseteq NonXorGates(circuit)
        /\ Len(garbledTable) = Cardinality(DOMAIN garbledTableIndexMap)
    BY DEF IInv, TypeOK, NonXorGates
  <2>2. IsFiniteSet(NonXorGates(circuit)) /\ Cardinality(NonXorGates(circuit)) \in Nat
    BY <2>1, GatesAreFinite
  <2>3. /\ Cardinality(DOMAIN garbledTableIndexMap) \in Nat
        /\ Cardinality(DOMAIN garbledTableIndexMap) <= Cardinality(NonXorGates(circuit))
    BY <2>1, <2>2, GatesAreFinite, FS_Subset
  <2>4. MaxTables \in Nat
    BY DEF MaxTables
  <2> QED BY <2>1, <2>2, <2>3, <2>4
<1>4. Len(garbledTable) \in Nat
  BY DEF IInv, TablesInv
<1>5. n - 1 \in 0 .. MaxTables - 1
  <2>1. MaxTables \in Nat
    BY DEF MaxTables
  <2> QED BY <1>2, <1>3, <1>4, <2>1
<1>6. garbledTableIndexMap[g] + 1 = n
  BY <1>2, <1>5, SmallIndex
<1> QED BY <1>2, <1>6 DEF GetGarbledTable

(* The lowest bit of a label says which one it is, up to that of label0. *)
LEMMA LsbOfLabel ==
  ASSUME IInv, NEW w \in Wires, NEW a \in {0, 1}
  PROVE  /\ GetLsb(Label(w, a)) \in {0, 1}
         /\ (GetLsb(Label(w, a)) + GetLsb(Label(w, 0))) % 2 = a
<1> DEFINE l0 == GetLsb(wires[w].label0)
           l1 == GetLsb(wires[w].label1)
<1>1. l0 \in {0, 1} /\ l1 \in {0, 1} /\ l0 # l1
  BY DEF IInv, LabelsInv, TwoLabels, GetLsb
<1>2. GetLsb(Label(w, 0)) = l0 /\ GetLsb(Label(w, a)) = IF a = 1 THEN l1 ELSE l0
  BY DEF Label
<1> HIDE DEF l0, l1
<1>3. CASE a = 0
  <2>1. (l0 + l0) % 2 = 0
    BY <1>1
  <2> QED BY <1>1, <1>2, <1>3, <2>1
<1>4. CASE a = 1
  <2>1. (l1 + l0) % 2 = 1
    BY <1>1
  <2> QED BY <1>1, <1>2, <1>4, <2>1
<1> QED BY <1>3, <1>4

(* The place that two labels select holds the entry of their bits. *)
LEMMA PlaceSelected ==
  ASSUME IInv, NEW g \in Gates, NEW a \in {0, 1}, NEW b \in {0, 1}
  PROVE  LET k == 2 * GetLsb(Label(circuit.in0[g], a)) + GetLsb(Label(circuit.in1[g], b))
         IN  k \in 0 .. 3 /\ LsbIndex(g, k) = 2 * a + b
<1> DEFINE i0 == circuit.in0[g]
           i1 == circuit.in1[g]
           x == GetLsb(Label(i0, a))
           y == GetLsb(Label(i1, b))
           x0 == GetLsb(Label(i0, 0))
           y0 == GetLsb(Label(i1, 0))
           k == 2 * x + y
<1>1. i0 \in Wires /\ i1 \in Wires
  BY ReadsAreWires DEF IInv, TypeOK
<1>2. x \in {0, 1} /\ y \in {0, 1} /\ (x + x0) % 2 = a /\ (y + y0) % 2 = b
  <2> HIDE DEF i0, i1
  <2> QED BY <1>1, LsbOfLabel
<1>3. LsbIndex(g, k) = 2 * (((k \div 2) + x0) % 2) + (((k % 2) + y0) % 2)
  BY DEF LsbIndex
<1> HIDE DEF x, y, x0, y0
<1>4. k \in 0 .. 3 /\ k \div 2 = x /\ k % 2 = y
  BY <1>2
<1> HIDE DEF k
<1>5. LsbIndex(g, k) = 2 * a + b
  BY <1>2, <1>3, <1>4
<1> QED BY <1>4, <1>5 DEF k, x, y

(* A table unmasks to the label of the output bit. *)
LEMMA TableUnmasks ==
  ASSUME IInv, NEW g \in Gates, NEW a \in {0, 1}, NEW b \in {0, 1}
  PROVE  EvalNonXorGate(TableOf(g), Label(circuit.in0[g], a), Label(circuit.in1[g], b), Tweak(g))
           = Label(circuit.out[g], TruthBit(circuit.type[g], 2 * a + b))
<1> DEFINE A == Label(circuit.in0[g], a)
           B == Label(circuit.in1[g], b)
           k == 2 * GetLsb(A) + GetLsb(B)
           m == Mask(A, B, Tweak(g))
           l == Label(circuit.out[g], TruthBit(circuit.type[g], 2 * a + b))
<1>1. k \in 0 .. 3 /\ LsbIndex(g, k) = 2 * a + b
  BY PlaceSelected
<1>2. TableOf(g)[k] = Ciphertext(g, 2 * a + b)
  <2> HIDE DEF k
  <2> QED BY <1>1 DEF TableOf
<1>3. (2 * a + b) \div 2 = a /\ (2 * a + b) % 2 = b
  OBVIOUS
<1>4. Ciphertext(g, 2 * a + b) = Xor(m, l)
  BY <1>3 DEF Ciphertext
<1>5. EvalNonXorGate(TableOf(g), A, B, Tweak(g)) = Xor(m, TableOf(g)[k])
  BY DEF EvalNonXorGate
<1> HIDE DEF k, m, l
<1>6. Xor(m, Xor(m, l)) = l
  BY DEF Xor
<1> QED BY <1>2, <1>4, <1>5, <1>6 DEF l

(***************************************************************************)
(* For every circuit of any number of inputs and gates, and every choice of *)
(* random labels: when Garble is done, each gate that is not XOR evaluates  *)
(* from the labels of two input bits to the label of its output bit, if     *)
(* there are at most 2^15 tables (garble.cpp:264-360, evaluate.cpp:133-165). *)
(***************************************************************************)
THEOREM TablesAlwaysEvaluate == Spec => []TablesEvaluate
<1>1. IInv => TablesEvaluate
  <2> SUFFICES ASSUME IInv, pc = "done", Cardinality(NonXorGates(circuit)) <= MaxTables,
                      NEW g \in NonXorGates(circuit), NEW a \in {0, 1}, NEW b \in {0, 1}
               PROVE  EvalGate(g, Label(circuit.in0[g], a), Label(circuit.in1[g], b))
                        = Label(circuit.out[g], TruthBit(circuit.type[g], 2 * a + b))
    BY DEF TablesEvaluate
  <2>1. g \in Gates /\ circuit.type[g] # XOR
    BY DEF NonXorGates, XorGates
  <2> QED BY <2>1, MapLeadsToTable, TableUnmasks DEF EvalGate
<1> QED BY <1>1, IInvAlways, PTL

--------------------------------------------------------------------------------
(* Connected sets of XOR gates. *)

LEMMA XorIsGate ==
  ASSUME NEW c
  PROVE  XorGates(c) \subseteq Gates /\ Gates \subseteq Nat
BY CircuitAssumption DEF XorGates, Gates

LEMMA ConnectedIsLeast ==
  ASSUME NEW c, NEW g \in XorGates(c)
  PROVE  /\ ConnectedGates(c, g) \subseteq XorGates(c) /\ g \in ConnectedGates(c, g)
         /\ Closed(c, ConnectedGates(c, g))
         /\ \A G \in SUBSET XorGates(c) :
              g \in G /\ Closed(c, G) => ConnectedGates(c, g) \subseteq G
<1> DEFINE set == ConnectedGates(c, g)
<1>1. \A h \in XorGates(c) :
        h \in set <=> \A G \in SUBSET XorGates(c) : g \in G /\ Closed(c, G) => h \in G
  BY DEF ConnectedGates
<1>2. set \subseteq XorGates(c)
  BY DEF ConnectedGates
<1> HIDE DEF set
<1>3. Closed(c, set)
  <2> SUFFICES ASSUME NEW h \in set, NEW k \in XorGates(c), WiresOf(c, h) \cap WiresOf(c, k) # {},
                      NEW G \in SUBSET XorGates(c), g \in G, Closed(c, G)
               PROVE  k \in G
    BY <1>1 DEF Closed
  <2>1. h \in G
    BY <1>1, <1>2
  <2> QED BY <2>1 DEF Closed
<1> QED BY <1>1, <1>2, <1>3 DEF set

(* A connected set has nothing to do with gates that share no wire outside. *)
LEMMA ConnectedIsApart ==
  ASSUME NEW c, NEW g \in XorGates(c), NEW M \in SUBSET XorGates(c), Closed(c, M), g \notin M
  PROVE  /\ ConnectedGates(c, g) \cap M = {}
         /\ Closed(c, M \cup ConnectedGates(c, g))
<1>1. Closed(c, XorGates(c) \ M)
  BY DEF Closed
<1>2. ConnectedGates(c, g) \subseteq XorGates(c) \ M
  <2> DEFINE G == XorGates(c) \ M
  <2>1. G \in SUBSET XorGates(c) /\ g \in G
    OBVIOUS
  <2> HIDE DEF G
  <2>2. ConnectedGates(c, g) \subseteq G
    BY <1>1, <2>1, ConnectedIsLeast DEF G
  <2> QED BY <2>2 DEF G
<1>3. Closed(c, ConnectedGates(c, g))
  BY ConnectedIsLeast
<1> QED BY <1>2, <1>3 DEF Closed

(* A gate that no gate of its set comes before is the first of it. *)
LEMMA FirstOfSet ==
  ASSUME NEW c, NEW s \in XorGates(c), \A h \in ConnectedGates(c, s) : s <= h
  PROVE  Min(ConnectedGates(c, s)) = s
<1> DEFINE set == ConnectedGates(c, s)
<1>1. set \in SUBSET Nat /\ s \in set
  BY ConnectedIsLeast, XorIsGate
<1> HIDE DEF set
<1>2. Min(set) \in set /\ \A y \in set : Min(set) <= y
  BY <1>1, MinOfNats
<1>3. s <= Min(set) /\ Min(set) <= s /\ s \in Nat /\ Min(set) \in Nat
  BY <1>1, <1>2 DEF set
<1>4. Min(set) = s
  BY <1>3
<1> QED BY <1>4 DEF set

(* Gates that read an output of G. *)
Driven(c, G) == { h \in XorGates(c) : Reads(c, h) \cap { c.out[d] : d \in G } # {} }

(* On a circuit that is supported the readers of the root inputs are the    *)
(* first level, and the readers of a level's outputs are the next one.      *)
LEMMA LevelsAreRounds ==
  ASSUME NEW c, WellFormed(c), Supported(c), NEW s \in XorGates(c),
         Min(ConnectedGates(c, s)) = s
  PROVE  LET set    == ConnectedGates(c, s)
             first  == FirstLevel(c, set)
             second == NextLevel(c, set, first)
             third  == NextLevel(c, set, second)
         IN  /\ set = first \cup second \cup third
             /\ first \cap second = {} /\ first \cap third = {} /\ second \cap third = {}
             /\ s \in first
             /\ \A h \in first : Drivers(c, h) = {}
             /\ \A h \in second : Drivers(c, h) # {} /\ Drivers(c, h) \subseteq first
             /\ \A h \in third : Drivers(c, h) # {} /\ Drivers(c, h) \subseteq second
             /\ { h \in XorGates(c) : Reads(c, h) \cap ToSet(RootInputs(c, s)) # {} } = first
             /\ Driven(c, first) = second
             /\ Driven(c, second) = third
             /\ Driven(c, third) = {}
<1> DEFINE set    == ConnectedGates(c, s)
           first  == FirstLevel(c, set)
           second == NextLevel(c, set, first)
           third  == NextLevel(c, set, second)
           near   == Near(c, set)
           roots  == Roots(c, set)
<1>1. /\ roots \cap { c.out[h] : h \in set } = {}
      /\ Min(set) \notin roots
      /\ Reads(c, Min(set)) # {0}
      /\ 0 \in Reads(c, Min(set)) => near = {Min(set)}
      /\ set = first \cup second \cup third
      /\ \A h \in first : Drivers(c, h) = {}
  BY DEF Supported
<1>2. set \subseteq XorGates(c) /\ s \in set /\ Closed(c, set)
  BY ConnectedIsLeast
<1>3. Min(set) = s
  OBVIOUS
<1>4. /\ near = { h \in set : Reads(c, h) \cap Reads(c, s) # {} }
      /\ roots = UNION { Reads(c, h) : h \in near }
      /\ first = { h \in set : Reads(c, h) \cap roots # {} }
  BY DEF Near, Roots, FirstLevel
<1>5. /\ second = { h \in set \ first : Drivers(c, h) # {} /\ Drivers(c, h) \subseteq first }
      /\ third = { h \in set \ first : Drivers(c, h) # {} /\ Drivers(c, h) \subseteq second }
  BY DEF NextLevel
<1> HIDE DEF set, first, second, third, near, roots
<1>6. \A h \in XorGates(c) : Reads(c, h) \subseteq WiresOf(c, h) /\ c.out[h] \in WiresOf(c, h)
                             /\ Reads(c, h) # {}
  BY DEF Reads, WiresOf
<1>7. s \in near /\ s \in first
  BY <1>2, <1>4, <1>6
<1>8. first \cap second = {} /\ first \cap third = {} /\ second \cap third = {}
  BY <1>5
<1>9. ASSUME NEW h \in XorGates(c), NEW k \in set, Reads(c, h) \cap WiresOf(c, k) # {}
      PROVE  h \in set
  BY <1>2, <1>6, <1>9 DEF Closed
<1>10. { h \in XorGates(c) : Reads(c, h) \cap ToSet(RootInputs(c, s)) # {} } = first
  <2> DEFINE parents == GetParentAndStepParentInputsFromGate(c, s)
             taken0  == IF c.in0[s] # 0 THEN Siblings(c, s) ELSE {}
             taken1  == IF c.in1[s] # 0 THEN Siblings(c, s) ELSE {}
  <2>1. ToSet(parents) = { c.in0[h] : h \in taken0 } \cup { c.in1[h] : h \in taken1 }
    BY ParentsFound
  <2>2. s \notin ToSet(parents) => RootInputs(c, s) = parents
    BY RootsFound
  <2>3. Siblings(c, s) = { h \in near : (Reads(c, h) \cap Reads(c, s)) \ {0} # {} }
    <3>1. ASSUME NEW h \in XorGates(c), (Reads(c, h) \cap Reads(c, s)) \ {0} # {}
          PROVE  h \in set
      BY <1>2, <1>6, <1>9, <3>1
    <3> QED BY <1>2, <1>4, <3>1 DEF Siblings
  <2>4. Reads(c, s) = {c.in0[s], c.in1[s]} /\ \A h \in near : Reads(c, h) = {c.in0[h], c.in1[h]}
    BY DEF Reads
  <2> HIDE DEF parents
  <2>5. CASE 0 \notin Reads(c, s)
    <3>1. Siblings(c, s) = near /\ taken0 = near /\ taken1 = near
      BY <1>4, <2>3, <2>4, <2>5
    <3> HIDE DEF taken0, taken1
    <3>2. ToSet(parents) = roots
      BY <1>4, <2>1, <2>4, <3>1
    <3>3. ToSet(RootInputs(c, s)) = roots
      BY <1>1, <1>3, <2>2, <3>2
    <3>4. ASSUME NEW h \in XorGates(c), Reads(c, h) \cap roots # {} PROVE h \in set
      BY <1>2, <1>4, <1>6, <1>9, <3>4
    <3> QED BY <1>2, <1>4, <3>3, <3>4
  <2>6. CASE 0 \in Reads(c, s)
    <3>1. near = {s} /\ Reads(c, s) # {0} /\ roots = Reads(c, s)
      <4>1. near = {s} /\ Reads(c, s) # {0}
        BY <1>1, <1>3, <2>6
      <4>2. UNION { Reads(c, h) : h \in {s} } = Reads(c, s)
        OBVIOUS
      <4> QED BY <1>4, <4>1, <4>2
    <3>2. Siblings(c, s) = {s}
      BY <2>3, <2>4, <2>6, <3>1
    <3>3. ToSet(parents) = Reads(c, s) \ {0}
      BY <2>1, <2>4, <2>6, <3>1, <3>2
    <3>4. s \notin ToSet(parents)
      BY <1>1, <1>3, <3>1, <3>3
    <3>5. ToSet(RootInputs(c, s)) = Reads(c, s) \ {0}
      BY <2>2, <3>3, <3>4
    <3>6. first = {s}
      BY <1>2, <1>4, <1>6, <3>1
    <3>7. ASSUME NEW h \in XorGates(c), Reads(c, h) \cap (Reads(c, s) \ {0}) # {} PROVE h = s
      <4>1. h \in set
        BY <1>2, <1>6, <1>9, <3>7
      <4> QED BY <1>4, <3>1, <3>7, <4>1
    <3>8. Reads(c, s) \cap (Reads(c, s) \ {0}) # {}
      BY <2>4, <2>6, <3>1
    <3> QED BY <1>2, <3>5, <3>6, <3>7, <3>8
  <2> QED BY <2>5, <2>6
<1>11. ASSUME NEW G \in SUBSET set
       PROVE  Driven(c, G) = { h \in set : Drivers(c, h) \cap G # {} }
  <2>1. ASSUME NEW h \in XorGates(c)
        PROVE  Reads(c, h) \cap { c.out[d] : d \in G } # {} <=> Drivers(c, h) \cap G # {}
    BY <1>2 DEF Drivers
  <2>2. ASSUME NEW h \in XorGates(c), Reads(c, h) \cap { c.out[d] : d \in G } # {}
        PROVE  h \in set
    BY <1>2, <1>6, <1>9, <2>2
  <2> QED BY <1>2, <2>1, <2>2 DEF Driven
<1>12. first \in SUBSET set /\ second \in SUBSET set /\ third \in SUBSET set
  BY <1>1
<1>13. Driven(c, first) = second
  <2>1. Driven(c, first) = { h \in set : Drivers(c, h) \cap first # {} }
    BY <1>11, <1>12
  <2>2. ASSUME NEW h \in set, Drivers(c, h) \cap first # {} PROVE h \in second
    BY <1>1, <1>5, <1>8, <2>2
  <2>3. ASSUME NEW h \in second PROVE h \in set /\ Drivers(c, h) \cap first # {}
    BY <1>5
  <2> QED BY <2>1, <2>2, <2>3
<1>14. Driven(c, second) = third
  <2>1. Driven(c, second) = { h \in set : Drivers(c, h) \cap second # {} }
    BY <1>11, <1>12
  <2>2. ASSUME NEW h \in set, Drivers(c, h) \cap second # {} PROVE h \in third
    BY <1>1, <1>5, <1>8, <2>2
  <2>3. ASSUME NEW h \in third PROVE h \in set /\ Drivers(c, h) \cap second # {}
    BY <1>5
  <2> QED BY <2>1, <2>2, <2>3
<1>15. Driven(c, third) = {}
  <2>1. Driven(c, third) = { h \in set : Drivers(c, h) \cap third # {} }
    BY <1>11, <1>12
  <2>2. ASSUME NEW h \in set PROVE Drivers(c, h) \cap third = {}
    BY <1>1, <1>5, <1>8
  <2> QED BY <2>1, <2>2
<1> QED BY <1>1, <1>5, <1>7, <1>8, <1>10, <1>13, <1>14, <1>15
        DEF set, first, second, third

--------------------------------------------------------------------------------
(* Labels of XOR gates. *)

(* Gate g evaluates by exclusive or: one offset r on its three wires. *)
FreeWith(ws, r, g) ==
  /\ \A w \in WiresOf(circuit, g) : ws[w].label1 = Xor(r, ws[w].label0)
  /\ ws[circuit.out[g]].label0 = Xor(ws[circuit.in0[g]].label0, ws[circuit.in1[g]].label0)

Pairs(ws) == ws = [w \in Wires |-> [label0 |-> ws[w].label0, label1 |-> ws[w].label1]]

LEMMA XorAlgebra ==
  ASSUME NEW x, NEW y, NEW r
  PROVE  /\ Xor(x, Xor(r, y)) = Xor(r, Xor(x, y))
         /\ Xor(Xor(r, x), y) = Xor(r, Xor(x, y))
         /\ Xor(Xor(r, x), Xor(r, y)) = Xor(x, y)
BY DEF Xor

Put(v, w, x, y) == [v EXCEPT ![w] = [label0 |-> x, label1 |-> y]]
PutInput(v, w)  == [v EXCEPT ![w].label1 = Xor(R, v[w].label0)]

LEMMA PutLabels ==
  ASSUME NEW v, Pairs(v), NEW w \in Wires, NEW x, NEW y
  PROVE  /\ Pairs(Put(v, w, x, y))
         /\ Put(v, w, x, y)[w].label0 = x /\ Put(v, w, x, y)[w].label1 = y
         /\ \A u \in Wires : u # w => Put(v, w, x, y)[u] = v[u]
<1> DEFINE z == Put(v, w, x, y)
<1>1. DOMAIN v = Wires
  BY DEF Pairs
<1>2. /\ DOMAIN z = Wires /\ z[w] = [label0 |-> x, label1 |-> y]
      /\ \A u \in Wires : u # w => z[u] = v[u]
  BY <1>1 DEF Put
<1>3. \A u \in Wires : v[u] = [label0 |-> v[u].label0, label1 |-> v[u].label1]
  BY DEF Pairs
<1>4. \A u \in Wires : z[u] = [label0 |-> z[u].label0, label1 |-> z[u].label1]
  <2> HIDE DEF z
  <2> QED BY <1>2, <1>3
<1>5. z = [u \in Wires |-> z[u]]
  BY <1>1 DEF Put
<1> HIDE DEF z
<1>6. z = [u \in Wires |-> [label0 |-> z[u].label0, label1 |-> z[u].label1]]
  BY <1>4, <1>5
<1>7. Pairs(z)
  BY <1>6 DEF Pairs
<1>8. z[w].label0 = x /\ z[w].label1 = y
  BY <1>2
<1> QED BY <1>2, <1>7, <1>8 DEF z

LEMMA PutInputLabels ==
  ASSUME NEW v, Pairs(v), NEW w \in Wires
  PROVE  /\ Pairs(PutInput(v, w))
         /\ PutInput(v, w)[w].label0 = v[w].label0
         /\ PutInput(v, w)[w].label1 = Xor(R, v[w].label0)
         /\ \A u \in Wires : u # w => PutInput(v, w)[u] = v[u]
<1> DEFINE l0 == v[w].label0
           l1 == Xor(R, l0)
<1>1. DOMAIN v = Wires /\ v[w] = [label0 |-> l0, label1 |-> v[w].label1]
  BY DEF Pairs
<1>2. [v[w] EXCEPT !.label1 = l1] = [label0 |-> l0, label1 |-> l1]
  BY <1>1
<1>3. PutInput(v, w) = [v EXCEPT ![w] = [v[w] EXCEPT !.label1 = l1]]
  BY <1>1 DEF PutInput
<1>4. PutInput(v, w) = Put(v, w, l0, l1)
  BY <1>2, <1>3 DEF Put
<1> HIDE DEF l0, l1
<1>5. /\ Pairs(Put(v, w, l0, l1))
      /\ Put(v, w, l0, l1)[w].label0 = l0 /\ Put(v, w, l0, l1)[w].label1 = l1
      /\ \A u \in Wires : u # w => Put(v, w, l0, l1)[u] = v[u]
  BY PutLabels
<1> QED BY <1>4, <1>5 DEF l0, l1

(* The output of a gate is not one of its inputs. *)
LEMMA OutputIsNoInput ==
  ASSUME NEW c, WellFormed(c), NEW g \in Gates
  PROVE  c.out[g] \notin Reads(c, g)
<1> SUFFICES ASSUME c.out[g] \in Reads(c, g) PROVE FALSE
  OBVIOUS
<1>1. c.out[g] \in Inputs \cup { c.out[h] : h \in 0 .. g - 1 } /\ c.out[g] \notin Inputs
  BY DEF WellFormed, Reads
<1>2. PICK h \in 0 .. g - 1 : c.out[h] = c.out[g]
  BY <1>1
<1>3. h \in Gates /\ h # g
  BY <1>2, CircuitAssumption DEF Gates
<1> QED BY <1>2, <1>3 DEF WellFormed

(* What SetXorGate leaves: a gate that is free, and no label0 but its own   *)
(* output's changed.                                                        *)
LEMMA XorGateIsFree ==
  ASSUME NEW ws, Pairs(ws), WellFormed(circuit), NEW g \in Gates,
         NEW z, z = SetXorGate(ws, g)
  PROVE  /\ FreeWith(z, R, g)
         /\ \A w \in Wires \ WiresOf(circuit, g) : z[w] = ws[w]
         /\ \A w \in Reads(circuit, g) :
              z[w].label0 = ws[w].label0 /\ z[w].label1 = Xor(R, ws[w].label0)
<1> DEFINE i0 == circuit.in0[g]
           i1 == circuit.in1[g]
           o  == circuit.out[g]
           v1 == PutInput(ws, i0)
           v2 == PutInput(v1, i1)
           x  == Xor(v2[i0].label0, v2[i1].label0)
           y  == Xor(v2[i0].label0, v2[i1].label1)
<1>1. i0 \in Wires /\ i1 \in Wires /\ o \in Wires /\ o # i0 /\ o # i1
  BY ReadsAreWires, OutputIsNoInput DEF Reads
<1>2. z = Put(v2, o, x, y)
  BY DEF SetXorGate, Put, PutInput
<1>3. WiresOf(circuit, g) = {i0, i1, o} /\ Reads(circuit, g) = {i0, i1}
  BY DEF WiresOf, Reads
<1> HIDE DEF i0, i1, o
<1>6. /\ Pairs(v1) /\ v1[i0].label0 = ws[i0].label0 /\ v1[i0].label1 = Xor(R, ws[i0].label0)
      /\ \A u \in Wires : u # i0 => v1[u] = ws[u]
  BY <1>1, PutInputLabels
<1> HIDE DEF v1
<1>7. /\ Pairs(v2) /\ v2[i1].label0 = v1[i1].label0 /\ v2[i1].label1 = Xor(R, v1[i1].label0)
      /\ \A u \in Wires : u # i1 => v2[u] = v1[u]
  BY <1>1, <1>6, PutInputLabels
<1> HIDE DEF v2, x, y
<1>8. /\ Pairs(z) /\ z[o].label0 = x /\ z[o].label1 = y
      /\ \A u \in Wires : u # o => z[u] = v2[u]
  BY <1>1, <1>2, <1>7, PutLabels
<1>9. /\ z[i0].label0 = ws[i0].label0 /\ z[i1].label0 = ws[i1].label0
      /\ z[i0].label1 = Xor(R, ws[i0].label0) /\ z[i1].label1 = Xor(R, ws[i1].label0)
  <2>1. z[i0] = v2[i0] /\ z[i1] = v2[i1]
    BY <1>1, <1>8
  <2>2. v1[i1].label0 = ws[i1].label0
    BY <1>1, <1>6
  <2>3. v2[i0].label0 = ws[i0].label0 /\ v2[i0].label1 = Xor(R, ws[i0].label0)
    BY <1>1, <1>6, <1>7, <2>2
  <2> QED BY <1>7, <2>1, <2>2, <2>3
<1>10. ASSUME NEW w \in Wires, w \notin {i0, i1, o} PROVE z[w] = ws[w]
  BY <1>6, <1>7, <1>8, <1>10
<1>11. /\ z[o].label0 = Xor(z[i0].label0, z[i1].label0)
       /\ z[o].label1 = Xor(R, z[o].label0)
  <2>1. z[i0] = v2[i0] /\ z[i1] = v2[i1]
    BY <1>1, <1>8
  <2>2. z[o].label0 = Xor(z[i0].label0, z[i1].label0)
    BY <1>8, <2>1 DEF x
  <2>3. z[o].label1 = Xor(z[i0].label0, Xor(R, z[i1].label0))
    BY <1>8, <1>9, <2>1 DEF y
  <2> QED BY <2>2, <2>3, XorAlgebra
<1>12. FreeWith(z, R, g)
  <2>1. \A w \in {i0, i1, o} : z[w].label1 = Xor(R, z[w].label0)
    BY <1>9, <1>11
  <2> QED BY <1>3, <1>11, <2>1 DEF FreeWith, i0, i1, o
<1> QED BY <1>3, <1>9, <1>10, <1>12

(* Labelling g keeps h free, unless it overwrites a wire of h. *)
LEMMA FreeStays ==
  ASSUME NEW ws, Pairs(ws), WellFormed(circuit), NEW g \in Gates, NEW h \in Gates,
         FreeWith(ws, R, h), circuit.out[g] \notin WiresOf(circuit, h),
         NEW z, z = SetXorGate(ws, g)
  PROVE  FreeWith(z, R, h)
<1>1. /\ \A w \in Wires \ WiresOf(circuit, g) : z[w] = ws[w]
      /\ \A w \in Reads(circuit, g) :
           z[w].label0 = ws[w].label0 /\ z[w].label1 = Xor(R, ws[w].label0)
  BY XorGateIsFree
<1>2. ASSUME NEW w \in WiresOf(circuit, h)
      PROVE  z[w].label0 = ws[w].label0 /\ z[w].label1 = ws[w].label1
  <2>1. w \in Wires /\ w # circuit.out[g]
    BY ReadsAreWires DEF WiresOf
  <2>2. ws[w].label1 = Xor(R, ws[w].label0)
    BY DEF FreeWith
  <2> QED BY <1>1, <2>1, <2>2 DEF WiresOf, Reads
<1>3. {circuit.in0[h], circuit.in1[h], circuit.out[h]} = WiresOf(circuit, h)
  BY DEF WiresOf
<1> QED BY <1>2, <1>3 DEF FreeWith

(* What a free gate evaluates to. *)
LEMMA FreeEvaluates ==
  ASSUME NEW r, NEW g \in XorGates(circuit), FreeWith(wires, r, g),
         NEW a \in {0, 1}, NEW b \in {0, 1}
  PROVE  EvalGate(g, Label(circuit.in0[g], a), Label(circuit.in1[g], b))
           = Label(circuit.out[g], TruthBit(circuit.type[g], 2 * a + b))
<1> DEFINE x == wires[circuit.in0[g]].label0
           y == wires[circuit.in1[g]].label0
<1>1. /\ wires[circuit.in0[g]].label1 = Xor(r, x)
      /\ wires[circuit.in1[g]].label1 = Xor(r, y)
      /\ wires[circuit.out[g]].label0 = Xor(x, y)
      /\ wires[circuit.out[g]].label1 = Xor(r, Xor(x, y))
  BY DEF FreeWith, WiresOf
<1>2. circuit.type[g] = XOR
  BY DEF XorGates
<1>3. EvalGate(g, Label(circuit.in0[g], a), Label(circuit.in1[g], b))
        = Xor(Label(circuit.in0[g], a), Label(circuit.in1[g], b))
  BY <1>2 DEF EvalGate, EvalXorGate
<1>4. TruthBit(circuit.type[g], 2 * a + b) = IF a = b THEN 0 ELSE 1
  <2>1. 2^0 = 1 /\ 2^1 = 2 /\ 2^2 = 4 /\ 2^3 = 8
    OBVIOUS
  <2>2. circuit.type[g] = 6
    BY <1>2 DEF XOR
  <2>3. \A k : TruthBit(6, k) = (6 \div 2^k) % 2
    BY DEF TruthBit
  <2>4. /\ (6 \div 1) % 2 = 0 /\ (6 \div 2) % 2 = 1
        /\ (6 \div 4) % 2 = 1 /\ (6 \div 8) % 2 = 0
    OBVIOUS
  <2>5. /\ TruthBit(6, 0) = 0 /\ TruthBit(6, 1) = 1
        /\ TruthBit(6, 2) = 1 /\ TruthBit(6, 3) = 0
    BY <2>1, <2>3, <2>4
  <2> QED BY <2>2, <2>5
<1>5. /\ Label(circuit.in0[g], a) = (IF a = 1 THEN Xor(r, x) ELSE x)
      /\ Label(circuit.in1[g], b) = (IF b = 1 THEN Xor(r, y) ELSE y)
  BY <1>1 DEF Label
<1> HIDE DEF x, y
<1>6. \A k \in {0, 1} : Label(circuit.out[g], k) = IF k = 1 THEN Xor(r, Xor(x, y)) ELSE Xor(x, y)
  BY <1>1 DEF Label
<1>7. Xor(Label(circuit.in0[g], a), Label(circuit.in1[g], b))
        = IF a = b THEN Xor(x, y) ELSE Xor(r, Xor(x, y))
  <2>1. CASE a = 0 /\ b = 0
    BY <1>5, <2>1
  <2>2. CASE a = 0 /\ b = 1
    BY <1>5, <2>2, XorAlgebra
  <2>3. CASE a = 1 /\ b = 0
    BY <1>5, <2>3, XorAlgebra
  <2>4. CASE a = 1 /\ b = 1
    BY <1>5, <2>4, XorAlgebra
  <2> QED BY <2>1, <2>2, <2>3, <2>4
<1> QED BY <1>3, <1>4, <1>6, <1>7

--------------------------------------------------------------------------------
(* The invariant of a circuit that is supported. *)

Searching == pc \in {"seed", "search", "xor"}

(* Where the search is: the connected set of the seed, and its levels. *)
SeedSet == ConnectedGates(circuit, seedGateIt)
First   == FirstLevel(circuit, SeedSet)
Second  == NextLevel(circuit, SeedSet, First)
Third   == NextLevel(circuit, SeedSet, Second)

OutputsOfSet(G) == { circuit.out[g] : g \in G }

(* Earlier searches have returned whole connected sets. *)
ConnectedInv ==
  Searching => Closed(circuit, Marked) /\ Processor!NoGateSkipped

(* After round n the search has the first n levels, and the readers of its  *)
(* labels are the next; no gate comes before one that drives it.            *)
RoundsInv ==
  pc \in {"search", "xor"} =>
    /\ round = 0 => labels = RootInputs(circuit, seedGateIt)
    /\ round = 1 => ToSet(allGates) = First /\ ToSet(labels) = OutputsOfSet(First)
    /\ round = 2 => ToSet(allGates) = First \cup Second /\ ToSet(labels) = OutputsOfSet(Second)
    /\ round = 3 => ToSet(allGates) = SeedSet /\ ToSet(labels) = OutputsOfSet(Third)
    /\ round = 4 => ToSet(allGates) = SeedSet
    /\ pc = "search" => labelled = 0
    /\ pc = "xor" => ToSet(allGates) = SeedSet
    /\ \A m, n \in 1 .. Len(allGates) :
         allGates[m] \in Drivers(circuit, allGates[n]) => m < n

(* The gates of earlier searches are free, and so are those labelled so far. *)
FreeInv ==
  /\ Searching => \A g \in Marked : \E r : FreeWith(wires, r, g)
  /\ pc = "xor" => \A n \in 1 .. labelled : FreeWith(wires, R, allGates[n])
  /\ pc \in {"nonxor", "done", "lost"} =>
       \A g \in XorGates(circuit) : \E r : FreeWith(wires, r, g)

SupportedInv == Supported(circuit) => ConnectedInv /\ RoundsInv /\ FreeInv

LEMMA InitSupportedInv == Init => SupportedInv
<1> SUFFICES ASSUME Init PROVE SupportedInv
  OBVIOUS
<1>1. IInv /\ pc = "seed" /\ gatesIndexes = {}
  BY InitIInv DEF Init, GraphInit
<1>2. Marked = {}
  BY <1>1 DEF Marked
<1>3. Processor!NoGateSkipped
  <2>1. /\ seedGateIt = NbGates \/ toBeProcessed[seedGateIt] = 1
        /\ \A j \in 0 .. seedGateIt - 1 : toBeProcessed[j] = 0
    BY DEF Init, Processor!Find
  <2>2. seedGateIt \in 0 .. NbGates
    BY <1>1 DEF IInv, TypeOK
  <2>3. \A g \in Gates : g < seedGateIt => g \in 0 .. seedGateIt - 1
    BY <2>2, CircuitAssumption DEF Gates
  <2> QED BY <2>1, <2>3 DEF Processor!NoGateSkipped, Processor!Gates, Gates
<1>4. Closed(circuit, {})
  BY DEF Closed
<1> QED BY <1>1, <1>2, <1>3, <1>4 DEF SupportedInv, ConnectedInv, RoundsInv, FreeInv

(* The seed is the first gate of a connected set that is yet to be done. *)
LEMMA SeedOfSet ==
  ASSUME IInv, ConnectedInv, Searching, seedGateIt # NbGates
  PROVE  /\ seedGateIt \in XorGates(circuit) /\ Processor!GetNextSeedGate = seedGateIt
         /\ Marked \subseteq XorGates(circuit)
         /\ SeedSet \subseteq XorGates(circuit) /\ Closed(circuit, SeedSet)
         /\ SeedSet \cap Marked = {} /\ Closed(circuit, Marked \cup SeedSet)
         /\ Min(SeedSet) = seedGateIt
<1>1. /\ seedGateIt \in XorGates(circuit) /\ Processor!GetNextSeedGate = seedGateIt
      /\ toBeProcessed[seedGateIt] = 1
  BY SeedIsXor
<1>2. Marked \subseteq XorGates(circuit)
  BY DEF IInv, TypeOK, Marked
<1>3. \A g \in XorGates(circuit) : toBeProcessed[g] = 0 <=> g \in Marked
  BY DEF IInv, WorklistInv, Searching
<1>4. Closed(circuit, Marked) /\ Processor!NoGateSkipped
  BY DEF ConnectedInv
<1>5. seedGateIt \notin Marked
  BY <1>1, <1>3
<1>6. SeedSet \cap Marked = {} /\ Closed(circuit, Marked \cup SeedSet)
  BY <1>1, <1>2, <1>4, <1>5, ConnectedIsApart DEF SeedSet
<1>7. SeedSet \subseteq XorGates(circuit) /\ Closed(circuit, SeedSet)
  BY <1>1, ConnectedIsLeast DEF SeedSet
<1>8. ASSUME NEW h \in SeedSet PROVE seedGateIt <= h
  <2>1. toBeProcessed[h] # 0 /\ h \in Gates /\ h \in Nat /\ seedGateIt \in Nat
    BY <1>1, <1>3, <1>6, <1>7, XorIsGate
  <2>2. ~ (h < seedGateIt)
    BY <1>4, <2>1 DEF Processor!NoGateSkipped, Processor!Gates, Gates
  <2> QED BY <2>1, <2>2
<1>9. Min(SeedSet) = seedGateIt
  BY <1>1, <1>8, FirstOfSet DEF SeedSet
<1> QED BY <1>1, <1>2, <1>6, <1>7, <1>9

LEMMA Levels ==
  ASSUME IInv, ConnectedInv, Searching, seedGateIt # NbGates, Supported(circuit)
  PROVE  /\ SeedSet = First \cup Second \cup Third
         /\ First \cap Second = {} /\ First \cap Third = {} /\ Second \cap Third = {}
         /\ seedGateIt \in First
         /\ \A h \in First : Drivers(circuit, h) = {}
         /\ \A h \in Second : Drivers(circuit, h) # {} /\ Drivers(circuit, h) \subseteq First
         /\ \A h \in Third : Drivers(circuit, h) # {} /\ Drivers(circuit, h) \subseteq Second
         /\ { h \in XorGates(circuit) :
                Reads(circuit, h) \cap ToSet(RootInputs(circuit, seedGateIt)) # {} } = First
         /\ Driven(circuit, First) = Second
         /\ Driven(circuit, Second) = Third
         /\ Driven(circuit, Third) = {}
<1>1. seedGateIt \in XorGates(circuit) /\ Min(ConnectedGates(circuit, seedGateIt)) = seedGateIt
  BY SeedOfSet DEF SeedSet
<1>2. WellFormed(circuit)
  BY DEF IInv, TypeOK
<1> QED BY <1>1, <1>2, LevelsAreRounds DEF SeedSet, First, Second, Third

LEMMA LevelsStay ==
  ASSUME UNCHANGED <<circuit, seedGateIt>>
  PROVE  /\ SeedSet' = SeedSet /\ First' = First /\ Second' = Second /\ Third' = Third
         /\ \A G : OutputsOfSet(G)' = OutputsOfSet(G)
<1>1. SeedSet' = SeedSet
  BY DEF SeedSet
<1>2. First' = First
  BY <1>1 DEF First
<1>3. Second' = Second
  BY <1>1, <1>2 DEF Second
<1>4. Third' = Third
  BY <1>1, <1>3 DEF Third
<1> QED BY <1>1, <1>2, <1>3, <1>4 DEF OutputsOfSet

(* The gates stay free as long as nothing is written. *)
LEMMA FreeSame ==
  ASSUME UNCHANGED <<circuit, wires>>
  PROVE  \A r, g : FreeWith(wires, r, g)' <=> FreeWith(wires, r, g)
BY DEF FreeWith, WiresOf

LEMMA StartSearchKeepsSupportedInv ==
  ASSUME IInv, SupportedInv, StartSearch
  PROVE  SupportedInv'
<1> SUFFICES ASSUME Supported(circuit)' PROVE ConnectedInv' /\ RoundsInv' /\ FreeInv'
  BY DEF SupportedInv
<1>1. seedGateIt # NbGates
  BY NextSeed DEF StartSearch
<1>2. /\ pc = "seed" /\ pc' = "search"
      /\ allGates' = <<>> /\ round' = 0 /\ labelled' = 0
      /\ labels' = RootInputs(circuit, seedGateIt)
      /\ UNCHANGED <<circuit, gatesIndexes, wires, toBeProcessed, seedGateIt>>
  BY <1>1, SeedIsXor DEF StartSearch, BeginFindAllGates, processorVars
<1>3. ConnectedInv /\ FreeInv
  BY <1>2 DEF SupportedInv
<1>4. Marked' = Marked
  BY <1>2 DEF Marked, ToSet
<1>5. ConnectedInv'
  BY <1>2, <1>3, <1>4 DEF ConnectedInv, Searching, Processor!NoGateSkipped
<1>6. RoundsInv'
  BY <1>2 DEF RoundsInv
<1>7. FreeInv'
  BY <1>2, <1>3, <1>4, FreeSame DEF FreeInv, Searching
<1> QED BY <1>5, <1>6, <1>7

(* A round finds the next level, whose drivers have all been found. *)
LEMMA RoundFindsLevel ==
  ASSUME IInv, ConnectedInv, RoundsInv, Supported(circuit), pc = "search", round # 4,
         NEW level, level = ToSet(Found)
  PROVE  /\ round = 0 => level = First /\ ToSet(allGates) = {}
         /\ round = 1 => level = Second
         /\ round = 2 => level = Third
         /\ round = 3 => level = {}
         /\ level \cap ToSet(allGates) = {}
         /\ \A h \in level \cup ToSet(allGates) : Drivers(circuit, h) \subseteq ToSet(allGates)
<1>1. /\ seedGateIt # NbGates /\ ToSet(allGates) \subseteq gatesIndexes
      /\ labels \in Seq(Wires) /\ WellFormed(circuit) /\ round \in 0 .. 4
      /\ round = 0 => allGates = <<>>
  BY DEF IInv, TypeOK, SearchInv
<1>2. level = { g \in XorGates(circuit) \ gatesIndexes :
                  Reads(circuit, g) \cap ToSet(labels) # {} }
  BY <1>1, RoundFinds DEF Found
<1>3. gatesIndexes = Marked \cup ToSet(allGates) /\ Marked \cap ToSet(allGates) = {}
  BY <1>1 DEF Marked
<1>4. /\ SeedSet \subseteq XorGates(circuit) /\ SeedSet \cap Marked = {}
  BY <1>1, SeedOfSet DEF Searching
<1>5. /\ SeedSet = First \cup Second \cup Third
      /\ First \cap Second = {} /\ First \cap Third = {} /\ Second \cap Third = {}
      /\ \A h \in First : Drivers(circuit, h) = {}
      /\ \A h \in Second : Drivers(circuit, h) \subseteq First
      /\ \A h \in Third : Drivers(circuit, h) \subseteq Second
      /\ { h \in XorGates(circuit) :
             Reads(circuit, h) \cap ToSet(RootInputs(circuit, seedGateIt)) # {} } = First
      /\ Driven(circuit, First) = Second
      /\ Driven(circuit, Second) = Third
      /\ Driven(circuit, Third) = {}
  BY <1>1, Levels DEF Searching
<1>6. \A G : ToSet(labels) = OutputsOfSet(G) => level = Driven(circuit, G) \ gatesIndexes
  BY <1>2 DEF OutputsOfSet, Driven
<1>7. CASE round = 0
  <2>1. ToSet(allGates) = {} /\ labels = RootInputs(circuit, seedGateIt)
    BY <1>1, <1>7 DEF ToSet, RoundsInv
  <2>2. level = First \ gatesIndexes
    BY <1>2, <1>5, <2>1
  <2>3. level = First
    BY <1>3, <1>4, <1>5, <2>1, <2>2
  <2> QED BY <1>5, <1>7, <2>1, <2>3
<1>8. CASE round = 1
  <2>1. ToSet(allGates) = First /\ ToSet(labels) = OutputsOfSet(First)
    BY <1>8 DEF RoundsInv
  <2>2. level = Second \ gatesIndexes
    BY <1>5, <1>6, <2>1
  <2>3. level = Second
    BY <1>3, <1>4, <1>5, <2>1, <2>2
  <2> QED BY <1>5, <1>8, <2>1, <2>3
<1>9. CASE round = 2
  <2>1. ToSet(allGates) = First \cup Second /\ ToSet(labels) = OutputsOfSet(Second)
    BY <1>9 DEF RoundsInv
  <2>2. level = Third \ gatesIndexes
    BY <1>5, <1>6, <2>1
  <2>3. level = Third
    BY <1>3, <1>4, <1>5, <2>1, <2>2
  <2> QED BY <1>5, <1>9, <2>1, <2>3
<1>10. CASE round = 3
  <2>1. ToSet(allGates) = First \cup Second \cup Third /\ ToSet(labels) = OutputsOfSet(Third)
    BY <1>5, <1>10 DEF RoundsInv
  <2>2. level = {}
    BY <1>5, <1>6, <2>1
  <2> QED BY <1>5, <1>10, <2>1, <2>2
<1> QED BY <1>1, <1>7, <1>8, <1>9, <1>10

LEMMA OutputsListed ==
  ASSUME NEW S, NEW found \in Seq(S)
  PROVE  ToSet(OutputsOf(circuit, found)) = OutputsOfSet(ToSet(found))
<1>1. OutputsOf(circuit, found) = [k \in 1 .. Len(found) |-> circuit.out[found[k]]]
  BY DEF OutputsOf
<1>2. DOMAIN found = 1 .. Len(found)
  OBVIOUS
<1>3. ToSet(OutputsOf(circuit, found)) = { circuit.out[found[k]] : k \in 1 .. Len(found) }
  BY <1>1 DEF ToSet
<1>4. ToSet(found) = { found[k] : k \in 1 .. Len(found) }
  BY <1>2 DEF ToSet
<1> QED BY <1>3, <1>4 DEF OutputsOfSet

(* Gates that come after those that drive them still do with a level added. *)
LEMMA OrderKept ==
  ASSUME NEW S, NEW s \in Seq(S), NEW t \in Seq(S), NEW c,
         \A m, n \in 1 .. Len(s) : s[m] \in Drivers(c, s[n]) => m < n,
         ToSet(t) \cap ToSet(s) = {},
         \A h \in ToSet(t) \cup ToSet(s) : Drivers(c, h) \subseteq ToSet(s)
  PROVE  \A m, n \in 1 .. Len(s \o t) : (s \o t)[m] \in Drivers(c, (s \o t)[n]) => m < n
<1>1. /\ Len(s \o t) = Len(s) + Len(t) /\ Len(s) \in Nat /\ Len(t) \in Nat
      /\ \A k \in 1 .. Len(s) + Len(t) :
           (s \o t)[k] = IF k <= Len(s) THEN s[k] ELSE t[k - Len(s)]
      /\ DOMAIN s = 1 .. Len(s) /\ DOMAIN t = 1 .. Len(t)
  OBVIOUS
<1> SUFFICES ASSUME NEW m \in 1 .. Len(s) + Len(t), NEW n \in 1 .. Len(s) + Len(t),
                    (s \o t)[m] \in Drivers(c, (s \o t)[n])
             PROVE  m < n
  BY <1>1
<1>2. ASSUME NEW k \in 1 .. Len(s) + Len(t)
      PROVE  (s \o t)[k] \in (IF k <= Len(s) THEN ToSet(s) ELSE ToSet(t))
  <2>1. CASE k <= Len(s)
    BY <1>1, <2>1 DEF ToSet
  <2>2. CASE ~ (k <= Len(s))
    <3>1. k - Len(s) \in 1 .. Len(t)
      BY <1>1, <2>2
    <3> QED BY <1>1, <2>2, <3>1 DEF ToSet
  <2> QED BY <2>1, <2>2
<1>3. (s \o t)[m] \in ToSet(s)
  BY <1>2
<1>4. m <= Len(s)
  BY <1>2, <1>3
<1>5. CASE n <= Len(s)
  <2>1. m \in 1 .. Len(s) /\ n \in 1 .. Len(s) /\ (s \o t)[m] = s[m] /\ (s \o t)[n] = s[n]
    BY <1>1, <1>4, <1>5
  <2> QED BY <2>1
<1>6. CASE ~ (n <= Len(s))
  BY <1>1, <1>4, <1>6
<1> QED BY <1>5, <1>6

LEMMA SearchRoundKeepsSupportedInv ==
  ASSUME IInv, SupportedInv, SearchRound
  PROVE  SupportedInv'
<1> SUFFICES ASSUME Supported(circuit)' PROVE ConnectedInv' /\ RoundsInv' /\ FreeInv'
  BY DEF SupportedInv
<1> DEFINE found == NewGates(circuit, gatesIndexes, labels)
<1>1. /\ pc = "search" /\ pc' = "search" /\ round # 4
      /\ allGates' = allGates \o found
      /\ gatesIndexes' = gatesIndexes \cup ToSet(found)
      /\ labels' = OutputsOf(circuit, found)
      /\ round' = round + 1
      /\ UNCHANGED <<circuit, wires, labelled, toBeProcessed, seedGateIt>>
  BY DEF SearchRound, AllGatesFound, GetAllOutputsFromInputs, Found, processorVars
<1>2. /\ WellFormed(circuit) /\ labels \in Seq(Wires) /\ round \in 0 .. 4
      /\ allGates \in Seq(XorGates(circuit)) /\ ToSet(allGates) \subseteq gatesIndexes
      /\ seedGateIt # NbGates
  BY <1>1 DEF IInv, TypeOK, SearchInv
<1>3. ConnectedInv /\ RoundsInv /\ FreeInv /\ Supported(circuit)
  BY <1>1 DEF SupportedInv
<1>4. /\ found \in Seq(XorGates(circuit)) /\ found = Found
      /\ ToSet(found) \cap gatesIndexes = {}
  BY <1>2, RoundFinds DEF Found
<1>5. /\ SeedSet = First \cup Second \cup Third
      /\ SeedSet' = SeedSet /\ First' = First /\ Second' = Second /\ Third' = Third
      /\ \A G : OutputsOfSet(G)' = OutputsOfSet(G)
  BY <1>1, <1>2, <1>3, Levels, LevelsStay DEF Searching
<1> DEFINE level == ToSet(found)
           X == XorGates(circuit)
<1>6. /\ round = 0 => level = First /\ ToSet(allGates) = {}
      /\ round = 1 => level = Second
      /\ round = 2 => level = Third
      /\ round = 3 => level = {}
      /\ level \cap ToSet(allGates) = {}
      /\ \A h \in level \cup ToSet(allGates) : Drivers(circuit, h) \subseteq ToSet(allGates)
  <2>1. level = ToSet(Found)
    BY <1>4
  <2> HIDE DEF level
  <2> QED BY <1>1, <1>3, <2>1, RoundFindsLevel
<1>7. allGates \in Seq(X) /\ found \in Seq(X)
  BY <1>2, <1>4
<1> HIDE DEF X, found
<1>8. ToSet(allGates') = ToSet(allGates) \cup level
  BY <1>1, <1>7, ToSetConcat
<1>9. ToSet(labels') = OutputsOfSet(level)
  BY <1>1, <1>7, OutputsListed
<1>10. \A m, n \in 1 .. Len(allGates') :
         allGates'[m] \in Drivers(circuit, allGates'[n]) => m < n
  <2>1. \A m, n \in 1 .. Len(allGates) : allGates[m] \in Drivers(circuit, allGates[n]) => m < n
    BY <1>1, <1>3 DEF RoundsInv
  <2>2. \A m, n \in 1 .. Len(allGates \o found) :
          (allGates \o found)[m] \in Drivers(circuit, (allGates \o found)[n]) => m < n
    BY <1>6, <1>7, <2>1, OrderKept
  <2> QED BY <1>1, <2>2
<1> HIDE DEF level
<1>11. Marked' = Marked
  BY <1>1, <1>2, <1>4, <1>8 DEF Marked, level
<1>12. ConnectedInv'
  BY <1>1, <1>3, <1>11 DEF ConnectedInv, Searching, Processor!NoGateSkipped
<1>13. RoundsInv'
  <2>1. /\ round = 1 => ToSet(allGates) = First
        /\ round = 2 => ToSet(allGates) = First \cup Second
        /\ round = 3 => ToSet(allGates) = SeedSet
        /\ labelled = 0
    BY <1>1, <1>3 DEF RoundsInv
  <2>2. round' = 1 => ToSet(allGates') = First /\ ToSet(labels') = OutputsOfSet(First)
    BY <1>1, <1>2, <1>6, <1>8, <1>9
  <2>3. round' = 2 => ToSet(allGates') = First \cup Second
                      /\ ToSet(labels') = OutputsOfSet(Second)
    BY <1>1, <1>2, <1>6, <1>8, <1>9, <2>1
  <2>4. round' = 3 => ToSet(allGates') = SeedSet /\ ToSet(labels') = OutputsOfSet(Third)
    BY <1>1, <1>2, <1>5, <1>6, <1>8, <1>9, <2>1
  <2>5. round' = 4 => ToSet(allGates') = SeedSet
    BY <1>1, <1>2, <1>5, <1>6, <1>8, <2>1
  <2>6. round' # 0
    BY <1>1, <1>2
  <2> QED BY <1>1, <1>5, <1>10, <2>1, <2>2, <2>3, <2>4, <2>5, <2>6 DEF RoundsInv
<1>14. FreeInv'
  BY <1>1, <1>3, <1>11, FreeSame DEF FreeInv, Searching
<1> QED BY <1>12, <1>13, <1>14

LEMMA ChooseRKeepsSupportedInv ==
  ASSUME IInv, SupportedInv, ChooseR
  PROVE  SupportedInv'
<1> SUFFICES ASSUME Supported(circuit)' PROVE ConnectedInv' /\ RoundsInv' /\ FreeInv'
  BY DEF SupportedInv
<1>1. /\ pc = "search" /\ pc' = "xor" /\ (round = 4 \/ (round > 0 /\ labels = <<>>))
      /\ UNCHANGED <<circuit, gatesIndexes, allGates, labels, round>>
      /\ UNCHANGED <<wires, labelled, toBeProcessed, seedGateIt>>
  BY DEF ChooseR, AllGatesFound, graphVars, processorVars
<1>2. seedGateIt # NbGates /\ round \in 0 .. 4
  BY <1>1 DEF IInv, TypeOK, SearchInv
<1>3. ConnectedInv /\ RoundsInv /\ FreeInv /\ Supported(circuit)
  BY <1>1 DEF SupportedInv
<1>4. /\ SeedSet = First \cup Second \cup Third
      /\ seedGateIt \in First
      /\ \A h \in Second : Drivers(circuit, h) # {} /\ Drivers(circuit, h) \subseteq First
      /\ \A h \in Third : Drivers(circuit, h) # {} /\ Drivers(circuit, h) \subseteq Second
      /\ SeedSet' = SeedSet /\ First' = First /\ Second' = Second /\ Third' = Third
      /\ \A G : OutputsOfSet(G)' = OutputsOfSet(G)
  BY <1>1, <1>2, <1>3, Levels, LevelsStay DEF Searching
<1>5. Marked' = Marked
  BY <1>1 DEF Marked
<1>6. ToSet(allGates) = SeedSet
  <2>1. CASE round = 4
    BY <1>1, <1>3, <2>1 DEF RoundsInv
  <2>2. CASE round # 4
    <3>1. ToSet(labels) = {} /\ round \in 1 .. 3
      BY <1>1, <1>2, <2>2 DEF ToSet
    <3>2. \A G : OutputsOfSet(G) = {} => G = {}
      BY DEF OutputsOfSet
    <3>3. CASE round = 1
      BY <1>1, <1>3, <1>4, <3>1, <3>2, <3>3 DEF RoundsInv
    <3>4. CASE round = 2
      <4>1. ToSet(allGates) = First \cup Second /\ Second = {}
        BY <1>1, <1>3, <3>1, <3>2, <3>4 DEF RoundsInv
      <4> QED BY <1>4, <4>1
    <3>5. CASE round = 3
      BY <1>1, <1>3, <3>5 DEF RoundsInv
    <3> QED BY <3>1, <3>3, <3>4, <3>5
  <2> QED BY <2>1, <2>2
<1>7. ConnectedInv'
  BY <1>1, <1>3, <1>5 DEF ConnectedInv, Searching, Processor!NoGateSkipped
<1>8. RoundsInv'
  BY <1>1, <1>3, <1>4, <1>6 DEF RoundsInv
<1>9. FreeInv'
  <2>1. labelled = 0
    BY <1>1, <1>3 DEF RoundsInv
  <2> QED BY <1>1, <1>3, <1>5, <2>1, FreeSame DEF FreeInv, Searching
<1> QED BY <1>7, <1>8, <1>9

(* While a subgraph is labelled, no wire of an earlier one is written. *)
LEMMA LabelKeepsMarked ==
  ASSUME IInv, SupportedInv, Supported(circuit), LabelXorGate
  PROVE  /\ allGates[labelled + 1] \in SeedSet /\ allGates[labelled + 1] \in Gates
         /\ labelled + 1 \in 1 .. Len(allGates)
         /\ \A g \in Marked : \A w \in WiresOf(circuit, g) : wires'[w] = wires[w]
<1>1. /\ pc = "xor" /\ labelled < Len(allGates)
      /\ wires' = SetXorGate(wires, allGates[labelled + 1])
  BY DEF LabelXorGate
<1>2. /\ allGates \in Seq(XorGates(circuit)) /\ labelled \in 0 .. Len(allGates)
      /\ seedGateIt # NbGates /\ WellFormed(circuit) /\ Pairs(wires)
  BY <1>1 DEF IInv, TypeOK, SearchInv, LabelsInv, TwoLabels, Pairs
<1>3. ConnectedInv /\ RoundsInv
  BY DEF SupportedInv
<1>4. labelled + 1 \in 1 .. Len(allGates) /\ DOMAIN allGates = 1 .. Len(allGates)
  BY <1>1, <1>2
<1> DEFINE h == allGates[labelled + 1]
<1>5. h \in XorGates(circuit) /\ h \in Gates /\ h \in ToSet(allGates)
  BY <1>2, <1>4, XorIsGate DEF ToSet
<1>6. h \in SeedSet
  BY <1>1, <1>3, <1>5 DEF RoundsInv
<1>7. SeedSet \cap Marked = {} /\ Closed(circuit, Marked) /\ Marked \subseteq XorGates(circuit)
  BY <1>1, <1>2, <1>3, SeedOfSet DEF Searching, ConnectedInv
<1> HIDE DEF h
<1>8. ASSUME NEW g \in Marked, NEW w \in WiresOf(circuit, g)
      PROVE  w \in Wires /\ w \notin WiresOf(circuit, h)
  <2>1. g \in Gates
    BY <1>7, XorIsGate
  <2>2. w \in Wires
    BY <1>2, <1>8, <2>1, ReadsAreWires DEF WiresOf
  <2>3. WiresOf(circuit, g) \cap WiresOf(circuit, h) = {}
    BY <1>5, <1>6, <1>7 DEF Closed
  <2> QED BY <1>8, <2>2, <2>3
<1>9. \A w \in Wires \ WiresOf(circuit, h) : wires'[w] = wires[w]
  <2> DEFINE z == SetXorGate(wires, h)
  <2>1. \A w \in Wires \ WiresOf(circuit, h) : z[w] = wires[w]
    <3>1. z = SetXorGate(wires, h)
      OBVIOUS
    <3> HIDE DEF z
    <3> QED BY <1>2, <1>5, <3>1, XorGateIsFree
  <2> QED BY <1>1, <2>1 DEF h
<1> QED BY <1>4, <1>5, <1>6, <1>8, <1>9 DEF h

LEMMA LabelXorGateKeepsSupportedInv ==
  ASSUME IInv, SupportedInv, LabelXorGate
  PROVE  SupportedInv'
<1> SUFFICES ASSUME Supported(circuit)' PROVE ConnectedInv' /\ RoundsInv' /\ FreeInv'
  BY DEF SupportedInv
<1>1. /\ pc = "xor" /\ pc' = "xor" /\ labelled' = labelled + 1
      /\ wires' = SetXorGate(wires, allGates[labelled + 1])
      /\ UNCHANGED <<circuit, gatesIndexes, allGates, labels, round>>
      /\ UNCHANGED <<toBeProcessed, seedGateIt, R>>
  BY DEF LabelXorGate, graphVars, processorVars
<1>2. ConnectedInv /\ RoundsInv /\ FreeInv /\ Supported(circuit)
  BY <1>1 DEF SupportedInv
<1>3. /\ allGates \in Seq(XorGates(circuit)) /\ labelled \in 0 .. Len(allGates)
      /\ WellFormed(circuit) /\ Pairs(wires)
  BY <1>1 DEF IInv, TypeOK, LabelsInv, TwoLabels, Pairs
<1> DEFINE h == allGates[labelled + 1]
<1>4. /\ h \in Gates /\ labelled + 1 \in 1 .. Len(allGates)
      /\ \A g \in Marked : \A w \in WiresOf(circuit, g) : wires'[w] = wires[w]
  BY <1>2, LabelKeepsMarked
<1>5. Marked' = Marked
  BY <1>1 DEF Marked
<1>6. /\ SeedSet' = SeedSet /\ First' = First /\ Second' = Second /\ Third' = Third
      /\ \A G : OutputsOfSet(G)' = OutputsOfSet(G)
  BY <1>1, LevelsStay
<1>7. ConnectedInv'
  BY <1>1, <1>2, <1>5 DEF ConnectedInv, Searching, Processor!NoGateSkipped
<1>8. RoundsInv'
  BY <1>1, <1>2, <1>6 DEF RoundsInv
<1>9. ASSUME NEW g \in Marked PROVE \E r : FreeWith(wires', r, g)
  <2>1. PICK r : FreeWith(wires, r, g)
    BY <1>1, <1>2 DEF FreeInv, Searching
  <2>2. FreeWith(wires', r, g)
    BY <1>4, <2>1 DEF FreeWith, WiresOf
  <2> QED BY <2>2
<1>10. ASSUME NEW n \in 1 .. labelled + 1 PROVE FreeWith(wires', R, allGates[n])
  <2> DEFINE g == allGates[n]
             z == SetXorGate(wires, h)
  <2>1. /\ z = SetXorGate(wires, h) /\ z = wires'
    BY <1>1
  <2>2. n \in 1 .. Len(allGates) /\ g \in Gates
    BY <1>3, <1>4, XorIsGate
  <2> HIDE DEF z, h
  <2>3. FreeWith(z, R, h)
    BY <1>3, <1>4, <2>1, XorGateIsFree
  <2>4. CASE n = labelled + 1
    BY <2>1, <2>3, <2>4 DEF h
  <2>5. CASE n # labelled + 1 /\ circuit.out[h] \notin WiresOf(circuit, g)
    <3>1. FreeWith(wires, R, g)
      BY <1>1, <1>2, <1>3, <2>5 DEF FreeInv
    <3> HIDE DEF g
    <3>2. FreeWith(z, R, g)
      BY <1>3, <1>4, <2>1, <2>2, <2>5, <3>1, FreeStays
    <3> QED BY <2>1, <3>2 DEF g
  <2>6. CASE n # labelled + 1 /\ circuit.out[h] \in WiresOf(circuit, g)
    <3>1. CASE circuit.out[h] = circuit.out[g]
      <4>1. h = g
        BY <1>3, <1>4, <2>2, <3>1 DEF WellFormed
      <4> QED BY <2>1, <2>3, <4>1
    <3>2. CASE circuit.out[h] \in Reads(circuit, g)
      <4>1. h \in Drivers(circuit, g)
        BY <1>3, <1>4, <3>2 DEF Drivers, h
      <4>2. labelled + 1 < n
        BY <1>1, <1>2, <1>4, <2>2, <4>1 DEF RoundsInv, h
      <4> QED BY <1>3, <4>2
    <3> QED BY <2>6, <3>1, <3>2 DEF WiresOf, Reads
  <2> QED BY <2>4, <2>5, <2>6
<1>11. FreeInv'
  <2>1. \A r, g : FreeWith(wires, r, g)' <=> FreeWith(wires', r, g)
    BY <1>1 DEF FreeWith, WiresOf
  <2> HIDE DEF h
  <2>2. \A g \in Marked' : \E r : FreeWith(wires, r, g)'
    BY <1>5, <1>9, <2>1
  <2>3. \A n \in 1 .. labelled' : FreeWith(wires, R, allGates[n])'
    <3>1. \A n \in 1 .. labelled' : FreeWith(wires', R, allGates[n])
      BY <1>1, <1>10
    <3> QED BY <1>1, <3>1 DEF FreeWith, WiresOf
  <2> QED BY <1>1, <2>2, <2>3 DEF FreeInv
<1> QED BY <1>7, <1>8, <1>11

LEMMA MarkSubgraphKeepsSupportedInv ==
  ASSUME IInv, SupportedInv, MarkSubgraph
  PROVE  SupportedInv'
<1> SUFFICES ASSUME Supported(circuit)' PROVE ConnectedInv' /\ RoundsInv' /\ FreeInv'
  BY DEF SupportedInv
<1> DEFINE S == ToSet(allGates)
<1>1. /\ pc = "xor" /\ pc' = "seed" /\ labelled = Len(allGates)
      /\ Processor!MarkAsProcessed(S)
      /\ UNCHANGED <<circuit, gatesIndexes, allGates, wires>>
  BY DEF MarkSubgraph, graphVars
<1>2. ConnectedInv /\ RoundsInv /\ FreeInv /\ Supported(circuit)
  BY <1>1 DEF SupportedInv
<1>3. /\ seedGateIt # NbGates /\ S \subseteq gatesIndexes
      /\ allGates \in Seq(XorGates(circuit)) /\ DOMAIN allGates = 1 .. Len(allGates)
  BY <1>1 DEF IInv, TypeOK, SearchInv
<1>4. /\ S = SeedSet /\ Closed(circuit, Marked \cup SeedSet)
      /\ seedGateIt \in S /\ Processor!GetNextSeedGate = seedGateIt
      /\ S \in SUBSET Gates
  <2>1. S = SeedSet
    BY <1>1, <1>2 DEF RoundsInv
  <2>2. /\ Closed(circuit, Marked \cup SeedSet) /\ Processor!GetNextSeedGate = seedGateIt
        /\ SeedSet \subseteq XorGates(circuit)
    BY <1>1, <1>2, <1>3, SeedOfSet DEF Searching
  <2>3. seedGateIt \in First /\ SeedSet = First \cup Second \cup Third
    BY <1>1, <1>2, <1>3, Levels DEF Searching
  <2> HIDE DEF S
  <2> QED BY <2>1, <2>2, <2>3, XorIsGate
<1>5. \A g \in S : \E n \in 1 .. labelled : allGates[n] = g
  BY <1>1, <1>3 DEF ToSet
<1>6. Processor!Precondition(S)
  <2>1. \A g \in S : toBeProcessed[g] = 1
    BY <1>1, SubgraphKeepsContract DEF KeepsProcessorContract
  <2> HIDE DEF S
  <2> QED BY <1>4, <2>1 DEF Processor!Precondition
<1> HIDE DEF S
<1>7. Marked' = Marked \cup SeedSet
  BY <1>1, <1>3, <1>4 DEF Marked, S
<1>8. ConnectedInv'
  <2>1. Processor!NoGateSkipped'
    BY <1>1, <1>2, <1>4, <1>6, ScanSkipsNone DEF ConnectedInv, Searching
  <2>2. Closed(circuit, Marked)'
    BY <1>1, <1>4, <1>7
  <2> QED BY <2>1, <2>2 DEF ConnectedInv
<1>9. RoundsInv'
  BY <1>1 DEF RoundsInv
<1>10. ASSUME NEW g \in Marked \cup SeedSet PROVE \E r : FreeWith(wires, r, g)
  <2>1. CASE g \in Marked
    BY <1>1, <1>2, <2>1 DEF FreeInv, Searching
  <2>2. CASE g \in SeedSet
    <3>1. PICK n \in 1 .. labelled : allGates[n] = g
      BY <1>4, <1>5, <2>2
    <3> QED BY <1>1, <1>2, <3>1 DEF FreeInv
  <2> QED BY <2>1, <2>2
<1>11. FreeInv'
  <2>1. \A g \in Marked' : \E r : FreeWith(wires, r, g)'
    BY <1>1, <1>7, <1>10, FreeSame
  <2> QED BY <1>1, <2>1 DEF FreeInv
<1> QED BY <1>8, <1>9, <1>11

(* When no seed is left, every XOR gate has been labelled. *)
LEMMA NoMoreSeedsKeepsSupportedInv ==
  ASSUME IInv, SupportedInv, NoMoreSeeds
  PROVE  SupportedInv'
<1> SUFFICES ASSUME Supported(circuit)' PROVE ConnectedInv' /\ RoundsInv' /\ FreeInv'
  BY DEF SupportedInv
<1>1. /\ pc = "seed" /\ pc' = "nonxor" /\ Processor!GetNextSeedGate = -1
      /\ UNCHANGED <<circuit, wires>>
  BY DEF NoMoreSeeds, graphVars
<1>2. ConnectedInv /\ FreeInv
  BY <1>1 DEF SupportedInv
<1>3. seedGateIt = NbGates
  <2>1. seedGateIt \in Nat
    BY CircuitAssumption DEF IInv, TypeOK
  <2> QED BY <1>1, <2>1 DEF Processor!GetNextSeedGate
<1>4. ASSUME NEW g \in XorGates(circuit) PROVE g \in Marked
  <2>1. g \in Gates /\ g < seedGateIt
    BY <1>3, CircuitAssumption DEF XorGates, Gates
  <2>2. toBeProcessed[g] = 0
    BY <1>1, <1>2, <2>1
       DEF ConnectedInv, Searching, Processor!NoGateSkipped, Processor!Gates, Gates
  <2> QED BY <1>1, <2>2 DEF IInv, WorklistInv
<1>5. \A g \in XorGates(circuit) : \E r : FreeWith(wires, r, g)
  BY <1>1, <1>2, <1>4 DEF FreeInv, Searching
<1>6. FreeInv'
  BY <1>1, <1>5, FreeSame DEF FreeInv, Searching
<1> QED BY <1>1, <1>6 DEF ConnectedInv, RoundsInv, Searching

LEMMA TablesKeepSupportedInv ==
  ASSUME SupportedInv, GarbleNonXorGate \/ SetLabels
  PROVE  SupportedInv'
<1> SUFFICES ASSUME Supported(circuit)' PROVE ConnectedInv' /\ RoundsInv' /\ FreeInv'
  BY DEF SupportedInv
<1>1. /\ pc = "nonxor" /\ pc' \in {"nonxor", "lost", "done"}
      /\ UNCHANGED <<circuit, wires>>
  BY DEF GarbleNonXorGate, SetLabels, graphVars
<1>2. FreeInv
  BY <1>1 DEF SupportedInv
<1>3. FreeInv'
  BY <1>1, <1>2, FreeSame DEF FreeInv, Searching
<1> QED BY <1>1, <1>3 DEF ConnectedInv, RoundsInv, Searching

LEMMA StutterKeepsSupportedInv ==
  ASSUME SupportedInv, UNCHANGED vars
  PROVE  SupportedInv'
<1> SUFFICES ASSUME Supported(circuit)' PROVE ConnectedInv' /\ RoundsInv' /\ FreeInv'
  BY DEF SupportedInv
<1>1. /\ UNCHANGED <<circuit, gatesIndexes, allGates, labels, round>>
      /\ UNCHANGED <<pc, wires, labelled, toBeProcessed, seedGateIt, R>>
  BY DEF vars, graphVars, processorVars
<1>2. ConnectedInv /\ RoundsInv /\ FreeInv
  BY <1>1 DEF SupportedInv
<1>3. Marked' = Marked
  BY <1>1 DEF Marked
<1>4. /\ SeedSet' = SeedSet /\ First' = First /\ Second' = Second /\ Third' = Third
      /\ \A G : OutputsOfSet(G)' = OutputsOfSet(G)
  BY <1>1, LevelsStay
<1>5. ConnectedInv'
  BY <1>1, <1>2, <1>3 DEF ConnectedInv, Searching, Processor!NoGateSkipped
<1>6. RoundsInv'
  BY <1>1, <1>2, <1>4 DEF RoundsInv
<1>7. FreeInv'
  BY <1>1, <1>2, <1>3, FreeSame DEF FreeInv, Searching
<1> QED BY <1>5, <1>6, <1>7

LEMMA NextKeepsSupportedInv ==
  ASSUME IInv, SupportedInv, [Next]_vars
  PROVE  SupportedInv'
<1>1. CASE StartSearch
  BY <1>1, StartSearchKeepsSupportedInv
<1>2. CASE SearchRound
  BY <1>2, SearchRoundKeepsSupportedInv
<1>3. CASE AbortSearch
  <2>1. pc' = "aborted" /\ circuit' = circuit
    BY <1>3 DEF AbortSearch, graphVars
  <2> QED BY <2>1 DEF SupportedInv, ConnectedInv, RoundsInv, FreeInv, Searching
<1>4. CASE ChooseR
  BY <1>4, ChooseRKeepsSupportedInv
<1>5. CASE LabelXorGate
  BY <1>5, LabelXorGateKeepsSupportedInv
<1>6. CASE MarkSubgraph
  BY <1>6, MarkSubgraphKeepsSupportedInv
<1>7. CASE NoMoreSeeds
  BY <1>7, NoMoreSeedsKeepsSupportedInv
<1>8. CASE GarbleNonXorGate \/ SetLabels
  BY <1>8, TablesKeepSupportedInv
<1>9. CASE UNCHANGED vars
  BY <1>9, StutterKeepsSupportedInv
<1> QED BY <1>1, <1>2, <1>3, <1>4, <1>5, <1>6, <1>7, <1>8, <1>9 DEF Next

LEMMA SupportedInvAlways == Spec => [](IInv /\ SupportedInv)
<1>1. IInv /\ SupportedInv /\ [Next]_vars => (IInv /\ SupportedInv)'
  BY NextKeepsIInv, NextKeepsSupportedInv
<1> QED BY <1>1, InitIInv, InitSupportedInv, PTL DEF Spec

(***************************************************************************)
(* For every circuit that is supported, in both builds, the four rounds     *)
(* find what the recursive search finds: all the gates that share a wire    *)
(* with the seed, directly or not (xor_graph.cpp:215-266).                  *)
(***************************************************************************)
THEOREM SearchIsRecursive == Spec => []SupportedSearchIsRecursive
<1>1. IInv /\ SupportedInv => SupportedSearchIsRecursive
  <2> SUFFICES ASSUME IInv, SupportedInv, Supported(circuit), pc = "xor"
               PROVE  ToSet(allGates) = ConnectedGates(circuit, Processor!GetNextSeedGate)
    BY DEF SupportedSearchIsRecursive, FindAllGatesIsRecursive, SubgraphFound
  <2>1. ConnectedInv /\ RoundsInv /\ seedGateIt # NbGates
    BY DEF SupportedInv, IInv, SearchInv
  <2>2. Processor!GetNextSeedGate = seedGateIt
    BY <2>1, SeedOfSet DEF Searching
  <2> QED BY <2>1, <2>2 DEF RoundsInv, SeedSet
<1> QED BY <1>1, SupportedInvAlways, PTL

(***************************************************************************)
(* For every such circuit the labels of a subgraph are final once it is     *)
(* marked: later subgraphs have no wire in common with it                   *)
(* (garble.cpp:184-262).                                                    *)
(***************************************************************************)
THEOREM ProcessedLabelsAreFinal == Spec => ProcessedWiresKeepLabels
<1> DEFINE Keeps == \/ \A g \in Processed : \A w \in WiresOf(circuit, g) : wires'[w] = wires[w]
                    \/ ~Supported(circuit)
<1>1. IInv /\ SupportedInv /\ [Next]_vars => [Keeps]_vars
  <2> SUFFICES ASSUME IInv, SupportedInv, Supported(circuit), Next
               PROVE  \A g \in Processed : \A w \in WiresOf(circuit, g) : wires'[w] = wires[w]
    OBVIOUS
  <2>1. CASE LabelXorGate
    <3>1. pc = "xor"
      BY <2>1 DEF LabelXorGate
    <3>2. Processed \subseteq Marked
      BY <3>1 DEF Processed, IInv, WorklistInv
    <3> QED BY <2>1, <3>2, LabelKeepsMarked
  <2>2. CASE ~LabelXorGate
    <3>1. wires' = wires
      BY <2>2 DEF Next, StartSearch, SearchRound, AbortSearch, ChooseR, MarkSubgraph,
                  NoMoreSeeds, GarbleNonXorGate, SetLabels
    <3> QED BY <3>1
  <2> QED BY <2>1, <2>2
<1> QED BY <1>1, SupportedInvAlways, PTL DEF Spec, ProcessedWiresKeepLabels

(* No more tables than their indexes can tell apart. *)
TablesFit == \A c \in Circuits : Cardinality(NonXorGates(c)) <= MaxTables

(* The root inputs of the seed, which no gate drives. *)
LEMMA RootsAreNotDriven ==
  ASSUME IInv, ConnectedInv, Searching, seedGateIt # NbGates, Supported(circuit)
  PROVE  LET parents == GetParentAndStepParentInputsFromGate(circuit, seedGateIt)
         IN  /\ RootInputs(circuit, seedGateIt) = parents
             /\ ToSet(parents) \cap OutputsOfSet(SeedSet) = {}
             /\ Siblings(circuit, seedGateIt) \subseteq SeedSet
             /\ Reads(circuit, seedGateIt) # {0}
             /\ ParentGates(circuit, seedGateIt) = {}
<1> DEFINE s == seedGateIt
           parents == GetParentAndStepParentInputsFromGate(circuit, s)
           roots == Roots(circuit, SeedSet)
<1>1. /\ s \in XorGates(circuit) /\ SeedSet \subseteq XorGates(circuit)
      /\ Closed(circuit, SeedSet) /\ Min(SeedSet) = s
  BY SeedOfSet
<1>2. /\ roots \cap { circuit.out[h] : h \in SeedSet } = {}
      /\ s \notin roots /\ Reads(circuit, s) # {0}
  BY <1>1 DEF Supported, SeedSet
<1>3. s \in SeedSet
  BY <1>1, ConnectedIsLeast DEF SeedSet
<1>4. ASSUME NEW h \in Siblings(circuit, s)
      PROVE  h \in SeedSet /\ Reads(circuit, h) \subseteq roots
  <2>1. h \in XorGates(circuit) /\ Reads(circuit, h) \cap Reads(circuit, s) # {}
    BY <1>4 DEF Siblings
  <2>2. WiresOf(circuit, s) \cap WiresOf(circuit, h) # {}
    BY <2>1 DEF WiresOf, Reads
  <2>3. h \in SeedSet
    BY <1>1, <1>3, <2>1, <2>2 DEF Closed
  <2>4. h \in Near(circuit, SeedSet)
    BY <1>1, <2>1, <2>3 DEF Near
  <2> QED BY <2>3, <2>4 DEF Roots
<1>5. ToSet(parents) \subseteq UNION { Reads(circuit, h) : h \in Siblings(circuit, s) }
  <2>1. WellFormed(circuit)
    BY DEF IInv, TypeOK
  <2>2. ToSet(parents)
          = { circuit.in0[h] : h \in IF circuit.in0[s] # 0 THEN Siblings(circuit, s) ELSE {} }
       \cup { circuit.in1[h] : h \in IF circuit.in1[s] # 0 THEN Siblings(circuit, s) ELSE {} }
    BY <1>1, <2>1, ParentsFound
  <2>3. \A h : circuit.in0[h] \in Reads(circuit, h) /\ circuit.in1[h] \in Reads(circuit, h)
    BY DEF Reads
  <2> HIDE DEF parents, s
  <2> QED BY <2>2, <2>3
<1>6. ToSet(parents) \subseteq roots
  BY <1>4, <1>5
<1>7. RootInputs(circuit, s) = parents
  <2>1. WellFormed(circuit)
    BY DEF IInv, TypeOK
  <2> QED BY <1>1, <1>2, <1>6, <2>1, RootsFound
<1>8. ASSUME NEW label \in ToSet(parents) PROVE GetGatesFromOutput(circuit, label) = 0
  <2>1. ASSUME NEW d \in XorGates(circuit), circuit.out[d] = label PROVE FALSE
    <3>1. PICK h \in Siblings(circuit, s) : label \in Reads(circuit, h)
      BY <1>5, <1>8
    <3>2. WiresOf(circuit, h) \cap WiresOf(circuit, d) # {} /\ h \in SeedSet
      BY <1>4, <2>1, <3>1 DEF WiresOf, Reads
    <3>3. d \in SeedSet
      BY <1>1, <2>1, <3>2 DEF Closed
    <3> QED BY <1>2, <1>6, <1>8, <2>1, <3>3
  <2>2. { d \in XorGates(circuit) : circuit.out[d] = label } = {}
    BY <2>1
  <2> QED BY <2>2 DEF GetGatesFromOutput
<1>9. ParentGates(circuit, s) = {}
  BY <1>8 DEF ParentGates
<1> QED BY <1>2, <1>4, <1>6, <1>7, <1>9 DEF OutputsOfSet

LEMMA AbortsAtReserveOnly ==
  ASSUME IInv, SupportedInv, AbortSearch, Supported(circuit)
  PROVE  Len(GetParentAndStepParentInputsFromGate(circuit, seedGateIt)) >= 16
<1> DEFINE parents == GetParentAndStepParentInputsFromGate(circuit, seedGateIt)
<1>1. Searching /\ seedGateIt # NbGates
  BY NextSeed DEF AbortSearch, Searching, IInv, SearchInv
<1>2. ConnectedInv /\ RoundsInv
  BY DEF SupportedInv
<1>3. /\ RootInputs(circuit, seedGateIt) = parents
      /\ ToSet(parents) \cap OutputsOfSet(SeedSet) = {}
      /\ Siblings(circuit, seedGateIt) \subseteq SeedSet
      /\ Reads(circuit, seedGateIt) # {0}
      /\ ParentGates(circuit, seedGateIt) = {}
  BY <1>1, <1>2, RootsAreNotDriven
<1>4. /\ SeedSet \subseteq XorGates(circuit) /\ SeedSet \cap Marked = {}
      /\ Processor!GetNextSeedGate = seedGateIt
  BY <1>1, <1>2, SeedOfSet
<1>5. WellFormed(circuit) /\ labels \in Seq(Wires) /\ round \in 0 .. 4
  BY DEF IInv, TypeOK, SearchInv
<1> HIDE DEF parents
<1>6. CASE pc = "seed"
  <2>1. ~SeedAsserts(seedGateIt)
    BY <1>4, <1>6 DEF AbortSearch
  <2>2. Siblings(circuit, seedGateIt) \cap gatesIndexes = {}
    BY <1>3, <1>4, <1>6 DEF Marked
  <2>3. circuit.in0[seedGateIt] # 0 \/ circuit.in1[seedGateIt] # 0
    BY <1>3 DEF Reads
  <2>4. ~ (Len(parents) < 16)
    BY <1>3, <2>1, <2>2, <2>3 DEF SeedAsserts, parents
  <2>5. Len(parents) \in Nat
    <3>1. parents \in Seq(Wires)
      BY <1>1, <1>2, <1>5, SeedOfSet, ParentsFound DEF parents
    <3> QED BY <3>1
  <2> QED BY <2>4, <2>5 DEF parents
<1>7. CASE pc = "search"
  <2>1. round # 4 /\ ~RoundAsserts(Found)
    BY <1>7 DEF AbortSearch, AllGatesFound
  <2> DEFINE level == ToSet(Found)
  <2>2. /\ round = 0 => level = First /\ ToSet(allGates) = {}
        /\ round = 1 => level = Second
        /\ round = 2 => level = Third
        /\ round = 3 => level = {}
    <3>1. level = ToSet(Found)
      OBVIOUS
    <3> HIDE DEF level
    <3> QED BY <1>2, <1>7, <2>1, <3>1, RoundFindsLevel
  <2>3. Found \in Seq(XorGates(circuit)) /\ ToSet(OutputsOf(circuit, Found)) = OutputsOfSet(level)
    BY <1>5, RoundFinds, OutputsListed DEF Found
  <2> HIDE DEF level
  <2>4. /\ SeedSet = First \cup Second \cup Third
        /\ First \cap Second = {} /\ First \cap Third = {} /\ Second \cap Third = {}
    BY <1>1, <1>2, Levels
  <2>5. ASSUME NEW G \in SUBSET SeedSet, NEW H \in SUBSET SeedSet, G \cap H = {}
        PROVE  OutputsOfSet(G) \cap OutputsOfSet(H) = {}
    <3>1. SeedSet \subseteq Gates
      BY <1>4, XorIsGate
    <3>2. \A g, h \in Gates : circuit.out[g] = circuit.out[h] => g = h
      BY <1>5 DEF WellFormed
    <3> QED BY <2>5, <3>1, <3>2 DEF OutputsOfSet
  <2>6. OutputsOfSet(level) \cap ToSet(labels) = {}
    <3>1. CASE round = 0
      <4>1. labels = parents /\ level \subseteq SeedSet
        BY <1>2, <1>3, <1>7, <2>2, <2>4, <3>1 DEF RoundsInv
      <4> QED BY <1>3, <4>1 DEF OutputsOfSet
    <3>2. CASE round = 1
      BY <1>2, <1>7, <2>2, <2>4, <2>5, <3>2 DEF RoundsInv
    <3>3. CASE round = 2
      BY <1>2, <1>7, <2>2, <2>4, <2>5, <3>3 DEF RoundsInv
    <3>4. CASE round = 3
      BY <2>2, <3>4 DEF OutputsOfSet
    <3> QED BY <1>5, <2>1, <3>1, <3>2, <3>3, <3>4
  <2>7. round = 3 => Found = <<>>
    <3>1. ASSUME round = 3 PROVE Found = <<>>
      <4>1. ToSet(Found) = {}
        BY <2>2, <3>1 DEF level
      <4>2. Len(Found) \in Nat /\ DOMAIN Found = 1 .. Len(Found)
        BY <2>3
      <4>3. DOMAIN Found = {}
        BY <4>1 DEF ToSet
      <4>4. Len(Found) = 0
        BY <4>2, <4>3
      <4> HIDE DEF Found
      <4> QED BY <2>3, <4>4
    <3> QED BY <3>1
  <2> QED BY <2>1, <2>3, <2>6, <2>7 DEF RoundAsserts
<1> QED BY <1>6, <1>7 DEF AbortSearch

(***************************************************************************)
(* No assertion of a debug build stops it on a circuit that is supported,   *)
(* unless a gate has sixteen root inputs or more (xor_graph.cpp:212-345).   *)
(***************************************************************************)
THEOREM SupportedNeverRefused == Spec => []SupportedIsNotRefused
<1>1. Init => SupportedIsNotRefused
  BY DEF Init, SupportedIsNotRefused
<1>2. IInv /\ SupportedInv /\ SupportedIsNotRefused /\ [Next]_vars => SupportedIsNotRefused'
  <2> SUFFICES ASSUME IInv, SupportedInv, SupportedIsNotRefused, [Next]_vars, pc' = "aborted",
                      Supported(circuit)'
               PROVE  Len(GetParentAndStepParentInputsFromGate(circuit, seedGateIt))' >= 16
    BY DEF SupportedIsNotRefused
  <2>1. CASE AbortSearch
    <3>1. circuit' = circuit /\ seedGateIt' = seedGateIt
      BY <2>1 DEF AbortSearch, graphVars, processorVars
    <3> QED BY <2>1, <3>1, AbortsAtReserveOnly
  <2>2. CASE UNCHANGED vars
    <3>1. circuit' = circuit /\ seedGateIt' = seedGateIt /\ pc' = pc
      BY <2>2 DEF vars, graphVars, processorVars
    <3> QED BY <3>1 DEF SupportedIsNotRefused
  <2> QED BY <2>1, <2>2 DEF Next, StartSearch, SearchRound, ChooseR, LabelXorGate, MarkSubgraph,
                            NoMoreSeeds, GarbleNonXorGate, SetLabels
<1> QED BY <1>1, <1>2, SupportedInvAlways, PTL DEF Spec

LEMMA CircuitStays == Spec => [](circuit \in Circuits)
<1>1. Init => circuit \in Circuits
  BY DEF Init
<1>2. circuit \in Circuits /\ [Next]_vars => (circuit \in Circuits)'
  <2>1. [Next]_vars => circuit' = circuit
    BY DEF Next, vars, graphVars, StartSearch, BeginFindAllGates, SearchRound,
           GetAllOutputsFromInputs, AbortSearch, ChooseR, LabelXorGate, MarkSubgraph,
           NoMoreSeeds, GarbleNonXorGate, SetLabels
  <2> QED BY <2>1
<1> QED BY <1>1, <1>2, PTL DEF Spec

(***************************************************************************)
(* For every circuit that is supported and any random labels, in both       *)
(* builds, every gate evaluates to the label of its truth table's bit once  *)
(* Garble is done (garble.cpp:184-360), unless it has more tables than an   *)
(* index of 16 bits tells apart (justGarble.h:194).                         *)
(***************************************************************************)
THEOREM EveryGateEvaluates == TablesFit => (Spec => []GatesEvaluate)
<1> SUFFICES ASSUME TablesFit PROVE Spec => []GatesEvaluate
  OBVIOUS
<1>1. IInv /\ SupportedInv /\ circuit \in Circuits => GatesEvaluate
  <2> SUFFICES ASSUME IInv, SupportedInv, circuit \in Circuits, pc = "done", Supported(circuit),
                      NEW g \in Gates, NEW a \in {0, 1}, NEW b \in {0, 1}
               PROVE  EvalGate(g, Label(circuit.in0[g], a), Label(circuit.in1[g], b))
                        = Label(circuit.out[g], TruthBit(circuit.type[g], 2 * a + b))
    BY DEF GatesEvaluate
  <2>1. CASE g \in XorGates(circuit)
    <3>1. PICK r : FreeWith(wires, r, g)
      BY <2>1 DEF SupportedInv, FreeInv
    <3> QED BY <2>1, <3>1, FreeEvaluates
  <2>2. CASE g \notin XorGates(circuit)
    <3>1. g \in NonXorGates(circuit) /\ circuit.type[g] # XOR
      BY <2>2 DEF NonXorGates, XorGates
    <3>2. Cardinality(NonXorGates(circuit)) <= MaxTables
      BY DEF TablesFit
    <3> QED BY <3>1, <3>2, MapLeadsToTable, TableUnmasks DEF EvalGate
  <2> QED BY <2>1, <2>2
<1> QED BY <1>1, SupportedInvAlways, CircuitStays, PTL

================================================================================
