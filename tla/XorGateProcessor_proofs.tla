------------------------- MODULE XorGateProcessor_proofs ------------------------
(* Proofs about the XOR worklist, for every number of gates. *)
EXTENDS XorGateProcessor, TLAPS

(* Integers strictly between two others. *)
LEMMA StrictlyBetween ==
  ASSUME NEW a \in Int, NEW b \in Int, NEW g \in Int, a < g, g < b
  PROVE  g \in a + 1 .. b - 1
OBVIOUS

(* The vector keeps one flag per gate and the iterator stays within it. *)
THEOREM TypeCorrect == Spec => []TypeOK
<1> USE NbGatesAssumption DEF TypeOK, Gates
<1>1. Init => TypeOK
  BY DEF Init, Find
<1>2. TypeOK /\ [Next]_vars => TypeOK'
  <2> SUFFICES ASSUME TypeOK, [Next]_vars PROVE TypeOK'
    OBVIOUS
  <2>1. ASSUME NEW S \in SUBSET Gates, Process(S) PROVE TypeOK'
    <3>1. PICK first \in ScanStarts(S) : seedGateIt' \in Find(toBeProcessed', first)
      BY <2>1 DEF Process, MarkAsProcessed
    <3>2. first \in Nat
      BY DEF ScanStarts
    <3>3. seedGateIt' \in 0 .. NbGates
      BY <3>1, <3>2 DEF Find
    <3>4. toBeProcessed' \in [Gates -> {0, 1}]
      BY <2>1 DEF Process, MarkAsProcessed
    <3> QED BY <3>3, <3>4
  <2>2. CASE UNCHANGED vars
    BY <2>2 DEF vars
  <2> QED BY <2>1, <2>2 DEF Next
<1> QED BY <1>1, <1>2, PTL DEF Spec

(* Of a subgraph that meets the contract the scan starts right after the     *)
(* seed: no gate that waits is smaller than the seed.                        *)
LEMMA ScanStartsAfterSeed ==
  ASSUME TypeOK, NoGateSkipped,
         NEW S \in SUBSET Gates, Precondition(S)
  PROVE  /\ seedGateIt \in Gates
         /\ seedGateIt \in S
         /\ \A g \in S : seedGateIt <= g
         /\ ScanStarts(S) = {seedGateIt + 1}
<1> USE NbGatesAssumption DEF TypeOK, Gates
<1>1. seedGateIt \in Gates /\ seedGateIt \in S
  BY DEF Precondition, GetNextSeedGate
<1>2. \A g \in S : seedGateIt <= g
  <2> SUFFICES ASSUME NEW g \in S, g < seedGateIt PROVE FALSE
    BY <1>1
  <2> QED BY DEF Precondition, NoGateSkipped
<1>3. { m \in S : \A k \in S : m <= k } = {seedGateIt}
  <2>1. \A m \in S : (\A k \in S : m <= k) => m = seedGateIt
    <3> SUFFICES ASSUME NEW m \in S, \A k \in S : m <= k PROVE m = seedGateIt
      OBVIOUS
    <3>1. m <= seedGateIt /\ seedGateIt <= m /\ m \in Int /\ seedGateIt \in Int
      BY <1>1, <1>2
    <3> QED BY <3>1
  <2> QED BY <1>1, <1>2, <2>1
<1>4. ScanStarts(S) = {seedGateIt + 1}
  BY <1>1, <1>3 DEF ScanStarts
<1> QED BY <1>1, <1>2, <1>4

(* One call of MarkAsProcessed keeps every gate before the iterator          *)
(* processed, although the scan starts in the middle of the vector.          *)
LEMMA ProcessStep ==
  ASSUME TypeOK, NoGateSkipped,
         NEW S \in SUBSET Gates, Process(S)
  PROVE  /\ NoGateSkipped'
         /\ seedGateIt' > seedGateIt
         /\ Remaining' = Remaining \ S
<1> USE NbGatesAssumption DEF TypeOK, Gates
<1>1. /\ seedGateIt \in S
      /\ \A g \in S : seedGateIt <= g
      /\ ScanStarts(S) = {seedGateIt + 1}
  BY ScanStartsAfterSeed DEF Process
<1>2. /\ toBeProcessed' =
           [g \in Gates |-> IF g \in S THEN 0 ELSE toBeProcessed[g]]
      /\ seedGateIt' \in Find(toBeProcessed', seedGateIt + 1)
  BY <1>1 DEF Process, MarkAsProcessed
<1>3. /\ seedGateIt' \in seedGateIt + 1 .. NbGates
      /\ seedGateIt' = NbGates \/ toBeProcessed'[seedGateIt'] = 1
      /\ \A j \in seedGateIt + 1 .. seedGateIt' - 1 : toBeProcessed'[j] = 0
  BY <1>2 DEF Find
<1>4. ASSUME NEW g \in Gates, g < seedGateIt' PROVE toBeProcessed'[g] = 0
  <2>1. CASE g < seedGateIt
    BY <2>1, <1>2 DEF NoGateSkipped
  <2>2. CASE g = seedGateIt
    BY <2>2, <1>1, <1>2
  <2>3. CASE g > seedGateIt
    <3>1. seedGateIt \in Int /\ seedGateIt' \in Int /\ g \in Int
      BY <1>3
    <3>2. g \in seedGateIt + 1 .. seedGateIt' - 1
      BY <3>1, <2>3, <1>4, StrictlyBetween
    <3> QED BY <3>2, <1>3
  <2> QED BY <2>1, <2>2, <2>3
<1>5. NoGateSkipped'
  BY <1>3, <1>4 DEF NoGateSkipped
<1>6. seedGateIt' > seedGateIt
  BY <1>3
<1>7. Remaining' = Remaining \ S
  BY <1>2 DEF Remaining
<1> QED BY <1>5, <1>6, <1>7

(* No XOR gate is ever skipped by the scan of MarkAsProcessed. *)
THEOREM NoGateIsSkipped == Spec => []NoGateSkipped
<1>1. Init => NoGateSkipped
  BY NbGatesAssumption DEF Init, Find, NoGateSkipped, Gates
<1>2. TypeOK /\ NoGateSkipped /\ [Next]_vars => NoGateSkipped'
  <2> SUFFICES ASSUME TypeOK, NoGateSkipped, [Next]_vars PROVE NoGateSkipped'
    OBVIOUS
  <2>1. ASSUME NEW S \in SUBSET Gates, Process(S) PROVE NoGateSkipped'
    BY <2>1, ProcessStep
  <2>2. CASE UNCHANGED vars
    BY <2>2 DEF vars, NoGateSkipped
  <2> QED BY <2>1, <2>2 DEF Next
<1> QED BY <1>1, <1>2, TypeCorrect, PTL DEF Spec

(* The seeds of a Garble strictly increase: the assertion of MarkAsProcessed *)
(* on gates before the seed cannot fail.                                     *)
THEOREM SeedsAlwaysIncrease == Spec => SeedsIncrease
<1>1. TypeOK /\ NoGateSkipped /\ [Next]_vars => [seedGateIt' > seedGateIt]_vars
  <2> SUFFICES ASSUME TypeOK, NoGateSkipped, Next PROVE seedGateIt' > seedGateIt
    BY DEF vars
  <2> QED BY ProcessStep DEF Next
<1> QED BY <1>1, TypeCorrect, NoGateIsSkipped, PTL DEF Spec, SeedsIncrease

(* GetNextSeedGate is the first remaining gate, or -1 when none remains. *)
LEMMA SeedIsFirst ==
  ASSUME TypeOK, NoGateSkipped
  PROVE  /\ GetNextSeedGate \in Gates \cup {-1}
         /\ Worklist!IsFirst(GetNextSeedGate, Remaining)
<1> USE NbGatesAssumption DEF TypeOK, Gates, Remaining, Worklist!IsFirst
<1>1. CASE seedGateIt = NbGates
  BY <1>1 DEF NoGateSkipped, GetNextSeedGate
<1>2. CASE seedGateIt # NbGates
  BY <1>2 DEF NoGateSkipped, GetNextSeedGate
<1> QED BY <1>1, <1>2

(* The flags and the iterator implement the abstract set of remaining gates, *)
(* from which Garble takes the first one.                                    *)
THEOREM ImplementsWorklist == Spec => RefinesWorklist
<1> USE NbGatesAssumption
<1>1. Init /\ TypeOK /\ NoGateSkipped => Worklist!Init
  BY SeedIsFirst DEF Worklist!Init, Worklist!Gates, Gates, Remaining
<1>2. /\ TypeOK /\ NoGateSkipped /\ TypeOK' /\ NoGateSkipped'
      /\ [Next]_vars
      => [Worklist!Next]_(Worklist!vars)
  <2> SUFFICES ASSUME TypeOK, NoGateSkipped, TypeOK', NoGateSkipped', [Next]_vars
               PROVE  [Worklist!Next]_(Worklist!vars)
    OBVIOUS
  <2>1. ASSUME NEW S \in SUBSET Gates, Process(S) PROVE Worklist!Next
    <3>1. Remaining' = Remaining \ S
      BY <2>1, ProcessStep
    <3>2. GetNextSeedGate \in S /\ S \subseteq Remaining
      BY <2>1 DEF Process, Precondition, Remaining
    <3>3. GetNextSeedGate' \in Gates \cup {-1}
          /\ Worklist!IsFirst(GetNextSeedGate', Remaining')
      <4>1. ASSUME TypeOK', NoGateSkipped'
            PROVE  /\ GetNextSeedGate' \in Gates \cup {-1}
                   /\ Worklist!IsFirst(GetNextSeedGate', Remaining')
        <5> USE DEF TypeOK, Gates, Remaining, Worklist!IsFirst
        <5>1. CASE seedGateIt' = NbGates
          BY <4>1, <5>1 DEF NoGateSkipped, GetNextSeedGate
        <5>2. CASE seedGateIt' # NbGates
          BY <4>1, <5>2 DEF NoGateSkipped, GetNextSeedGate
        <5> QED BY <5>1, <5>2
      <4> QED BY <4>1
    <3>4. Worklist!Process(S)
      BY <3>1, <3>2, <3>3 DEF Worklist!Process, Worklist!Gates, Gates
    <3> QED BY <3>2, <3>4 DEF Worklist!Next
  <2>2. CASE UNCHANGED vars
    BY <2>2 DEF vars, Worklist!vars, Remaining, GetNextSeedGate
  <2> QED BY <2>1, <2>2 DEF Next
<1>3. Spec => [](TypeOK /\ NoGateSkipped)
  BY TypeCorrect, NoGateIsSkipped, PTL
<1> QED BY <1>1, <1>2, <1>3, PTL DEF Spec, Worklist!Spec, RefinesWorklist

================================================================================
