------------------------- MODULE ParallelEvaluate_proofs ------------------------
(***************************************************************************)
(* Threads that evaluate a ParallelGarbledCircuit do not race, for any size *)
(* of the team and any circuit whose layers are independent; and when gates *)
(* come in an order they can be evaluated in, each turn computes its gate's *)
(* output from the final values of its inputs.                              *)
(***************************************************************************)
EXTENDS ParallelEvaluate, TLAPS

(* The types, as the proof needs them. *)
Shape ==
  /\ phase \in {"inputs", "gates", "done"}
  /\ at \in [Threads -> {"turn", "store", "barrier"}]
  /\ threadLayer \in [Threads -> Nat \ {0}]
  /\ range \in [Threads -> [startGate : Nat, endGate : Nat,
                            startTableIndex : Nat, endTableIndex : Nat]]
  /\ gate \in [Threads -> Nat]

(* What CopyInputs finds: every thread before layer 1. *)
Waiting ==
  phase = "inputs" =>
    /\ at = [t \in Threads |-> "turn"]
    /\ threadLayer = [t \in Threads |-> 1]
    /\ range = [t \in Threads |-> NoRange]

(* Thread t takes every NbThreads-th gate of its layer, from the t-th on. *)
OnStride(t) == \E k \in Nat : gate[t] = range[t].startGate + t + k * NbThreads

(* Thread t has the gates of its layer, and a turn's gate is one of them. *)
InRange(starts, t) ==
  InLoop(t) =>
    /\ range[t].startGate = starts[threadLayer[t]]
    /\ range[t].endGate = starts[threadLayer[t] + 1]
    /\ OnStride(t)
    /\ at[t] = "store" => HasTurn(t)

InRanges(starts) == \A t \in Threads : InRange(starts, t)

(* The inductive invariant that no race follows from. *)
IInv(starts) ==
  LayersIndependent(starts) /\ Shape /\ Waiting /\ InRanges(starts) /\ LayersInStep

--------------------------------------------------------------------------------
(* Two threads that take every n-th gate from different ones on never meet. *)
LEMMA StridesDiffer ==
  ASSUME NEW n \in Nat \ {0}, NEW t \in 0 .. n - 1, NEW u \in 0 .. n - 1, t # u,
         NEW j \in Nat, NEW k \in Nat
  PROVE  t + j * n # u + k * n
<1>1. CASE j = k
  BY <1>1
<1>2. CASE j > k
  <2>1. PICK d \in Nat : j = k + 1 + d
    <3>1. j - k - 1 \in Nat /\ j = k + 1 + (j - k - 1)
      BY <1>2
    <3> QED BY <3>1
  <2>2. j * n = k * n + n + d * n
    BY <2>1
  <2>3. d * n \in Nat /\ k * n \in Nat
    OBVIOUS
  <2> QED BY <2>2, <2>3
<1>3. CASE k > j
  <2>1. PICK d \in Nat : k = j + 1 + d
    <3>1. k - j - 1 \in Nat /\ k = j + 1 + (k - j - 1)
      BY <1>3
    <3> QED BY <3>1
  <2>2. k * n = j * n + n + d * n
    BY <2>1
  <2>3. d * n \in Nat /\ j * n \in Nat
    OBVIOUS
  <2> QED BY <2>2, <2>3
<1> QED BY <1>1, <1>2, <1>3

--------------------------------------------------------------------------------
(* The range of a thread that goes on to layer l. *)
LEMMA RangeAfterType ==
  ASSUME NEW starts, LayersIndependent(starts), NEW l \in Nat \ {0},
         NEW last \in [startGate : Nat, endGate : Nat,
                       startTableIndex : Nat, endTableIndex : Nat]
  PROVE  RangeAfter(last, l) \in [startGate : Nat, endGate : Nat,
                                  startTableIndex : Nat, endTableIndex : Nat]
BY DEF RangeAfter, LayersIndependent

(* The range starts where the one before ended, and ends where layer l does. *)
LEMMA RangeAfterIsLayer ==
  ASSUME NEW starts, LayersIndependent(starts), NEW l \in 1 .. pgc.nbLayers - 1,
         NEW last, last.endGate = starts[l]
  PROVE  /\ RangeAfter(last, l).startGate = starts[l]
         /\ RangeAfter(last, l).endGate = starts[l + 1]
BY DEF RangeAfter, LayersIndependent

(* A thread that has just started a layer is on its stride. *)
LEMMA FirstOfStride ==
  ASSUME NbThreads \in Nat \ {0}, NEW t \in Threads, NEW s \in Nat
  PROVE  \E k \in Nat : s + t = s + t + k * NbThreads
<1>1. s + t = s + t + 0 * NbThreads
  BY DEF Threads
<1> QED BY <1>1

(* The next turn is on the stride of the one before. *)
LEMMA NextOfStride ==
  ASSUME NbThreads \in Nat \ {0}, NEW t \in Threads, NEW s \in Nat,
         NEW k \in Nat
  PROVE  s + t + k * NbThreads + NbThreads = s + t + (k + 1) * NbThreads
BY DEF Threads

(* The program starts in the invariant. *)
LEMMA InitIInv ==
  ASSUME NEW starts, Init, LayersIndependent(starts)
  PROVE  IInv(starts)
BY DEF Init, IInv, Shape, Waiting, InRanges, InRange, InLoop, LayersInStep, NoRange

--------------------------------------------------------------------------------
(* One lemma for each action: it keeps the invariant. *)
LEMMA CopyInputsKeepsIInv ==
  ASSUME NbThreads \in Nat \ {0}, NEW starts, IInv(starts), CopyInputs
  PROVE  IInv(starts)'
<1> USE DEF IInv
<1>1. LayersIndependent(starts)'
  BY DEF CopyInputs, LayersIndependent, GateAt
<1>2. /\ at = [t \in Threads |-> "turn"] /\ at' = at
      /\ threadLayer = [t \in Threads |-> 1] /\ threadLayer' = threadLayer
      /\ range = [t \in Threads |-> NoRange]
      /\ range' = [t \in Threads |-> RangeAfter(NoRange, 1)]
      /\ gate' = [t \in Threads |-> RangeAfter(NoRange, 1).startGate + t]
      /\ phase' = "gates" /\ pgc' = pgc
  BY DEF CopyInputs, Waiting
<1>3. RangeAfter(NoRange, 1) \in [startGate : Nat, endGate : Nat,
                                  startTableIndex : Nat, endTableIndex : Nat]
  BY RangeAfterType DEF NoRange
<1>4. Shape'
  BY <1>2, <1>3 DEF Shape, Threads
<1>5. ASSUME NEW t \in Threads, InLoop(t)'
      PROVE  /\ range'[t].startGate = starts[threadLayer'[t]]
             /\ range'[t].endGate = starts[threadLayer'[t] + 1]
             /\ OnStride(t)'
  <2>1. threadLayer'[t] = 1 /\ 1 \in 1 .. pgc.nbLayers - 1
    BY <1>2, <1>5 DEF InLoop, LayersIndependent
  <2>2. NoRange.endGate = starts[1]
    BY DEF NoRange, LayersIndependent
  <2>3. range'[t] = RangeAfter(NoRange, 1)
    BY <1>2
  <2>4. range'[t].startGate = starts[1] /\ range'[t].endGate = starts[1 + 1]
    BY <2>1, <2>2, <2>3, RangeAfterIsLayer
  <2>5. \E k \in Nat : gate'[t] = range'[t].startGate + t + k * NbThreads
    BY <1>2, <1>3, FirstOfStride
  <2> QED BY <2>1, <2>4, <2>5 DEF OnStride
<1>6. InRanges(starts)'
  BY <1>2, <1>5 DEF InRanges, InRange
<1>7. Waiting' /\ LayersInStep'
  BY <1>2 DEF Waiting, LayersInStep
<1> QED BY <1>1, <1>4, <1>6, <1>7

LEMMA FetchKeepsIInv ==
  ASSUME NbThreads \in Nat \ {0}, NEW starts, IInv(starts),
         NEW t \in Threads, Fetch(t)
  PROVE  IInv(starts)'
<1> USE DEF IInv
<1>1. LayersIndependent(starts)'
  BY DEF Fetch, LayersIndependent, GateAt
<1>2. Shape' /\ Waiting'
  BY DEF Fetch, InLoop, Shape, Waiting
<1>3. InRanges(starts)'
  BY DEF Fetch, Shape, InRanges, InRange, InLoop, OnStride, HasTurn
<1>4. LayersInStep'
  BY DEF Fetch, Shape, LayersInStep
<1> QED BY <1>1, <1>2, <1>3, <1>4

LEMMA StoreKeepsIInv ==
  ASSUME NbThreads \in Nat \ {0}, NEW starts, IInv(starts),
         NEW t \in Threads, Store(t)
  PROVE  IInv(starts)'
<1> USE DEF IInv
<1>1. LayersIndependent(starts)'
  BY DEF Store, LayersIndependent, GateAt
<1>2. Shape' /\ Waiting'
  BY DEF Store, NextTurn, InLoop, Shape, Waiting
<1>3. OnStride(t)'
  <2>1. InLoop(t) /\ range' = range /\ gate'[t] = gate[t] + NbThreads
    BY DEF Store, NextTurn, Shape
  <2>2. PICK k \in Nat : gate[t] = range[t].startGate + t + k * NbThreads
    BY <2>1 DEF InRanges, InRange, OnStride
  <2>3. range[t].startGate \in Nat
    BY DEF Shape
  <2>4. gate'[t] = range[t].startGate + t + (k + 1) * NbThreads
    BY <2>1, <2>2, <2>3, NextOfStride
  <2>5. \E j \in Nat : gate'[t] = range[t].startGate + t + j * NbThreads
    BY <2>4, k + 1 \in Nat
  <2> QED BY <2>1, <2>5 DEF OnStride
<1>4. InRange(starts, t)'
  BY <1>3 DEF Store, Shape, InRanges, InRange, InLoop
<1>5. ASSUME NEW u \in Threads \ {t}
      PROVE  InRange(starts, u)'
  BY DEF Store, Shape, InRanges, InRange, InLoop, OnStride, HasTurn
<1>6. LayersInStep'
  BY DEF Store, Shape, LayersInStep
<1> QED BY <1>1, <1>2, <1>4, <1>5, <1>6 DEF InRanges

LEMMA ReachBarrierKeepsIInv ==
  ASSUME NbThreads \in Nat \ {0}, NEW starts, IInv(starts),
         NEW t \in Threads, ReachBarrier(t)
  PROVE  IInv(starts)'
<1> USE DEF IInv
<1>1. LayersIndependent(starts)'
  BY DEF ReachBarrier, LayersIndependent, GateAt
<1>2. Shape' /\ Waiting'
  BY DEF ReachBarrier, InLoop, Shape, Waiting
<1>3. InRanges(starts)'
  BY DEF ReachBarrier, Shape, InRanges, InRange, InLoop, OnStride, HasTurn
<1>4. LayersInStep'
  BY DEF ReachBarrier, Shape, LayersInStep
<1> QED BY <1>1, <1>2, <1>3, <1>4

LEMMA LeaveBarrierKeepsIInv ==
  ASSUME NbThreads \in Nat \ {0}, NEW starts, IInv(starts),
         NEW t \in Threads, LeaveBarrier(t)
  PROVE  IInv(starts)'
<1> USE DEF IInv
<1> DEFINE l == threadLayer[t]
           next == RangeAfter(range[t], l + 1)
<1>1. LayersIndependent(starts)'
  BY DEF LeaveBarrier, LayersIndependent, GateAt
<1>2. /\ InLoop(t) /\ l \in Nat \ {0} /\ l < pgc.nbLayers
      /\ phase' = phase /\ pgc' = pgc
      /\ at' = [at EXCEPT ![t] = "turn"]
      /\ threadLayer' = [threadLayer EXCEPT ![t] = l + 1]
      /\ range' = [range EXCEPT ![t] = next]
      /\ gate' = [gate EXCEPT ![t] = next.startGate + t]
  <2>1. range'[t] = RangeAfter(range[t], l + 1)
    BY DEF LeaveBarrier, Shape
  <2> QED BY <2>1 DEF LeaveBarrier, Shape, InLoop
<1>3. next \in [startGate : Nat, endGate : Nat,
               startTableIndex : Nat, endTableIndex : Nat]
  BY <1>2, RangeAfterType DEF Shape
<1>4. Shape' /\ Waiting'
  <2> HIDE DEF next
  <2>1. next.startGate \in Nat /\ t \in Nat
    BY <1>3 DEF Threads
  <2>2. next.startGate + t \in Nat /\ l + 1 \in Nat \ {0}
    BY <1>2, <2>1
  <2>3. gate' \in [Threads -> Nat] /\ threadLayer' \in [Threads -> Nat \ {0}]
    BY <1>2, <2>2 DEF Shape
  <2> QED BY <1>2, <1>3, <2>3 DEF Shape, Waiting, InLoop
<1>5. InRange(starts, t)'
  <2>1. SUFFICES ASSUME InLoop(t)'
                 PROVE  /\ range'[t].startGate = starts[threadLayer'[t]]
                        /\ range'[t].endGate = starts[threadLayer'[t] + 1]
                        /\ OnStride(t)' /\ at'[t] = "turn"
    BY DEF InRange
  <2>2. /\ threadLayer'[t] = l + 1 /\ at'[t] = "turn"
        /\ range'[t] = next /\ gate'[t] = next.startGate + t
    BY <1>2 DEF Shape
  <2>3. l + 1 \in 1 .. pgc.nbLayers - 1
    BY <1>2, <2>1, <2>2 DEF InLoop, LayersIndependent
  <2>4. range[t].endGate = starts[l + 1]
    BY <1>2 DEF InRanges, InRange
  <2>5. next.startGate = starts[l + 1] /\ next.endGate = starts[l + 1 + 1]
    BY <2>3, <2>4, RangeAfterIsLayer
  <2>6. \E k \in Nat : next.startGate + t = next.startGate + t + k * NbThreads
    <3> HIDE DEF next
    <3> QED BY <1>3, FirstOfStride
  <2> HIDE DEF next
  <2> QED BY <2>2, <2>5, <2>6 DEF OnStride
<1>6. ASSUME NEW u \in Threads \ {t}
      PROVE  InRange(starts, u)'
  <2> HIDE DEF next
  <2> QED BY <1>2 DEF Shape, InRanges, InRange, InLoop, OnStride, HasTurn
<1>7. LayersInStep'
  <2>1. phase = "gates"
    BY <1>2 DEF InLoop
  <2>2. \A u \in Threads \ {t} :
          threadLayer[u] = l + 1 \/ (threadLayer[u] = l /\ at[u] = "barrier")
    BY <2>1 DEF LeaveBarrier, AllReached, LayersInStep, Shape
  <2>3. \A u, v \in Threads : threadLayer'[u] > threadLayer'[v] =>
          threadLayer'[u] = threadLayer'[v] + 1 /\ at'[v] = "barrier"
    BY <1>2, <2>2 DEF Shape
  <2> QED BY <2>3 DEF LayersInStep
<1> QED BY <1>1, <1>4, <1>5, <1>6, <1>7 DEF InRanges

LEMMA CopyOutputsKeepsIInv ==
  ASSUME NEW starts, IInv(starts), CopyOutputs
  PROVE  IInv(starts)'
<1>1. LayersIndependent(starts)'
  BY DEF IInv, CopyOutputs, LayersIndependent, GateAt
<1>2. Shape' /\ Waiting' /\ InRanges(starts)' /\ LayersInStep'
  BY DEF IInv, CopyOutputs, teamVars, Shape, Waiting, InRanges, InRange, InLoop, LayersInStep
<1> QED BY <1>1, <1>2 DEF IInv

(* A step that changes nothing keeps it too. *)
LEMMA StutteringKeepsIInv ==
  ASSUME NEW starts, IInv(starts), UNCHANGED vars
  PROVE  IInv(starts)'
<1>1. LayersIndependent(starts)'
  BY DEF IInv, vars, LayersIndependent, GateAt
<1>2. Shape' /\ Waiting' /\ LayersInStep'
  BY DEF IInv, vars, teamVars, Shape, Waiting, LayersInStep
<1>3. InRanges(starts)'
  BY DEF IInv, vars, teamVars, InRanges, InRange, InLoop, OnStride, HasTurn
<1> QED BY <1>1, <1>2, <1>3 DEF IInv

(* Every step of the program keeps the invariant. *)
LEMMA NextKeepsIInv ==
  ASSUME NbThreads \in Nat \ {0}, NEW starts, IInv(starts), [Next]_vars
  PROVE  IInv(starts)'
<1>1. CASE CopyInputs
  BY <1>1, CopyInputsKeepsIInv
<1>2. ASSUME NEW t \in Threads, ThreadNext(t)
      PROVE  IInv(starts)'
  BY <1>2, FetchKeepsIInv, StoreKeepsIInv, ReachBarrierKeepsIInv,
     LeaveBarrierKeepsIInv DEF ThreadNext
<1>3. CASE CopyOutputs
  BY <1>3, CopyOutputsKeepsIInv
<1>4. CASE UNCHANGED vars
  BY <1>4, StutteringKeepsIInv
<1> QED BY <1>1, <1>2, <1>3, <1>4 DEF Next

(***************************************************************************)
(* Two threads in a turn at one time are in the same layer, as no thread is *)
(* ahead of one that is not at the barrier.  Their strides give them        *)
(* different gates of it, and gates of a layer share no wire that is        *)
(* written.                                                                 *)
(***************************************************************************)
LEMMA IInvNoDataRace ==
  ASSUME NbThreads \in Nat \ {0}, NEW starts, IInv(starts)
  PROVE  NoDataRace
<1> SUFFICES ASSUME NEW t \in Threads, NEW u \in Threads,
                    t # u, InTurn(t), InTurn(u)
             PROVE  GateOf(t).out \notin {GateOf(u).in0, GateOf(u).in1, GateOf(u).out}
  BY DEF NoDataRace
<1> DEFINE l == threadLayer[t]
<1>1. InLoop(t) /\ InLoop(u) /\ HasTurn(t) /\ HasTurn(u)
  BY DEF InTurn, IInv, InRanges, InRange
<1>2. threadLayer[u] = l
  BY <1>1 DEF IInv, Shape, LayersInStep, InTurn, InLoop
<1>3. l \in 1 .. pgc.nbLayers - 1 /\ starts[l] \in Nat /\ starts[l + 1] \in Nat
  BY <1>1 DEF IInv, LayersIndependent, Shape, InLoop
<1>4. PICK j \in Nat : gate[t] = starts[l] + t + j * NbThreads
  BY <1>1 DEF IInv, InRanges, InRange, OnStride
<1>5. PICK k \in Nat : gate[u] = starts[l] + u + k * NbThreads
  BY <1>1, <1>2 DEF IInv, InRanges, InRange, OnStride
<1>6. t \in Nat /\ u \in Nat /\ j * NbThreads \in Nat /\ k * NbThreads \in Nat
  BY DEF Threads
<1>7. gate[t] # gate[u]
  <2>1. t + j * NbThreads # u + k * NbThreads
    BY StridesDiffer DEF Threads
  <2> QED BY <1>3, <1>4, <1>5, <1>6, <2>1
<1>8. gate[t] \in starts[l] .. starts[l + 1] - 1
  <2>1. gate[t] < starts[l + 1]
    BY <1>1 DEF HasTurn, IInv, InRanges, InRange
  <2> QED BY <1>3, <1>4, <1>6, <2>1
<1>9. gate[u] \in starts[l] .. starts[l + 1] - 1
  <2>1. gate[u] < starts[l + 1]
    BY <1>1, <1>2 DEF HasTurn, IInv, InRanges, InRange
  <2> QED BY <1>3, <1>5, <1>6, <2>1
<1> QED BY <1>3, <1>7, <1>8, <1>9 DEF IInv, LayersIndependent, GateOf

--------------------------------------------------------------------------------
(***************************************************************************)
(* What the turns compute.  Beyond independent layers this asks that gates  *)
(* come in an order they can be evaluated in: the wires of a gate exist, no *)
(* other gate writes its output, and what it reads is an input or written   *)
(* by a gate of an earlier layer.                                           *)
(***************************************************************************)
GatesOf(starts, l) == starts[l] .. starts[l + 1] - 1

LayersOfGates == 1 .. pgc.nbLayers - 1

Readable(starts, l, w) ==
  \/ w \in 0 .. pgc.nbInputs - 1
  \/ \E m \in 1 .. l - 1 : \E p \in GatesOf(starts, m) : w = GateAt(p).out

Evaluable(starts) ==
  /\ pgc.nbInputs \in Nat /\ pgc.nbWires \in Nat /\ pgc.nbInputs <= pgc.nbWires
  /\ \A l \in LayersOfGates : \A n \in GatesOf(starts, l) :
       /\ GateAt(n).out \in pgc.nbInputs .. pgc.nbWires - 1
       /\ Readable(starts, l, GateAt(n).in0) /\ Readable(starts, l, GateAt(n).in1)
  /\ \A l, m \in LayersOfGates : \A n \in GatesOf(starts, l), p \in GatesOf(starts, m) :
       GateAt(n).out = GateAt(p).out => l = m /\ n = p

(* The first tables of the layers, as the counts have them. *)
TablesCounted(tables) ==
  /\ tables[1] = 0
  /\ \A l \in LayersOfGates : tables[l + 1] = tables[l] + pgc.layerNonXorCounts[l]

(* The thread that gate n of layer l is dealt to, and whether it has done it. *)
DealtTo(starts, l, n, t) == \E k \in Nat : n = starts[l] + t + k * NbThreads

TurnIsOver(l, n, t) == threadLayer[t] > l \/ (threadLayer[t] = l /\ gate[t] > n)

Written(starts, l, n) == \E t \in Threads : DealtTo(starts, l, n, t) /\ TurnIsOver(l, n, t)

HasValue(w) == wires[w] # NoValue

(* A thread has the tables of its layer. *)
AtTables(tables) ==
  \A t \in Threads : InLoop(t) =>
    /\ range[t].startTableIndex = tables[threadLayer[t]]
    /\ range[t].endTableIndex = tables[threadLayer[t] + 1]

(* The variables are arrays; the outputs are read at the end. *)
Arrays ==
  /\ fetched = [t \in Threads |-> fetched[t]]
  /\ phase # "inputs" => wires = [w \in 0 .. pgc.nbWires - 1 |-> wires[w]]
  /\ phase # "done" => outputsMap = <<>>

InputsStay == phase # "inputs" => \A w \in 0 .. pgc.nbInputs - 1 : wires[w] = InputValue(w)

(* The outputs with a value are those of the turns that are over. *)
OutputsWritten(starts) ==
  phase # "inputs" =>
    \A l \in LayersOfGates : \A n \in GatesOf(starts, l) :
      HasValue(GateAt(n).out) <=> Written(starts, l, n)

(* What a turn has computed is still what its inputs give. *)
TurnsComputed ==
  \A t \in Threads : InLoop(t) =>
    /\ at[t] = "store" => /\ fetched[t] = Computed(t)
                          /\ HasValue(GateOf(t).in0) /\ HasValue(GateOf(t).in1)
    /\ at[t] = "barrier" => ~HasTurn(t)

(* The inductive invariant that the values follow from. *)
ValuesInv(starts, tables) ==
  /\ IInv(starts) /\ Evaluable(starts) /\ TablesCounted(tables)
  /\ AtTables(tables) /\ Arrays /\ InputsStay /\ OutputsWritten(starts) /\ TurnsComputed

(* A label that was obtained in some way is not one that was not written. *)
LEMMA ValuesAreValues ==
  /\ \A w : InputValue(w) # NoValue
  /\ \A A, B : XorValue(A, B) # NoValue
  /\ \A owner, A, B : TableValue(owner, A, B) # NoValue
BY DEF InputValue, XorValue, TableValue, NoValue

LEMMA ComputedIsValue ==
  ASSUME NEW t
  PROVE  Computed(t) # NoValue
BY ValuesAreValues DEF Computed

(* Every gate of a layer is dealt to one thread. *)
LEMMA DealtToOne ==
  ASSUME NbThreads \in Nat \ {0}, NEW starts, LayersIndependent(starts),
         NEW l \in LayersOfGates, NEW n \in GatesOf(starts, l)
  PROVE  /\ \E t \in Threads : DealtTo(starts, l, n, t)
         /\ \A t, u \in Threads :
              DealtTo(starts, l, n, t) /\ DealtTo(starts, l, n, u) => t = u
<1> DEFINE s == starts[l]
           N == NbThreads
<1>1. s \in Nat /\ n \in Int /\ n >= s /\ N \in Nat \ {0} /\ Threads = 0 .. N - 1
  BY DEF LayersIndependent, GatesOf, LayersOfGates, Threads
<1>2. \A t : DealtTo(starts, l, n, t) <=> \E k \in Nat : n = s + t + k * N
  BY DEF DealtTo
<1> HIDE DEF s, N
<1>3. \E t \in 0 .. N - 1 : \E k \in Nat : n = s + t + k * N
  <2> DEFINE d == n - s
             t == d % N
             k == d \div N
  <2>1. d \in Nat /\ n = s + d
    BY <1>1
  <2>2. t \in 0 .. N - 1 /\ k \in Nat /\ d = t + k * N
    <3> HIDE DEF d
    <3> QED BY <1>1, <2>1
  <2>3. n = s + t + k * N
    <3>1. k * N \in Int
      BY <1>1, <2>2
    <3> HIDE DEF d, t, k
    <3> QED BY <1>1, <2>1, <2>2, <3>1
  <2> HIDE DEF t, k
  <2> QED BY <2>2, <2>3
<1>4. ASSUME NEW t \in 0 .. N - 1, NEW u \in 0 .. N - 1, NEW j \in Nat, NEW k \in Nat,
             n = s + t + j * N, n = s + u + k * N
      PROVE  t = u
  <2>1. j * N \in Int /\ k * N \in Int
    BY <1>1
  <2>2. t + j * N = u + k * N
    BY <1>1, <1>4, <2>1
  <2> QED BY <1>1, <2>2, StridesDiffer
<1>5. \E t \in Threads : DealtTo(starts, l, n, t)
  <2>1. PICK t \in 0 .. N - 1 : \E k \in Nat : n = s + t + k * N
    BY <1>3
  <2> QED BY <1>1, <1>2, <2>1
<1>6. ASSUME NEW t \in Threads, NEW u \in Threads,
             DealtTo(starts, l, n, t), DealtTo(starts, l, n, u)
      PROVE  t = u
  <2>1. PICK j \in Nat : n = s + t + j * N
    BY <1>2, <1>6
  <2>2. PICK k \in Nat : n = s + u + k * N
    BY <1>2, <1>6
  <2> QED BY <1>1, <1>4, <2>1, <2>2
<1> QED BY <1>5, <1>6
--------------------------------------------------------------------------------
(* The gate of a turn is one of its thread's layer, dealt to the thread. *)
LEMMA TurnIsOfGate ==
  ASSUME NbThreads \in Nat \ {0}, NEW starts, IInv(starts), NEW t \in Threads,
         InLoop(t), HasTurn(t)
  PROVE  /\ threadLayer[t] \in LayersOfGates /\ gate[t] \in GatesOf(starts, threadLayer[t])
         /\ DealtTo(starts, threadLayer[t], gate[t], t)
<1> DEFINE l == threadLayer[t]
<1>1. l \in 1 .. pgc.nbLayers - 1 /\ starts[l] \in Nat /\ starts[l + 1] \in Nat
  BY DEF IInv, LayersIndependent, Shape, InLoop
<1>2. range[t].startGate = starts[l] /\ range[t].endGate = starts[l + 1] /\ OnStride(t)
  BY DEF IInv, InRanges, InRange
<1>3. PICK k \in Nat : gate[t] = starts[l] + t + k * NbThreads
  BY <1>2 DEF OnStride
<1>4. t \in Nat /\ k * NbThreads \in Nat
  BY DEF Threads
<1>5. gate[t] \in Int /\ gate[t] >= starts[l]
  BY <1>1, <1>3, <1>4
<1>6. gate[t] < starts[l + 1]
  BY <1>2 DEF HasTurn
<1>7. gate[t] \in GatesOf(starts, l)
  BY <1>1, <1>5, <1>6 DEF GatesOf
<1> QED BY <1>1, <1>3, <1>7 DEF LayersOfGates, DealtTo

(* A gate of a layer before that of some thread is over: the thread it was    *)
(* dealt to has gone on, or is at the barrier without a turn left.            *)
LEMMA EarlierIsOver ==
  ASSUME NbThreads \in Nat \ {0}, NEW starts, IInv(starts), TurnsComputed,
         NEW t \in Threads, phase = "gates", threadLayer[t] <= pgc.nbLayers,
         NEW m \in LayersOfGates, m < threadLayer[t], NEW p \in GatesOf(starts, m)
  PROVE  Written(starts, m, p)
<1>1. PICK u \in Threads : DealtTo(starts, m, p, u)
  BY DealtToOne DEF IInv
<1>2. threadLayer[u] \in Nat /\ threadLayer[t] \in Nat /\ m \in Nat /\ pgc.nbLayers \in Nat
  BY DEF IInv, Shape, LayersOfGates, LayersIndependent
<1>3. CASE threadLayer[u] > m
  BY <1>1, <1>3 DEF Written, TurnIsOver
<1>4. CASE threadLayer[u] <= m
  <2>1. threadLayer[t] > threadLayer[u]
    BY <1>2, <1>4
  <2>2. threadLayer[t] = threadLayer[u] + 1 /\ at[u] = "barrier"
    BY <2>1 DEF IInv, LayersInStep
  <2>3. threadLayer[u] = m
    BY <1>2, <1>4, <2>2
  <2>4. InLoop(u)
    BY <1>2, <2>3 DEF InLoop, LayersOfGates
  <2>5. ~ HasTurn(u) /\ range[u].endGate = starts[m + 1]
    BY <2>2, <2>3, <2>4 DEF TurnsComputed, IInv, InRanges, InRange
  <2>6. gate[u] > p
    <3>1. gate[u] \in Nat /\ starts[m] \in Nat /\ starts[m + 1] \in Nat
      BY DEF IInv, Shape, LayersIndependent, LayersOfGates
    <3>2. p \in starts[m] .. starts[m + 1] - 1
      BY DEF GatesOf
    <3> QED BY <2>5, <3>1, <3>2 DEF HasTurn
  <2> QED BY <1>1, <2>3, <2>6 DEF Written, TurnIsOver
<1> QED BY <1>2, <1>3, <1>4

(* So what a gate reads has a value when its turn begins. *)
LEMMA ReadsHaveValues ==
  ASSUME NbThreads \in Nat \ {0}, NEW starts, NEW tables, ValuesInv(starts, tables),
         NEW t \in Threads, InLoop(t), HasTurn(t)
  PROVE  \A w \in {GateOf(t).in0, GateOf(t).in1} :
           w \in 0 .. pgc.nbWires - 1 /\ HasValue(w)
<1> DEFINE l == threadLayer[t]
           n == gate[t]
<1>1. l \in LayersOfGates /\ n \in GatesOf(starts, l) /\ phase = "gates"
  BY TurnIsOfGate DEF ValuesInv, InLoop
<1>2. Readable(starts, l, GateOf(t).in0) /\ Readable(starts, l, GateOf(t).in1)
  BY <1>1 DEF ValuesInv, Evaluable, GateOf
<1>3. pgc.nbInputs \in Nat /\ pgc.nbWires \in Nat /\ pgc.nbInputs <= pgc.nbWires
  BY DEF ValuesInv, Evaluable
<1>4. ASSUME NEW w, Readable(starts, l, w)
      PROVE  w \in 0 .. pgc.nbWires - 1 /\ HasValue(w)
  <2>1. CASE w \in 0 .. pgc.nbInputs - 1
    <3>1. wires[w] = InputValue(w)
      BY <1>1, <2>1 DEF ValuesInv, InputsStay
    <3> QED BY <1>3, <2>1, <3>1, ValuesAreValues DEF HasValue
  <2>2. ASSUME NEW m \in 1 .. l - 1, NEW p \in GatesOf(starts, m), w = GateAt(p).out
        PROVE  w \in 0 .. pgc.nbWires - 1 /\ HasValue(w)
    <3>1. m \in LayersOfGates /\ m < l /\ l <= pgc.nbLayers
      <4>1. l \in 1 .. pgc.nbLayers - 1 /\ pgc.nbLayers \in Nat
        BY <1>1 DEF LayersOfGates, ValuesInv, IInv, LayersIndependent
      <4> HIDE DEF l
      <4> QED BY <4>1, <2>2 DEF LayersOfGates
    <3>2. Written(starts, m, p)
      BY <1>1, <2>2, <3>1, EarlierIsOver DEF ValuesInv
    <3>3. w \in pgc.nbInputs .. pgc.nbWires - 1
      BY <2>2, <3>1 DEF ValuesInv, Evaluable
    <3>4. HasValue(w)
      BY <1>1, <2>2, <3>1, <3>2 DEF ValuesInv, OutputsWritten
    <3> QED BY <1>3, <3>3, <3>4
  <2> QED BY <1>4, <2>1, <2>2 DEF Readable
<1> QED BY <1>2, <1>4

(* Tables run on from layer to layer as gates do. *)
LEMMA RangeAfterIsTables ==
  ASSUME NEW tables, TablesCounted(tables), NEW l \in LayersOfGates,
         NEW last, last.endTableIndex = tables[l], l < pgc.nbLayers, pgc.nbLayers \in Nat
  PROVE  /\ RangeAfter(last, l).startTableIndex = tables[l]
         /\ RangeAfter(last, l).endTableIndex = tables[l + 1]
BY DEF RangeAfter, TablesCounted, LayersOfGates

(* The program starts in the invariant. *)
LEMMA InitValues ==
  ASSUME NEW starts, NEW tables, Init, LayersIndependent(starts), Evaluable(starts),
         TablesCounted(tables)
  PROVE  ValuesInv(starts, tables)
<1>1. IInv(starts)
  BY InitIInv
<1> QED BY <1>1 DEF ValuesInv, AtTables, Arrays, InputsStay, OutputsWritten, TurnsComputed,
                    InLoop, Init

(* As long as no wire is written and no turn is over, as many are. *)
LEMMA OutputsStay ==
  ASSUME NEW starts, OutputsWritten(starts), UNCHANGED <<pgc, wires, threadLayer, gate>>,
         phase = "inputs" => phase' = "inputs"
  PROVE  OutputsWritten(starts)'
<1> SUFFICES ASSUME phase # "inputs", NEW l \in LayersOfGates, NEW n \in GatesOf(starts, l)
             PROVE  HasValue(GateAt(n).out)' <=> Written(starts, l, n)'
  BY DEF OutputsWritten, LayersOfGates, GatesOf
<1>1. HasValue(GateAt(n).out) <=> Written(starts, l, n)
  BY DEF OutputsWritten
<1>2. HasValue(GateAt(n).out)' <=> HasValue(GateAt(n).out)
  BY DEF HasValue, GateAt
<1>3. \A t : DealtTo(starts, l, n, t)' <=> DealtTo(starts, l, n, t)
  BY DEF DealtTo
<1>4. \A t : TurnIsOver(l, n, t)' <=> TurnIsOver(l, n, t)
  BY DEF TurnIsOver
<1>5. Written(starts, l, n)' <=> Written(starts, l, n)
  BY <1>3, <1>4 DEF Written, Threads
<1> QED BY <1>1, <1>2, <1>5

(* The ParallelGarbledCircuit stays, so what it is stays. *)
LEMMA OrderStays ==
  ASSUME NEW starts, NEW tables, Evaluable(starts), TablesCounted(tables), UNCHANGED pgc
  PROVE  Evaluable(starts)' /\ TablesCounted(tables)'
BY DEF Evaluable, TablesCounted, LayersOfGates, GatesOf, Readable, GateAt

--------------------------------------------------------------------------------
(* One lemma for each action: it keeps what is said of the values. *)
LEMMA CopyInputsKeepsValues ==
  ASSUME NbThreads \in Nat \ {0}, NEW starts, NEW tables, ValuesInv(starts, tables),
         CopyInputs
  PROVE  ValuesInv(starts, tables)'
<1>1. IInv(starts)' /\ Evaluable(starts)' /\ TablesCounted(tables)'
  BY CopyInputsKeepsIInv, OrderStays DEF ValuesInv, CopyInputs
<1>2. /\ threadLayer = [t \in Threads |-> 1] /\ threadLayer' = threadLayer
      /\ at = [t \in Threads |-> "turn"] /\ at' = at
      /\ range' = [t \in Threads |-> RangeAfter(NoRange, 1)]
      /\ gate' = [t \in Threads |-> RangeAfter(NoRange, 1).startGate + t]
      /\ phase' = "gates" /\ pgc' = pgc /\ fetched' = fetched /\ outputsMap' = outputsMap
      /\ wires' = [w \in 0 .. pgc.nbWires - 1 |->
                     IF w < pgc.nbInputs THEN InputValue(w) ELSE NoValue]
      /\ pgc.nbLayers \in Nat
  BY DEF CopyInputs, ValuesInv, IInv, Waiting, LayersIndependent
<1>3. AtTables(tables)'
  <2> SUFFICES ASSUME NEW t \in Threads, InLoop(t)'
               PROVE  /\ range'[t].startTableIndex = tables[threadLayer'[t]]
                      /\ range'[t].endTableIndex = tables[threadLayer'[t] + 1]
    BY DEF AtTables
  <2>1. threadLayer'[t] = 1 /\ 1 \in LayersOfGates /\ 1 < pgc.nbLayers
    BY <1>2 DEF InLoop, LayersOfGates
  <2>2. NoRange.endTableIndex = tables[1]
    BY DEF NoRange, ValuesInv, TablesCounted
  <2>3. /\ RangeAfter(NoRange, 1).startTableIndex = tables[1]
        /\ RangeAfter(NoRange, 1).endTableIndex = tables[1 + 1]
    BY <1>2, <2>1, <2>2, RangeAfterIsTables DEF ValuesInv
  <2> QED BY <1>2, <2>1, <2>3
<1>4. Arrays'
  BY <1>2 DEF ValuesInv, Arrays, CopyInputs
<1>5. pgc.nbInputs \in Nat /\ pgc.nbWires \in Nat /\ pgc.nbInputs <= pgc.nbWires
  BY DEF ValuesInv, Evaluable
<1>6. InputsStay'
  BY <1>2, <1>5 DEF InputsStay
<1>7. OutputsWritten(starts)'
  <2> SUFFICES ASSUME NEW l \in LayersOfGates', NEW n \in GatesOf(starts, l)
               PROVE  ~ HasValue(GateAt(n).out)' /\ ~ Written(starts, l, n)'
    BY DEF OutputsWritten, GatesOf
  <2>1. l \in LayersOfGates /\ l \in Int /\ l >= 1
    BY <1>2 DEF LayersOfGates
  <2>2. GateAt(n).out \in pgc.nbInputs .. pgc.nbWires - 1 /\ GateAt(n)' = GateAt(n)
    BY <1>2, <2>1 DEF ValuesInv, Evaluable, GateAt
  <2>3. ~ HasValue(GateAt(n).out)'
    <3> DEFINE w == GateAt(n).out
    <3>1. w \in 0 .. pgc.nbWires - 1 /\ ~ (w < pgc.nbInputs)
      <4> HIDE DEF w
      <4> QED BY <1>5, <2>2 DEF w
    <3>2. wires'[w] = NoValue
      <4> HIDE DEF w
      <4> QED BY <1>2, <3>1
    <3> QED BY <2>2, <3>2 DEF HasValue
  <2>4. ASSUME NEW t \in Threads, DealtTo(starts, l, n, t)', TurnIsOver(l, n, t)'
        PROVE  FALSE
    <3>1. threadLayer'[t] = 1
      BY <1>2
    <3>2. l = 1 /\ gate'[t] > n
      BY <2>1, <2>4, <3>1 DEF TurnIsOver
    <3>3. PICK k \in Nat : n = starts[1] + t + k * NbThreads
      BY <2>4, <3>2 DEF DealtTo
    <3>4. t \in Nat /\ k * NbThreads \in Nat /\ starts[1] = 0 /\ starts[1] \in Nat
      BY DEF Threads, ValuesInv, IInv, LayersIndependent
    <3>5. RangeAfter(NoRange, 1).startGate = 0
      <4>1. 1 < pgc.nbLayers
        BY <1>2, <2>1, <3>2 DEF LayersOfGates
      <4> QED BY <1>2, <4>1 DEF RangeAfter, NoRange
    <3>6. gate'[t] = 0 + t
      BY <1>2, <3>5
    <3> QED BY <3>2, <3>3, <3>4, <3>6
  <2> QED BY <2>3, <2>4 DEF Written
<1>8. TurnsComputed'
  BY <1>2 DEF TurnsComputed
<1> QED BY <1>1, <1>3, <1>4, <1>6, <1>7, <1>8 DEF ValuesInv

LEMMA FetchKeepsValues ==
  ASSUME NbThreads \in Nat \ {0}, NEW starts, NEW tables, ValuesInv(starts, tables),
         NEW t \in Threads, Fetch(t)
  PROVE  ValuesInv(starts, tables)'
<1>1. IInv(starts)' /\ Evaluable(starts)' /\ TablesCounted(tables)'
  BY FetchKeepsIInv, OrderStays DEF ValuesInv, Fetch
<1>2. /\ InLoop(t) /\ HasTurn(t)
      /\ UNCHANGED <<pgc, phase, wires, threadLayer, range, gate, outputsMap>>
      /\ fetched' = [fetched EXCEPT ![t] = Computed(t)]
      /\ at' = [at EXCEPT ![t] = "store"]
      /\ at \in [Threads -> {"turn", "store", "barrier"}]
  BY DEF Fetch, ValuesInv, IInv, Shape
<1>3. AtTables(tables)' /\ InputsStay'
  BY <1>2 DEF ValuesInv, AtTables, InputsStay, InLoop
<1>4. Arrays'
  BY <1>2 DEF ValuesInv, Arrays
<1>5. OutputsWritten(starts)'
  BY <1>2, OutputsStay DEF ValuesInv
<1>6. ASSUME NEW u \in Threads
      PROVE  /\ Computed(u)' = Computed(u) /\ GateOf(u)' = GateOf(u)
             /\ HasValue(GateOf(u).in0)' = HasValue(GateOf(u).in0)
             /\ HasValue(GateOf(u).in1)' = HasValue(GateOf(u).in1)
             /\ HasTurn(u)' = HasTurn(u) /\ InLoop(u)' = InLoop(u)
  BY <1>2 DEF Computed, GateOf, GateAt, HasTurn, InLoop, TableIndex, HasValue
<1>7. HasValue(GateOf(t).in0) /\ HasValue(GateOf(t).in1)
  BY <1>2, ReadsHaveValues
<1>8. TurnsComputed'
  <2>1. fetched'[t] = Computed(t) /\ at'[t] = "store"
    BY <1>2 DEF ValuesInv, Arrays
  <2>2. \A u \in Threads \ {t} : fetched'[u] = fetched[u] /\ at'[u] = at[u]
    BY <1>2 DEF ValuesInv, Arrays
  <2>3. TurnsComputed
    BY DEF ValuesInv
  <2> QED BY <1>6, <1>7, <2>1, <2>2, <2>3 DEF TurnsComputed
<1> QED BY <1>1, <1>3, <1>4, <1>5, <1>8 DEF ValuesInv

(* What a store does: the output of a gate whose inputs have values gets the  *)
(* one that these give.                                                       *)
LEMMA StoreEvaluates ==
  ASSUME NbThreads \in Nat \ {0}, NEW starts, NEW tables, ValuesInv(starts, tables),
         NEW t \in Threads, Store(t)
  PROVE  LET l == threadLayer[t]
             n == gate[t]
             g == GateAt(n)
         IN  /\ l \in LayersOfGates /\ n \in GatesOf(starts, l) /\ DealtTo(starts, l, n, t)
             /\ \A w \in {g.in0, g.in1} : w \in 0 .. pgc.nbWires - 1 /\ HasValue(w)
             /\ g.out \in pgc.nbInputs .. pgc.nbWires - 1 /\ ~ HasValue(g.out)
             /\ g.out \in 0 .. pgc.nbWires - 1
             /\ wires' = [wires EXCEPT ![g.out] = Computed(t)]
<1> DEFINE l == threadLayer[t]
           n == gate[t]
           g == GateAt(n)
<1>1. InLoop(t) /\ at[t] = "store" /\ HasTurn(t)
  BY DEF Store, ValuesInv, IInv, InRanges, InRange
<1>2. l \in LayersOfGates /\ n \in GatesOf(starts, l) /\ DealtTo(starts, l, n, t)
  BY <1>1, TurnIsOfGate DEF ValuesInv
<1>3. \A w \in {g.in0, g.in1} : w \in 0 .. pgc.nbWires - 1 /\ HasValue(w)
  BY <1>1, ReadsHaveValues DEF GateOf
<1>4. g.out \in pgc.nbInputs .. pgc.nbWires - 1 /\ pgc.nbInputs \in Nat /\ pgc.nbWires \in Nat
  BY <1>2 DEF ValuesInv, Evaluable
<1>5. ~ HasValue(g.out)
  <2>1. ASSUME Written(starts, l, n) PROVE FALSE
    <3>1. PICK u \in Threads : DealtTo(starts, l, n, u) /\ TurnIsOver(l, n, u)
      BY <2>1 DEF Written
    <3>2. u = t
      BY <1>2, <3>1, DealtToOne DEF ValuesInv, IInv
    <3>3. l \in Nat /\ n \in Nat
      BY DEF ValuesInv, IInv, Shape
    <3> QED BY <3>1, <3>2, <3>3 DEF TurnIsOver
  <2>2. phase # "inputs"
    BY <1>1 DEF InLoop
  <2> HIDE DEF l, n
  <2> QED BY <1>2, <2>1, <2>2 DEF ValuesInv, OutputsWritten
<1>6. wires' = [wires EXCEPT ![g.out] = Computed(t)]
  BY <1>1 DEF Store, ValuesInv, TurnsComputed, GateOf
<1>7. g.out \in 0 .. pgc.nbWires - 1
  <2> HIDE DEF g
  <2> QED BY <1>4
<1> QED BY <1>2, <1>3, <1>4, <1>5, <1>6, <1>7

(* Between two gates of one stride lies a whole round of the team. *)
LEMMA NextOnStride ==
  ASSUME NEW N \in Nat \ {0}, NEW s \in Int, NEW j \in Nat, NEW k \in Nat,
         s + k * N < s + j * N + N
  PROVE  s + k * N <= s + j * N
<1>1. k * N \in Int /\ j * N \in Int
  OBVIOUS
<1>2. CASE k <= j
  <2>1. PICK d \in Nat : j = k + d
    <3>1. j - k \in Nat /\ j = k + (j - k)
      BY <1>2
    <3> QED BY <3>1
  <2>2. j * N = k * N + d * N /\ d * N \in Nat
    BY <2>1
  <2> QED BY <1>1, <2>2
<1>3. CASE k > j
  <2>1. PICK d \in Nat : k = j + 1 + d
    <3>1. k - j - 1 \in Nat /\ k = j + 1 + (k - j - 1)
      BY <1>3
    <3> QED BY <3>1
  <2>2. k * N = j * N + N + d * N /\ d * N \in Nat
    BY <2>1
  <2> QED BY <1>1, <2>2
<1> QED BY <1>2, <1>3

(* A store ends one turn and no other. *)
LEMMA StoreEndsOneTurn ==
  ASSUME NbThreads \in Nat \ {0}, NEW starts, NEW tables, ValuesInv(starts, tables),
         NEW t \in Threads, Store(t),
         NEW m \in LayersOfGates, NEW p \in GatesOf(starts, m)
  PROVE  Written(starts, m, p)' <=>
           Written(starts, m, p) \/ (m = threadLayer[t] /\ p = gate[t])
<1> DEFINE l == threadLayer[t]
           n == gate[t]
           s == starts[l]
<1>1. /\ l \in LayersOfGates /\ n \in GatesOf(starts, l) /\ DealtTo(starts, l, n, t)
  BY StoreEvaluates
<1>2. /\ threadLayer' = threadLayer /\ gate' = [gate EXCEPT ![t] = n + NbThreads]
      /\ threadLayer \in [Threads -> Nat \ {0}] /\ gate \in [Threads -> Nat]
  BY DEF Store, NextTurn, ValuesInv, IInv, Shape
<1>3. m \in Int /\ p \in Int /\ s \in Nat
  BY <1>1 DEF LayersOfGates, GatesOf, ValuesInv, IInv, LayersIndependent
<1>4. ASSUME NEW u \in Threads \ {t}
      PROVE  TurnIsOver(m, p, u)' <=> TurnIsOver(m, p, u)
  BY <1>2 DEF TurnIsOver
<1>5. ASSUME NEW u \in Threads
      PROVE  DealtTo(starts, m, p, u)' <=> DealtTo(starts, m, p, u)
  BY DEF DealtTo
<1>6. ASSUME DealtTo(starts, m, p, t)
      PROVE  TurnIsOver(m, p, t)' <=> TurnIsOver(m, p, t) \/ (m = l /\ p = n)
  <2>1. CASE m # l
    BY <1>2, <2>1 DEF TurnIsOver
  <2>2. CASE m = l
    <3>1. PICK k \in Nat : p = s + t + k * NbThreads
      BY <1>6, <2>2 DEF DealtTo
    <3>2. PICK j \in Nat : n = s + t + j * NbThreads
      BY <1>1 DEF DealtTo
    <3>3. s + t \in Int /\ k * NbThreads \in Int /\ j * NbThreads \in Int
      BY <1>3 DEF Threads
    <3>4. n + NbThreads > p => n >= p
      <4> HIDE DEF s
      <4>1. n + NbThreads = (s + t) + j * NbThreads + NbThreads
        BY <3>2, <3>3
      <4>2. p = (s + t) + k * NbThreads /\ n = (s + t) + j * NbThreads
        BY <3>1, <3>2, <3>3
      <4> HIDE DEF n
      <4> QED BY <3>3, <4>1, <4>2, NextOnStride
    <3>5. n \in Nat /\ gate'[t] = n + NbThreads /\ threadLayer'[t] = l /\ l \in Nat
      BY <1>2
    <3>6. gate'[t] > p <=> n > p \/ p = n
      <4> HIDE DEF n
      <4> QED BY <1>3, <3>4, <3>5
    <3> QED BY <2>2, <3>5, <3>6 DEF TurnIsOver
  <2> QED BY <2>1, <2>2
<1>7. ASSUME m = l, p = n PROVE DealtTo(starts, m, p, t)
  BY <1>1, <1>7
<1>8. Written(starts, m, p)' <=>
        \E u \in Threads : DealtTo(starts, m, p, u)' /\ TurnIsOver(m, p, u)'
  BY DEF Written, Threads
<1>9. ASSUME Written(starts, m, p)' PROVE Written(starts, m, p) \/ (m = l /\ p = n)
  <2>1. PICK u \in Threads : DealtTo(starts, m, p, u)' /\ TurnIsOver(m, p, u)'
    BY <1>8, <1>9
  <2>2. DealtTo(starts, m, p, u)
    BY <1>5, <2>1
  <2>3. TurnIsOver(m, p, u) \/ (m = l /\ p = n)
    BY <1>4, <1>6, <2>1, <2>2
  <2> QED BY <2>2, <2>3 DEF Written
<1>10. ASSUME Written(starts, m, p) PROVE Written(starts, m, p)'
  <2>1. PICK u \in Threads : DealtTo(starts, m, p, u) /\ TurnIsOver(m, p, u)
    BY <1>10 DEF Written
  <2>2. DealtTo(starts, m, p, u)' /\ TurnIsOver(m, p, u)'
    BY <1>4, <1>5, <1>6, <2>1
  <2> QED BY <1>8, <2>2
<1>11. ASSUME m = l, p = n PROVE Written(starts, m, p)'
  <2>1. DealtTo(starts, m, p, t)' /\ TurnIsOver(m, p, t)'
    BY <1>5, <1>6, <1>7, <1>11
  <2> QED BY <1>8, <2>1
<1> QED BY <1>9, <1>10, <1>11

LEMMA StoreKeepsValues ==
  ASSUME NbThreads \in Nat \ {0}, NEW starts, NEW tables, ValuesInv(starts, tables),
         NEW t \in Threads, Store(t)
  PROVE  ValuesInv(starts, tables)'
<1> DEFINE out == GateOf(t).out
<1>1. IInv(starts)' /\ Evaluable(starts)' /\ TablesCounted(tables)'
  BY StoreKeepsIInv, OrderStays DEF ValuesInv, Store
<1>2. /\ InLoop(t) /\ at[t] = "store"
      /\ UNCHANGED <<pgc, phase, threadLayer, range, fetched, outputsMap>>
      /\ at' = [at EXCEPT ![t] = "turn"] /\ gate' = [gate EXCEPT ![t] = NextTurn(t)]
      /\ at \in [Threads -> {"turn", "store", "barrier"}]
      /\ phase = "gates" /\ gate \in [Threads -> Nat]
  BY DEF Store, ValuesInv, IInv, Shape, InLoop
<1>3. /\ out \in pgc.nbInputs .. pgc.nbWires - 1 /\ out \in 0 .. pgc.nbWires - 1
      /\ wires' = [wires EXCEPT ![out] = Computed(t)]
      /\ threadLayer[t] \in LayersOfGates /\ gate[t] \in GatesOf(starts, threadLayer[t])
      /\ out = GateAt(gate[t]).out
  BY StoreEvaluates DEF GateOf
<1>4. /\ wires = [w \in 0 .. pgc.nbWires - 1 |-> wires[w]]
      /\ pgc.nbInputs \in Nat /\ pgc.nbWires \in Nat
  BY <1>2 DEF ValuesInv, Arrays, Evaluable
<1>5. wires'[out] = Computed(t) /\ \A w \in 0 .. pgc.nbWires - 1 : w # out => wires'[w] = wires[w]
  <2> HIDE DEF out
  <2> QED BY <1>3, <1>4
<1>6. AtTables(tables)'
  BY <1>2 DEF ValuesInv, AtTables, InLoop
<1>7. Arrays'
  <2>1. wires' = [w \in 0 .. pgc.nbWires - 1 |-> wires'[w]]
    <3> HIDE DEF out
    <3> QED BY <1>3, <1>4
  <2> QED BY <1>2, <2>1 DEF ValuesInv, Arrays
<1>8. InputsStay'
  <2> SUFFICES ASSUME NEW w \in 0 .. pgc.nbInputs - 1 PROVE wires'[w] = InputValue(w)
    BY <1>2 DEF InputsStay
  <2>1. w # out /\ w \in 0 .. pgc.nbWires - 1
    <3>1. pgc.nbInputs <= pgc.nbWires
      BY DEF ValuesInv, Evaluable
    <3> HIDE DEF out
    <3> QED BY <1>3, <1>4, <3>1
  <2>2. wires[w] = InputValue(w)
    BY <1>2 DEF ValuesInv, InputsStay
  <2> QED BY <1>5, <2>1, <2>2
<1>9. OutputsWritten(starts)'
  <2> SUFFICES ASSUME NEW m \in LayersOfGates, NEW p \in GatesOf(starts, m)
               PROVE  HasValue(GateAt(p).out)' <=> Written(starts, m, p)'
    BY <1>2 DEF OutputsWritten, LayersOfGates, GatesOf
  <2>1. Written(starts, m, p)' <=>
          Written(starts, m, p) \/ (m = threadLayer[t] /\ p = gate[t])
    BY StoreEndsOneTurn
  <2>2. HasValue(GateAt(p).out) <=> Written(starts, m, p)
    BY <1>2 DEF ValuesInv, OutputsWritten
  <2>3. GateAt(p)' = GateAt(p) /\ GateAt(p).out \in 0 .. pgc.nbWires - 1
    <3>1. GateAt(p)' = GateAt(p) /\ GateAt(p).out \in pgc.nbInputs .. pgc.nbWires - 1
      BY <1>2 DEF GateAt, ValuesInv, Evaluable
    <3> QED BY <1>4, <3>1
  <2>4. CASE m = threadLayer[t] /\ p = gate[t]
    BY <1>3, <1>5, <2>1, <2>3, <2>4, ComputedIsValue DEF HasValue
  <2>5. CASE ~ (m = threadLayer[t] /\ p = gate[t])
    <3>1. GateAt(p).out # out
      BY <1>3, <2>5 DEF ValuesInv, Evaluable
    <3> QED BY <1>5, <2>1, <2>2, <2>3, <2>5, <3>1 DEF HasValue
  <2> QED BY <2>4, <2>5
<1>10. TurnsComputed'
  <2> SUFFICES ASSUME NEW u \in Threads, InLoop(u)'
               PROVE  /\ at'[u] = "store" => /\ fetched'[u] = Computed(u)'
                                             /\ HasValue(GateOf(u).in0)'
                                             /\ HasValue(GateOf(u).in1)'
                      /\ at'[u] = "barrier" => ~ HasTurn(u)'
    BY DEF TurnsComputed
  <2>1. CASE u = t
    BY <1>2, <2>1
  <2>2. CASE u # t
    <3>1. InLoop(u) /\ at'[u] = at[u] /\ fetched'[u] = fetched[u] /\ gate'[u] = gate[u]
      BY <1>2, <2>2 DEF InLoop
    <3>2. HasTurn(u)' = HasTurn(u) /\ GateOf(u)' = GateOf(u) /\ TableIndex(u)' = TableIndex(u)
      BY <1>2, <3>1 DEF HasTurn, GateOf, GateAt, TableIndex
    <3>3. ASSUME at[u] = "store"
          PROVE  /\ fetched'[u] = Computed(u)'
                 /\ HasValue(GateOf(u).in0)' /\ HasValue(GateOf(u).in1)'
      <4>1. InTurn(t) /\ InTurn(u)
        BY <1>2, <3>1, <3>3 DEF InTurn
      <4>2. out \notin {GateOf(u).in0, GateOf(u).in1}
        BY <2>2, <4>1, IInvNoDataRace DEF ValuesInv, NoDataRace
      <4>3. HasTurn(u)
        BY <3>1, <3>3 DEF ValuesInv, IInv, InRanges, InRange
      <4>4. GateOf(u).in0 \in 0 .. pgc.nbWires - 1 /\ GateOf(u).in1 \in 0 .. pgc.nbWires - 1
        BY <3>1, <4>3, ReadsHaveValues
      <4>5. /\ wires'[GateOf(u).in0] = wires[GateOf(u).in0]
            /\ wires'[GateOf(u).in1] = wires[GateOf(u).in1]
        BY <1>5, <4>2, <4>4
      <4>6. Computed(u)' = Computed(u)
        BY <1>2, <3>2, <4>5 DEF Computed
      <4>7. /\ fetched[u] = Computed(u) /\ HasValue(GateOf(u).in0) /\ HasValue(GateOf(u).in1)
        BY <3>1, <3>3 DEF ValuesInv, TurnsComputed
      <4> QED BY <3>1, <3>2, <4>5, <4>6, <4>7 DEF HasValue
    <3>4. at[u] = "barrier" => ~ HasTurn(u)
      BY <3>1 DEF ValuesInv, TurnsComputed
    <3> QED BY <3>1, <3>2, <3>3, <3>4
  <2> QED BY <2>1, <2>2
<1> QED BY <1>1, <1>6, <1>7, <1>8, <1>9, <1>10 DEF ValuesInv

LEMMA ReachBarrierKeepsValues ==
  ASSUME NbThreads \in Nat \ {0}, NEW starts, NEW tables, ValuesInv(starts, tables),
         NEW t \in Threads, ReachBarrier(t)
  PROVE  ValuesInv(starts, tables)'
<1>1. IInv(starts)' /\ Evaluable(starts)' /\ TablesCounted(tables)'
  BY ReachBarrierKeepsIInv, OrderStays DEF ValuesInv, ReachBarrier
<1>2. /\ ~ HasTurn(t)
      /\ UNCHANGED <<pgc, phase, wires, threadLayer, range, gate, fetched, outputsMap>>
      /\ at' = [at EXCEPT ![t] = "barrier"]
      /\ at \in [Threads -> {"turn", "store", "barrier"}]
  BY DEF ReachBarrier, ValuesInv, IInv, Shape
<1>3. AtTables(tables)' /\ InputsStay' /\ Arrays'
  BY <1>2 DEF ValuesInv, AtTables, InputsStay, InLoop, Arrays
<1>4. OutputsWritten(starts)'
  BY <1>2, OutputsStay DEF ValuesInv
<1>5. ASSUME NEW u \in Threads
      PROVE  /\ Computed(u)' = Computed(u) /\ GateOf(u)' = GateOf(u)
             /\ HasValue(GateOf(u).in0)' = HasValue(GateOf(u).in0)
             /\ HasValue(GateOf(u).in1)' = HasValue(GateOf(u).in1)
             /\ HasTurn(u)' = HasTurn(u) /\ InLoop(u)' = InLoop(u)
  BY <1>2 DEF Computed, GateOf, GateAt, HasTurn, InLoop, TableIndex, HasValue
<1>6. TurnsComputed'
  <2>1. at'[t] = "barrier" /\ \A u \in Threads \ {t} : at'[u] = at[u]
    BY <1>2
  <2>2. TurnsComputed
    BY DEF ValuesInv
  <2> QED BY <1>2, <1>5, <2>1, <2>2 DEF TurnsComputed
<1> QED BY <1>1, <1>3, <1>4, <1>6 DEF ValuesInv

(* Leaving the barrier neither ends a turn nor takes one back. *)
LEMMA LeaveBarrierEndsNoTurn ==
  ASSUME NbThreads \in Nat \ {0}, NEW starts, NEW tables, ValuesInv(starts, tables),
         NEW t \in Threads, LeaveBarrier(t),
         NEW m \in LayersOfGates, NEW p \in GatesOf(starts, m)
  PROVE  Written(starts, m, p)' <=> Written(starts, m, p)
<1> DEFINE l == threadLayer[t]
           next == RangeAfter(range[t], l + 1)
<1>1. /\ InLoop(t) /\ at[t] = "barrier" /\ l \in Nat \ {0} /\ l < pgc.nbLayers
      /\ threadLayer' = [threadLayer EXCEPT ![t] = l + 1]
      /\ gate' = [gate EXCEPT ![t] = next.startGate + t]
      /\ threadLayer \in [Threads -> Nat \ {0}] /\ gate \in [Threads -> Nat]
      /\ pgc.nbLayers \in Nat
  <2>1. range'[t] = RangeAfter(range[t], threadLayer[t] + 1)
    BY DEF LeaveBarrier, ValuesInv, IInv, Shape
  <2> QED BY <2>1 DEF LeaveBarrier, ValuesInv, IInv, Shape, InLoop, LayersIndependent
<1>2. /\ m \in Nat /\ p \in Int /\ m \in 1 .. pgc.nbLayers - 1
      /\ starts[m] \in Nat /\ starts[m + 1] \in Nat /\ p < starts[m + 1]
  <2>1. m \in Nat /\ m \in 1 .. pgc.nbLayers - 1
    BY DEF LayersOfGates
  <2>2. starts[m] \in Nat /\ starts[m + 1] \in Nat
    BY <1>1, <2>1 DEF ValuesInv, IInv, LayersIndependent
  <2> QED BY <2>1, <2>2 DEF GatesOf
<1>3. gate[t] >= starts[l + 1] /\ range[t].endGate = starts[l + 1]
  <2>1. ~ HasTurn(t)
    BY <1>1 DEF ValuesInv, TurnsComputed
  <2>2. range[t].endGate = starts[l + 1]
    BY <1>1 DEF ValuesInv, IInv, InRanges, InRange
  <2>3. starts[l + 1] \in Nat /\ gate[t] \in Nat
    BY <1>1 DEF ValuesInv, IInv, LayersIndependent
  <2> QED BY <2>1, <2>2, <2>3 DEF HasTurn
<1>4. ASSUME NEW u \in Threads \ {t}
      PROVE  TurnIsOver(m, p, u)' <=> TurnIsOver(m, p, u)
  BY <1>1 DEF TurnIsOver
<1>5. ASSUME NEW u \in Threads
      PROVE  DealtTo(starts, m, p, u)' <=> DealtTo(starts, m, p, u)
  BY DEF DealtTo
<1>6. ASSUME DealtTo(starts, m, p, t)
      PROVE  TurnIsOver(m, p, t)' <=> TurnIsOver(m, p, t)
  <2>1. threadLayer'[t] = l + 1 /\ l \in Nat
    BY <1>1
  <2>2. CASE m <= l
    <3>1. m = l => gate[t] > p
      <4> SUFFICES ASSUME m = l PROVE gate[t] > p
        OBVIOUS
      <4>1. gate[t] \in Nat /\ gate[t] >= starts[m + 1]
        BY <1>1, <1>3
      <4> QED BY <1>2, <4>1
    <3>2. TurnIsOver(m, p, t)
      <4> HIDE DEF l
      <4> QED BY <1>2, <2>1, <2>2, <3>1 DEF TurnIsOver, l
    <3>3. TurnIsOver(m, p, t)'
      <4> HIDE DEF l
      <4> QED BY <1>2, <2>1, <2>2 DEF TurnIsOver
    <3> QED BY <3>2, <3>3
  <2>3. CASE m > l
    <3>1. ~ TurnIsOver(m, p, t)
      BY <1>2, <2>1, <2>3 DEF TurnIsOver
    <3>2. m = l + 1 => ~ (gate'[t] > p)
      <4> SUFFICES ASSUME m = l + 1 PROVE ~ (gate'[t] > p)
        OBVIOUS
      <4>1. next.startGate = starts[l + 1]
        BY <1>2, <1>3, RangeAfterIsLayer DEF ValuesInv, IInv
      <4>2. gate'[t] = starts[m] + t
        <5> HIDE DEF next
        <5> QED BY <1>1, <4>1
      <4>3. PICK k \in Nat : p = starts[m] + t + k * NbThreads
        BY <1>6 DEF DealtTo
      <4>4. t \in Nat /\ k * NbThreads \in Nat
        BY DEF Threads
      <4> QED BY <1>2, <4>2, <4>3, <4>4
    <3>3. ~ TurnIsOver(m, p, t)'
      <4> HIDE DEF l, next
      <4> QED BY <1>2, <2>1, <2>3, <3>2 DEF TurnIsOver
    <3> QED BY <3>1, <3>3
  <2> QED BY <1>2, <2>1, <2>2, <2>3
<1>7. Written(starts, m, p)' <=>
        \E u \in Threads : DealtTo(starts, m, p, u)' /\ TurnIsOver(m, p, u)'
  BY DEF Written, Threads
<1>8. ASSUME NEW u \in Threads
      PROVE  DealtTo(starts, m, p, u)' /\ TurnIsOver(m, p, u)' <=>
               DealtTo(starts, m, p, u) /\ TurnIsOver(m, p, u)
  BY <1>4, <1>5, <1>6
<1> QED BY <1>7, <1>8 DEF Written

LEMMA LeaveBarrierKeepsValues ==
  ASSUME NbThreads \in Nat \ {0}, NEW starts, NEW tables, ValuesInv(starts, tables),
         NEW t \in Threads, LeaveBarrier(t)
  PROVE  ValuesInv(starts, tables)'
<1> DEFINE l == threadLayer[t]
           next == RangeAfter(range[t], l + 1)
<1>1. IInv(starts)' /\ Evaluable(starts)' /\ TablesCounted(tables)'
  BY LeaveBarrierKeepsIInv, OrderStays DEF ValuesInv, LeaveBarrier
<1>2. /\ InLoop(t) /\ l \in Nat \ {0} /\ l < pgc.nbLayers /\ pgc.nbLayers \in Nat
      /\ UNCHANGED <<pgc, phase, wires, fetched, outputsMap>>
      /\ at' = [at EXCEPT ![t] = "turn"]
      /\ threadLayer' = [threadLayer EXCEPT ![t] = l + 1]
      /\ range' = [range EXCEPT ![t] = next]
      /\ gate' = [gate EXCEPT ![t] = next.startGate + t]
      /\ at \in [Threads -> {"turn", "store", "barrier"}]
      /\ threadLayer \in [Threads -> Nat \ {0}]
  <2>1. range'[t] = RangeAfter(range[t], l + 1)
    BY DEF LeaveBarrier, ValuesInv, IInv, Shape
  <2> QED BY <2>1 DEF LeaveBarrier, ValuesInv, IInv, Shape, InLoop, LayersIndependent
<1>3. ASSUME NEW u \in Threads, u # t
      PROVE  /\ at'[u] = at[u] /\ threadLayer'[u] = threadLayer[u] /\ range'[u] = range[u]
             /\ gate'[u] = gate[u]
  <2> HIDE DEF next
  <2> QED BY <1>2, <1>3 DEF ValuesInv, IInv, Shape
<1>4. at'[t] = "turn" /\ threadLayer'[t] = l + 1 /\ range'[t] = next
  <2> HIDE DEF next
  <2> QED BY <1>2 DEF ValuesInv, IInv, Shape
<1>5. AtTables(tables)'
  <2> SUFFICES ASSUME NEW u \in Threads, InLoop(u)'
               PROVE  /\ range'[u].startTableIndex = tables[threadLayer'[u]]
                      /\ range'[u].endTableIndex = tables[threadLayer'[u] + 1]
    BY DEF AtTables
  <2>1. CASE u = t
    <3>1. l + 1 < pgc.nbLayers /\ l + 1 \in LayersOfGates
      BY <1>2, <1>4, <2>1 DEF InLoop, LayersOfGates
    <3>2. range[t].endTableIndex = tables[l + 1]
      BY <1>2 DEF ValuesInv, AtTables
    <3>3. next.startTableIndex = tables[l + 1] /\ next.endTableIndex = tables[l + 1 + 1]
      BY <1>2, <3>1, <3>2, RangeAfterIsTables DEF ValuesInv
    <3> HIDE DEF next
    <3> QED BY <1>4, <2>1, <3>3
  <2>2. CASE u # t
    BY <1>2, <1>3, <2>2 DEF ValuesInv, AtTables, InLoop
  <2> QED BY <2>1, <2>2
<1>6. InputsStay' /\ Arrays'
  <2> HIDE DEF next
  <2> QED BY <1>2 DEF ValuesInv, InputsStay, Arrays
<1>7. OutputsWritten(starts)'
  <2> SUFFICES ASSUME phase # "inputs", NEW m \in LayersOfGates, NEW p \in GatesOf(starts, m)
               PROVE  HasValue(GateAt(p).out)' <=> Written(starts, m, p)'
    BY <1>2 DEF OutputsWritten, LayersOfGates, GatesOf
  <2>1. HasValue(GateAt(p).out) <=> Written(starts, m, p)
    BY DEF ValuesInv, OutputsWritten
  <2>2. HasValue(GateAt(p).out)' <=> HasValue(GateAt(p).out)
    BY <1>2 DEF HasValue, GateAt
  <2> QED BY <2>1, <2>2, LeaveBarrierEndsNoTurn
<1>8. ASSUME NEW u \in Threads, u # t
      PROVE  /\ Computed(u)' = Computed(u) /\ GateOf(u)' = GateOf(u)
             /\ HasValue(GateOf(u).in0)' = HasValue(GateOf(u).in0)
             /\ HasValue(GateOf(u).in1)' = HasValue(GateOf(u).in1)
             /\ HasTurn(u)' = HasTurn(u) /\ InLoop(u)' = InLoop(u)
             /\ fetched'[u] = fetched[u] /\ at'[u] = at[u]
  <2>1. UNCHANGED <<pgc, phase, wires, fetched>>
    BY <1>2
  <2>2. /\ at'[u] = at[u] /\ threadLayer'[u] = threadLayer[u] /\ range'[u] = range[u]
        /\ gate'[u] = gate[u]
    BY <1>3, <1>8
  <2> QED BY <2>1, <2>2 DEF Computed, GateOf, GateAt, HasTurn, InLoop, TableIndex, HasValue
<1>9. TurnsComputed'
  <2>1. TurnsComputed
    BY DEF ValuesInv
  <2> QED BY <1>4, <1>8, <2>1 DEF TurnsComputed
<1> QED BY <1>1, <1>5, <1>6, <1>7, <1>9 DEF ValuesInv

LEMMA CopyOutputsKeepsValues ==
  ASSUME NEW starts, NEW tables, ValuesInv(starts, tables), CopyOutputs
  PROVE  ValuesInv(starts, tables)'
<1>1. IInv(starts)' /\ Evaluable(starts)' /\ TablesCounted(tables)'
  BY CopyOutputsKeepsIInv, OrderStays DEF ValuesInv, CopyOutputs
<1>2. phase # "inputs" /\ phase' = "done" /\ UNCHANGED <<pgc, wires, teamVars>>
  BY DEF CopyOutputs
<1>3. AtTables(tables)' /\ TurnsComputed'
  BY <1>2 DEF AtTables, TurnsComputed, InLoop
<1>4. Arrays' /\ InputsStay'
  BY <1>2 DEF ValuesInv, Arrays, InputsStay, teamVars
<1>5. OutputsWritten(starts)'
  BY <1>2, OutputsStay DEF ValuesInv, teamVars
<1> QED BY <1>1, <1>3, <1>4, <1>5 DEF ValuesInv

LEMMA StutteringKeepsValues ==
  ASSUME NEW starts, NEW tables, ValuesInv(starts, tables), UNCHANGED vars
  PROVE  ValuesInv(starts, tables)'
<1>1. IInv(starts)' /\ Evaluable(starts)' /\ TablesCounted(tables)'
  BY StutteringKeepsIInv, OrderStays DEF ValuesInv, vars
<1>2. UNCHANGED <<pgc, phase, wires, at, threadLayer, range, gate, fetched, outputsMap>>
  BY DEF vars, teamVars
<1>3. AtTables(tables)' /\ Arrays' /\ InputsStay'
  BY <1>2 DEF ValuesInv, AtTables, InLoop, Arrays, InputsStay
<1>4. OutputsWritten(starts)'
  BY <1>2, OutputsStay DEF ValuesInv
<1>5. TurnsComputed'
  BY <1>2 DEF ValuesInv, TurnsComputed, InLoop, HasTurn, HasValue, GateOf, GateAt, Computed,
              TableIndex
<1> QED BY <1>1, <1>3, <1>4, <1>5 DEF ValuesInv

LEMMA NextKeepsValues ==
  ASSUME NbThreads \in Nat \ {0}, NEW starts, NEW tables, ValuesInv(starts, tables),
         [Next]_vars
  PROVE  ValuesInv(starts, tables)'
<1>1. CASE CopyInputs
  BY <1>1, CopyInputsKeepsValues
<1>2. ASSUME NEW t \in Threads, ThreadNext(t)
      PROVE  ValuesInv(starts, tables)'
  BY <1>2, FetchKeepsValues, StoreKeepsValues, ReachBarrierKeepsValues,
     LeaveBarrierKeepsValues DEF ThreadNext
<1>3. CASE CopyOutputs
  BY <1>3, CopyOutputsKeepsValues
<1>4. CASE UNCHANGED vars
  BY <1>4, StutteringKeepsValues
<1> QED BY <1>1, <1>2, <1>3, <1>4 DEF Next

(* When the outputs are copied every gate has written its own. *)
LEMMA AllWritten ==
  ASSUME NbThreads \in Nat \ {0}, NEW starts, NEW tables, ValuesInv(starts, tables),
         CopyOutputs, NEW l \in LayersOfGates, NEW n \in GatesOf(starts, l)
  PROVE  HasValue(GateAt(n).out)
<1>1. phase = "gates" /\ \A t \in Threads : ~ (threadLayer[t] < pgc.nbLayers)
  BY DEF CopyOutputs, InLoop
<1>2. PICK t \in Threads : DealtTo(starts, l, n, t)
  BY DealtToOne DEF ValuesInv, IInv
<1>3. threadLayer[t] \in Nat /\ pgc.nbLayers \in Nat /\ l \in 1 .. pgc.nbLayers - 1
  BY DEF ValuesInv, IInv, Shape, LayersIndependent, LayersOfGates
<1>4. TurnIsOver(l, n, t)
  BY <1>1, <1>3 DEF TurnIsOver
<1> QED BY <1>1, <1>2, <1>4 DEF ValuesInv, OutputsWritten, Written

--------------------------------------------------------------------------------
(***************************************************************************)
(* No two turns under way touch one wire that either writes, for any number *)
(* of threads and any circuit with independent layers                       *)
(* (evaluate.cpp:112-168).                                                  *)
(***************************************************************************)
THEOREM RaceFree ==
  ASSUME NbThreads \in Nat \ {0}, NEW CONSTANT starts
  PROVE  Init /\ LayersIndependent(starts) /\ [][Next]_vars => []NoDataRace
<1>1. Init /\ LayersIndependent(starts) => IInv(starts)
  BY InitIInv
<1>2. IInv(starts) /\ [Next]_vars => IInv(starts)'
  BY NextKeepsIInv
<1>3. IInv(starts) => NoDataRace
  BY IInvNoDataRace
<1> QED BY <1>1, <1>2, <1>3, PTL

(***************************************************************************)
(* The barriers keep the team within a layer of each other                  *)
(* (evaluate.cpp:172-174).                                                  *)
(***************************************************************************)
THEOREM TeamInStep ==
  ASSUME NbThreads \in Nat \ {0}, NEW CONSTANT starts
  PROVE  Init /\ LayersIndependent(starts) /\ [][Next]_vars => []LayersInStep
<1>1. Init /\ LayersIndependent(starts) => IInv(starts)
  BY InitIInv
<1>2. IInv(starts) /\ [Next]_vars => IInv(starts)'
  BY NextKeepsIInv
<1>3. IInv(starts) => LayersInStep
  BY DEF IInv
<1> QED BY <1>1, <1>2, <1>3, PTL

================================================================================
