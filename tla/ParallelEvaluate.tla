---------------------------- MODULE ParallelEvaluate ---------------------------
(***************************************************************************)
(* ParallelEvaluate of evaluate/evaluate.cpp: a team of OpenMP threads      *)
(* evaluates a ParallelGarbledCircuit layer by layer.  Each layer is a      *)
(* "#pragma omp for schedule(static, 1)" over its gates, so thread t takes  *)
(* every NbThreads-th gate from the t-th on, and ends with a barrier.       *)
(*                                                                          *)
(* Threads share the wires and nothing protects them but the barriers.  One *)
(* turn of the loop reads its two input wires (Fetch) and writes its output *)
(* wire later (Store); the turns of other threads come in between.          *)
(*                                                                          *)
(* The barrier that ends an omp for and the "#pragma omp barrier" after it  *)
(* are one here: a thread does nothing between them.                        *)
(***************************************************************************)
EXTENDS Integers, Sequences, WireValues, GatePacking

CONSTANT NbThreads        \* the size of the team OpenMP forms

VARIABLES
  pgc,                    \* the ParallelGarbledCircuit, which nobody changes
  phase,                  \* the loop ParallelEvaluate is in
  wires,                  \* wires[w], shared by the threads
  at,                     \* what a thread is about to do
  threadLayer,            \* layer, the layer a thread is in
  range,                  \* startGate, endGate, startTableIndex, endTableIndex
  gate,                   \* the gate of its turn, the index i of the loop
  fetched,                \* the value its turn has computed
  outputsMap              \* outputs_map

teamVars == <<at, threadLayer, range, gate, fetched>>
vars     == <<pgc, phase, wires, teamVars, outputsMap>>

Threads == 0 .. NbThreads - 1

(***************************************************************************)
(* The gates and tables of layer l, for a thread whose last layer had those *)
(* of last: every thread adds up the counts for itself.  Layer 0 is inputs. *)
(***************************************************************************)
RangeAfter(last, l) ==
  IF l >= pgc.nbLayers THEN last
  ELSE [startGate       |-> last.endGate,
        endGate         |-> last.endGate + pgc.layerCounts[l],
        startTableIndex |-> last.endTableIndex,
        endTableIndex   |-> last.endTableIndex + pgc.layerNonXorCounts[l]]

NoRange == [startGate |-> 0, endGate |-> 0, startTableIndex |-> 0, endTableIndex |-> 0]

Init ==
  /\ phase = "inputs"
  /\ wires = <<>>
  /\ at = [t \in Threads |-> "turn"]
  /\ threadLayer = [t \in Threads |-> 1]
  /\ range = [t \in Threads |-> NoRange]
  /\ gate = [t \in Threads |-> 0]
  /\ fetched = [t \in Threads |-> NoValue]
  /\ outputsMap = <<>>

(* The parallel for that copies the labels; its turns share no wire. *)
CopyInputs ==
  /\ phase = "inputs"
  /\ wires' = [w \in 0 .. pgc.nbWires - 1 |->
                 IF w < pgc.nbInputs THEN InputValue(w) ELSE NoValue]
  /\ range' = [t \in Threads |-> RangeAfter(range[t], 1)]
  /\ gate' = [t \in Threads |-> range'[t].startGate + t]
  /\ phase' = "gates"
  /\ UNCHANGED <<pgc, at, threadLayer, fetched, outputsMap>>

InLoop(t) == phase = "gates" /\ threadLayer[t] < pgc.nbLayers

GateAt(n) == Unpack(pgc.garbledGates[n + 1])

GateOf(t) == GateAt(gate[t])

(* Does thread t have a turn of the loop over the gates of its layer left? *)
HasTurn(t) == gate[t] < range[t].endGate

(* Where tables run on as gates do, among those of a layer. *)
TableIndex(t) == range[t].startTableIndex + gate[t] - range[t].startGate

(* The label a turn computes for the output of its gate. *)
Computed(t) ==
  LET g == GateOf(t)
      A == wires[g.in0]
      B == wires[g.in1]
  IN  IF g.xor THEN XorValue(A, B)
      ELSE TableValue(pgc.garbledTable[TableIndex(t) + 1], A, B)

Fetch(t) ==
  /\ InLoop(t) /\ at[t] = "turn" /\ HasTurn(t)
  /\ fetched' = [fetched EXCEPT ![t] = Computed(t)]
  /\ at' = [at EXCEPT ![t] = "store"]
  /\ UNCHANGED <<pgc, phase, wires, threadLayer, range, gate, outputsMap>>

(* Slip: the turns are dealt as if every thread started at the first one. *)
NextTurnOfOne(t) == gate[t] + 1

(* The next turn of schedule(static, 1). *)
NextTurn(t) == gate[t] + NbThreads

Store(t) ==
  /\ InLoop(t) /\ at[t] = "store"
  /\ wires' = [wires EXCEPT ![GateOf(t).out] = fetched[t]]
  /\ gate' = [gate EXCEPT ![t] = NextTurn(t)]
  /\ at' = [at EXCEPT ![t] = "turn"]
  /\ UNCHANGED <<pgc, phase, threadLayer, range, fetched, outputsMap>>

ReachBarrier(t) ==
  /\ InLoop(t) /\ at[t] = "turn" /\ ~HasTurn(t)
  /\ at' = [at EXCEPT ![t] = "barrier"]
  /\ UNCHANGED <<pgc, phase, wires, threadLayer, range, gate, fetched, outputsMap>>

(* Slip: nowait, and no barrier after the loop. *)
NobodyWaits(t) == TRUE

(* Slip: a thread waits until the others have left, not reached, the barrier. *)
AllOthersLeft(t) == \A u \in Threads \ {t} : threadLayer[u] > threadLayer[t]

(* Every thread has come to the barrier that t waits at. *)
AllReached(t) ==
  \A u \in Threads :
    threadLayer[u] > threadLayer[t] \/ (threadLayer[u] = threadLayer[t] /\ at[u] = "barrier")

LeaveBarrier(t) ==
  /\ InLoop(t) /\ at[t] = "barrier"
  /\ AllReached(t)
  /\ threadLayer' = [threadLayer EXCEPT ![t] = @ + 1]
  /\ range' = [range EXCEPT ![t] = RangeAfter(@, threadLayer[t] + 1)]
  /\ gate' = [gate EXCEPT ![t] = range'[t].startGate + t]
  /\ at' = [at EXCEPT ![t] = "turn"]
  /\ UNCHANGED <<pgc, phase, wires, fetched, outputsMap>>

(* The end of the parallel region, and the parallel for over the outputs. *)
CopyOutputs ==
  /\ phase = "gates"
  /\ \A t \in Threads : ~InLoop(t)
  /\ outputsMap' = [k \in DOMAIN pgc.outputs |-> wires[pgc.outputs[k]]]
  /\ phase' = "done"
  /\ UNCHANGED <<pgc, wires, teamVars>>

ThreadNext(t) == Fetch(t) \/ Store(t) \/ ReachBarrier(t) \/ LeaveBarrier(t)

Next == CopyInputs \/ (\E t \in Threads : ThreadNext(t)) \/ CopyOutputs

(* Every thread of the team runs, as the operating system schedules it. *)
Fairness ==
  /\ WF_vars(CopyInputs)
  /\ \A t \in Threads : WF_vars(ThreadNext(t))
  /\ WF_vars(CopyOutputs)

--------------------------------------------------------------------------------
TypeOK ==
  /\ phase \in {"inputs", "gates", "done"}
  /\ at \in [Threads -> {"turn", "store", "barrier"}]
  /\ threadLayer \in [Threads -> Nat]
  /\ gate \in [Threads -> Nat]

(* Thread t is in the middle of a turn, between its reads and its write. *)
InTurn(t) == InLoop(t) /\ (at[t] = "store" \/ (at[t] = "turn" /\ HasTurn(t)))

(***************************************************************************)
(* While a thread is in a turn no other one is in a turn that touches the   *)
(* wire it writes: neither is its value read too early or too late, nor is  *)
(* it written twice (evaluate.cpp:112-168 takes no lock).                   *)
(***************************************************************************)
NoDataRace ==
  \A t, u \in Threads :
    t # u /\ InTurn(t) /\ InTurn(u) =>
      GateOf(t).out \notin {GateOf(u).in0, GateOf(u).in1, GateOf(u).out}

(***************************************************************************)
(* No thread is a layer ahead of one that has not come to the barrier yet,  *)
(* none is two layers ahead (evaluate.cpp:172-174).                         *)
(***************************************************************************)
LayersInStep ==
  phase = "gates" =>
    \A t, u \in Threads :
      threadLayer[t] > threadLayer[u] => threadLayer[t] = threadLayer[u] + 1 /\ at[u] = "barrier"

(***************************************************************************)
(* What the evaluator asks of a ParallelGarbledCircuit: with starts[l] the  *)
(* first gate of layer l as the counts have it, no gate of a layer reads or *)
(* writes what another gate of the layer writes.                            *)
(***************************************************************************)
LayersIndependent(starts) ==
  /\ pgc.nbLayers \in Nat
  /\ \A l \in 1 .. pgc.nbLayers : starts[l] \in Nat
  /\ starts[1] = 0
  /\ \A l \in 1 .. pgc.nbLayers - 1 :
       /\ pgc.layerCounts[l] \in Nat /\ pgc.layerNonXorCounts[l] \in Nat
       /\ starts[l + 1] = starts[l] + pgc.layerCounts[l]
       /\ \A p, q \in starts[l] .. starts[l + 1] - 1 :
            p # q => GateAt(p).out \notin {GateAt(q).in0, GateAt(q).in1, GateAt(q).out}

================================================================================
