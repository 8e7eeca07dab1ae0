------------------------- MODULE ParallelGarbledCircuit ------------------------
(***************************************************************************)
(* The constructor of parallel_garbled_circuit.cpp: it sorts the gates of a *)
(* GarbledCircuit so that threads can evaluate them layer by layer.  Four   *)
(* loops, one action per turn of each: the layer of every gate; a counting  *)
(* sort of every layer, gates that are not XOR first, XOR gates by input 0; *)
(* the sorted lists one after the other; gates and tables in that order.    *)
(*                                                                          *)
(* A garbled table is named after the gate of the GarbledCircuit that owns  *)
(* it.  The code counts on four layers and, to save memory, keeps input ids *)
(* on 16 bits; assertions guard both in a debug build only.                 *)
(***************************************************************************)
EXTENDS Circuit, GatePacking, SequencesExt

CONSTANT MaxId              \* the largest input0 that is kept: a uint16_t's, 2^16 - 1
ASSUME MaxIdAssumption == MaxId \in Nat \ {0}

VARIABLES
  ndebug,                   \* TRUE in a release build, where assert does nothing
  circuit,                  \* the gates of the GarbledCircuit
  pc,                       \* the loop the constructor is in
  i,                        \* its counter
  layer,                    \* wiring[w].layer
  nbLayers,                 \* nb_layers_, the layer of the inputs counted
  layerCounts,              \* layer_counts_
  layerNonXorCounts,        \* layer_nonxor_counts_
  minInput0, maxInput0,     \* layer_input0_minmax
  nonXorGates,              \* layers[l].first
  xorGates,                 \* layers[l].second, from minInput0[l] on
  sublayer,                 \* the list of layer i that is next in order
  newGatesId,
  garbledGates,             \* garbled_gates_
  garbledTable              \* garbled_table_, the owner of every column

countVars  == <<layer, nbLayers, layerCounts, layerNonXorCounts, minInput0, maxInput0>>
bucketVars == <<nonXorGates, xorGates>>
orderVars  == <<sublayer, newGatesId>>
pgcVars    == <<garbledGates, garbledTable>>
buildVars  == <<ndebug, circuit>>
vars       == <<buildVars, pc, i, countVars, bucketVars, orderVars, pgcVars>>

Layers == 0 .. 3                    \* the size of the vectors per layer

(* static_cast<uint16_t> *)
Truncated(id) == id % (MaxId + 1)

IsXor(g) == circuit.type[g] = XOR

Larger(a, b) == IF a > b THEN a ELSE b

Smaller(a, b) == IF a < b THEN a ELSE b

Init ==
  /\ ndebug \in Builds
  /\ circuit \in Circuits
  /\ pc = "layers"
  /\ i = 0
  /\ layer = [w \in Wires |-> 0]
  /\ nbLayers = 0
  /\ layerCounts = [l \in Layers |-> 0]
  /\ layerNonXorCounts = [l \in Layers |-> 0]
  /\ minInput0 = [l \in Layers |-> MaxId]
  /\ maxInput0 = [l \in Layers |-> 0]
  /\ nonXorGates = <<>>
  /\ xorGates = <<>>
  /\ sublayer = 0
  /\ newGatesId = <<>>
  /\ garbledGates = <<>>
  /\ garbledTable = <<>>

--------------------------------------------------------------------------------
(* Slip: the layer after the nearer of the inputs. *)
LayerAfterNearer(g) ==
  Smaller(layer[circuit.in0[g]], layer[circuit.in1[g]]) + 1

(* "Stack to the left": the layer after the inputs. *)
LayerOf(g) == Larger(layer[circuit.in0[g]], layer[circuit.in1[g]]) + 1

InLayers == pc = "layers" /\ i < NbGates

(* Slip: three layers, that of the inputs counted. *)
LayerAssertsThree ==
  /\ LayerOf(i) < 3
  /\ IsXor(i) => circuit.in0[i] < MaxId

(* The assertions of a turn of the first loop. *)
LayerAsserts ==
  /\ LayerOf(i) < 4
  /\ IsXor(i) => circuit.in0[i] < MaxId

(* A XOR gate widens the range of input 0, truncated, of its layer. *)
AssignLayer ==
  LET l   == LayerOf(i)
      in0 == Truncated(circuit.in0[i])
  IN  /\ InLayers
      /\ l \in Layers
      /\ ndebug \/ LayerAsserts
      /\ layer' = [layer EXCEPT ![circuit.out[i]] = l]
      /\ nbLayers' = Larger(nbLayers, l + 1)
      /\ layerCounts' = [layerCounts EXCEPT ![l] = @ + 1]
      /\ IF IsXor(i)
         THEN /\ minInput0' = [minInput0 EXCEPT ![l] = Smaller(@, in0)]
              /\ maxInput0' = [maxInput0 EXCEPT ![l] = Larger(@, in0)]
              /\ UNCHANGED layerNonXorCounts
         ELSE /\ layerNonXorCounts' = [layerNonXorCounts EXCEPT ![l] = @ + 1]
              /\ UNCHANGED <<minInput0, maxInput0>>
      /\ i' = i + 1
      /\ UNCHANGED <<buildVars, pc, bucketVars, orderVars, pgcVars>>

AbortLayers ==
  /\ InLayers
  /\ ~ndebug /\ ~LayerAsserts
  /\ pc' = "aborted"
  /\ UNCHANGED <<buildVars, i, countVars, bucketVars, orderVars, pgcVars>>

(* A release build counts a fifth layer past the end of the vectors.  What  *)
(* follows such a write is not followed: "lost" stands for all of it.       *)
WritePastLayers ==
  /\ InLayers
  /\ ndebug /\ LayerOf(i) \notin Layers
  /\ pc' = "lost"
  /\ UNCHANGED <<buildVars, i, countVars, bucketVars, orderVars, pgcVars>>

--------------------------------------------------------------------------------
(***************************************************************************)
(* The buckets of every layer.  A layer has none for XOR gates when its     *)
(* minimum is still what it was set to at first.                            *)
(***************************************************************************)
MakeBuckets ==
  /\ pc = "layers" /\ i = NbGates
  /\ nonXorGates' = [l \in 0 .. nbLayers - 1 |-> <<>>]
  /\ xorGates' = [l \in 0 .. nbLayers - 1 |->
                    IF minInput0[l] = MaxId THEN <<>>
                    ELSE [k \in 1 .. 1 + maxInput0[l] - minInput0[l] |-> <<>>]]
  /\ pc' = "buckets"
  /\ i' = 0
  /\ UNCHANGED <<buildVars, countVars, orderVars, pgcVars>>

InBuckets == pc = "buckets" /\ i < NbGates

OutputLayer == layer[circuit.out[i]]

(* Slip: the truncated id, as for the minima. *)
BucketOfTruncated == Truncated(circuit.in0[i]) - minInput0[OutputLayer] + 1

Bucket == circuit.in0[i] - minInput0[OutputLayer] + 1

BucketNonXor ==
  /\ InBuckets
  /\ ~IsXor(i)
  /\ nonXorGates' = [nonXorGates EXCEPT ![OutputLayer] = Append(@, i)]
  /\ i' = i + 1
  /\ UNCHANGED <<buildVars, pc, countVars, xorGates, orderVars, pgcVars>>

BucketXor ==
  /\ InBuckets
  /\ IsXor(i)
  /\ Bucket \in DOMAIN xorGates[OutputLayer]
  /\ xorGates' = [xorGates EXCEPT ![OutputLayer][Bucket] = Append(@, i)]
  /\ i' = i + 1
  /\ UNCHANGED <<buildVars, pc, countVars, nonXorGates, orderVars, pgcVars>>

(* An id that was truncated has no bucket: the write is past those of the   *)
(* layer, and what follows it is not followed either.                       *)
WritePastBuckets ==
  /\ InBuckets
  /\ IsXor(i)
  /\ Bucket \notin DOMAIN xorGates[OutputLayer]
  /\ pc' = "lost"
  /\ UNCHANGED <<buildVars, i, countVars, bucketVars, orderVars, pgcVars>>

StartOrder ==
  /\ pc = "buckets" /\ i = NbGates
  /\ pc' = "order"
  /\ i' = 0
  /\ UNCHANGED <<buildVars, countVars, bucketVars, orderVars, pgcVars>>

(* Slip: the XOR gates of a layer first. *)
XorFirst(l, k) ==
  IF k = Len(xorGates[l]) THEN nonXorGates[l] ELSE xorGates[l][k + 1]

(* The lists of a layer: the gates that are not XOR, then bucket by bucket. *)
SublayerOf(l, k) == IF k = 0 THEN nonXorGates[l] ELSE xorGates[l][k]

(* Slip: the inputs are a layer, so the last one is left out. *)
LastLayerLeftOut == nbLayers - 1

NbLayersToOrder == nbLayers

OrderSublayer ==
  /\ pc = "order" /\ i < NbLayersToOrder
  /\ newGatesId' = newGatesId \o SublayerOf(i, sublayer)
  /\ IF sublayer < Len(xorGates[i])
     THEN sublayer' = sublayer + 1 /\ i' = i
     ELSE sublayer' = 0 /\ i' = i + 1
  /\ UNCHANGED <<buildVars, pc, countVars, bucketVars, pgcVars>>

StartPack ==
  /\ pc = "order" /\ i = NbLayersToOrder
  /\ pc' = "pack"
  /\ i' = 0
  /\ UNCHANGED <<buildVars, countVars, bucketVars, orderVars, pgcVars>>

(* Slip: the old gate in that place, not the one sorted there. *)
TableOwnerByPlace == i

(* The gate whose table the next column is copied from. *)
TableOwner == newGatesId[i + 1]

(* The next gate, packed, and its table, if it has one. *)
PackGate ==
  LET g == newGatesId[i + 1]
  IN  /\ pc = "pack"
      /\ i < NbGates
      /\ garbledGates' = Append(garbledGates,
           Pack(IsXor(g), circuit.in0[g], circuit.in1[g], circuit.out[g]))
      /\ garbledTable' =
           IF IsXor(g) THEN garbledTable ELSE Append(garbledTable, TableOwner)
      /\ i' = i + 1
      /\ UNCHANGED <<buildVars, pc, countVars, bucketVars, orderVars>>

(* The outputs and the labels are moved out of the GarbledCircuit. *)
Finish ==
  /\ pc = "pack" /\ i = NbGates
  /\ pc' = "done"
  /\ UNCHANGED <<buildVars, i, countVars, bucketVars, orderVars, pgcVars>>

Next ==
  \/ AssignLayer \/ AbortLayers \/ WritePastLayers
  \/ MakeBuckets \/ BucketNonXor \/ BucketXor \/ WritePastBuckets
  \/ StartOrder \/ OrderSublayer
  \/ StartPack \/ PackGate \/ Finish

(* One thread that is never suspended for good. *)
Spec == Init /\ [][Next]_vars /\ WF_vars(Next)

--------------------------------------------------------------------------------
TypeOK ==
  /\ ndebug \in BOOLEAN
  /\ WellFormed(circuit)
  /\ pc \in {"layers", "buckets", "order", "pack", "done", "aborted", "lost"}
  /\ i \in 0 .. (IF pc = "order" THEN nbLayers ELSE NbGates)
  /\ layer \in [Wires -> Layers]
  /\ nbLayers \in 0 .. 4
  /\ layerCounts \in [Layers -> 0 .. NbGates]
  /\ layerNonXorCounts \in [Layers -> 0 .. NbGates]
  /\ minInput0 \in [Layers -> 0 .. MaxId]
  /\ maxInput0 \in [Layers -> 0 .. MaxId]
  /\ newGatesId \in Seq(Gates)
  /\ garbledTable \in Seq(NonXorGates(circuit))

(* Where the evaluator takes layer l to start, among the gates or, with the *)
(* other counts, among the tables (evaluate.cpp:116-120).                   *)
StartOf(counts, l) ==
  LET CountBefore(k) == IF k < l THEN counts[k] ELSE 0
  IN  CountBefore(1) + CountBefore(2) + CountBefore(3)

(***************************************************************************)
(* The sort loses no gate and repeats none, although it drops a gate into a *)
(* bucket chosen by minima that an earlier loop has collected.              *)
(***************************************************************************)
EveryGateOnce ==
  pc \in {"pack", "done"} =>
    /\ Len(newGatesId) = NbGates
    /\ ToSet(newGatesId) = Gates

(***************************************************************************)
(* Between two gates where one reads the other's output there is a layer    *)
(* boundary as the evaluator counts them: a barrier separates the threads   *)
(* that write a wire from those that read it.                               *)
(***************************************************************************)
BarrierSeparates ==
  pc = "done" =>
    \A p, q \in 1 .. NbGates :
      circuit.out[newGatesId[p]] \in
          {circuit.in0[newGatesId[q]], circuit.in1[newGatesId[q]]} =>
        \E l \in 1 .. nbLayers - 1 :
          p <= StartOf(layerCounts, l) /\ StartOf(layerCounts, l) < q

(***************************************************************************)
(* The index the evaluator computes for the table of a gate that is not     *)
(* XOR, from the counts of the layers alone, is that of the gate's table.   *)
(***************************************************************************)
EvaluatorFindsTables ==
  pc = "done" =>
    \A l \in 1 .. nbLayers - 1 :
      \A n \in StartOf(layerCounts, l) .. StartOf(layerCounts, l + 1) - 1 :
        LET tableIndex == StartOf(layerNonXorCounts, l) + n - StartOf(layerCounts, l)
        IN  ~IsXor(newGatesId[n + 1]) =>
              /\ tableIndex < Len(garbledTable)
              /\ garbledTable[tableIndex + 1] = newGatesId[n + 1]

(***************************************************************************)
(* Within a layer, XOR gates are in the order of their input 0: what the    *)
(* counting sort is for (parallel_garbled_circuit.cpp:136-139).             *)
(***************************************************************************)
XorGatesByInput0 ==
  pc = "done" =>
    \A p, q \in 1 .. NbGates :
      LET g == newGatesId[p]
          h == newGatesId[q]
      IN  p < q /\ IsXor(g) /\ IsXor(h) /\ layer[circuit.out[g]] = layer[circuit.out[h]]
            => circuit.in0[g] <= circuit.in0[h]

(***************************************************************************)
(* What the evaluator unpacks is the gate that was packed: "we already      *)
(* know(=assert) that each component fits on 21bits"                        *)
(* (parallel_garbled_circuit.cpp:278-279).                                  *)
(***************************************************************************)
PackedGatesUnpack ==
  \A n \in DOMAIN garbledGates :
    LET g == newGatesId[n]
    IN  Unpack(garbledGates[n]) =
          [xor |-> IsXor(g), in0 |-> circuit.in0[g],
           in1 |-> circuit.in1[g], out |-> circuit.out[g]]

(* How far gate g is from the inputs. *)
Depth(g) ==
  LET depth[h \in Gates] ==
        1 + Max({0} \cup { depth[d] : d \in { e \in 0 .. h - 1 :
                             circuit.out[e] \in {circuit.in0[h], circuit.in1[h]} } })
  IN  depth[g]

(* The circuits the constructor is meant for. *)
Fits ==
  /\ \A g \in Gates : Depth(g) <= 3
  /\ \A g \in XorGates(circuit) : circuit.in0[g] < MaxId

(***************************************************************************)
(* A circuit with three layers of gates and ids below 2^16 - 1 is           *)
(* converted; in a debug build nothing else is.                             *)
(***************************************************************************)
FittingIsConverted ==
  /\ Fits => <>(pc = "done")
  /\ [](pc = "done" /\ ~ndebug => Fits)

================================================================================
