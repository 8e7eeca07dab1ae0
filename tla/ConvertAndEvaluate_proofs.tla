----------------------- MODULE ConvertAndEvaluate_proofs -----------------------
(***************************************************************************)
(* What the proofs about the constructor and about the team of threads say  *)
(* of the whole: the conversion gives independent layers, so the evaluation *)
(* has no race and implements CircuitEvaluation.                            *)
(***************************************************************************)
EXTENDS ConvertAndEvaluate, TLAPS

(* The evaluation has not begun, or it is in its own invariant. *)
EvaluateInv ==
  Evaluate!Init \/ (pc = "done" /\ \E starts : Evaluate!IInv(starts))

Assumptions ==
  /\ Evaluate!PackBitsAssumption /\ NbThreads \in Nat \ {0}
  /\ Convert!CircuitAssumption /\ Convert!PackBitsAssumption /\ Convert!MaxIdAssumption

LEMMA AssumptionsHold == Assumptions
BY NbThreadsAssumption, FieldsAssumption, CircuitAssumption
DEF Assumptions, Evaluate!PackBitsAssumption, Convert!CircuitAssumption,
    Convert!PackBitsAssumption, Convert!MaxIdAssumption, WellFormed, Convert!WellFormed,
    Gates, Convert!Gates, Wires, Convert!Wires, Inputs, Convert!Inputs

(* What ConvertsToIndependentLayers says once the conversion is over. *)
LEMMA ReadyIsIInv ==
  ASSUME ConvertsToIndependentLayers, EvaluateInv, pc = "done"
  PROVE  \E starts : Evaluate!IInv(starts)
<1>1. CASE Evaluate!Init
  <2>1. PICK starts : Evaluate!LayersIndependent(starts)
    BY DEF ConvertsToIndependentLayers
  <2>2. Evaluate!IInv(starts)
    BY <1>1, <2>1, AssumptionsHold, Evaluate!InitIInv DEF Assumptions
  <2> QED BY <2>2
<1> QED BY <1>1 DEF EvaluateInv

(* A step of the evaluation, on the finished circuit, is one of its own. *)
LEMMA EvaluationStep ==
  ASSUME pc = "done", UNCHANGED convertVars, [Evaluate!Next]_Evaluate!vars,
         NEW starts, Evaluate!IInv(starts)
  PROVE  EvaluateInv'
<1>1. Evaluate!IInv(starts)'
  BY AssumptionsHold, Evaluate!NextKeepsIInv DEF Assumptions
<1>2. pc' = "done"
  BY DEF convertVars
<1> QED BY <1>1, <1>2 DEF EvaluateInv

(* As long as the evaluation's variables stay, it has not begun. *)
LEMMA InitStays ==
  ASSUME Evaluate!Init, UNCHANGED evaluateVars
  PROVE  Evaluate!Init'
BY DEF evaluateVars, Evaluate!Init, Evaluate!Threads, Evaluate!NoRange, Evaluate!NoValue

(* The constructor returns once. *)
LEMMA ConversionIsOver ==
  ASSUME pc = "done"
  PROVE  ~ConvertNext
BY DEF ConvertNext, Convert!Next, Convert!AssignLayer, Convert!InLayers,
       Convert!AbortLayers, Convert!WritePastLayers, Convert!MakeBuckets,
       Convert!BucketNonXor, Convert!BucketXor, Convert!WritePastBuckets,
       Convert!InBuckets, Convert!StartOrder, Convert!OrderSublayer,
       Convert!StartPack, Convert!PackGate, Convert!Finish

LEMMA NextKeepsEvaluateInv ==
  ASSUME ConvertsToIndependentLayers, EvaluateInv, [Next]_vars
  PROVE  EvaluateInv'
<1>1. CASE pc # "done"
  <2>1. Evaluate!Init
    BY <1>1 DEF EvaluateInv
  <2>2. UNCHANGED evaluateVars
    BY <1>1 DEF Next, ConvertNext, Converted, vars
  <2> QED BY <2>1, <2>2, InitStays DEF EvaluateInv
<1>2. CASE pc = "done"
  <2>1. PICK starts : Evaluate!IInv(starts)
    BY <1>2, ReadyIsIInv
  <2>2. ~ConvertNext
    BY <1>2, ConversionIsOver
  <2>3. CASE \/ Converted(Evaluate!CopyInputs)
             \/ \E t \in Evaluate!Threads : Converted(Evaluate!ThreadNext(t))
             \/ Converted(Evaluate!CopyOutputs)
    <3>1. UNCHANGED convertVars /\ Evaluate!Next
      BY <2>3 DEF Converted, Evaluate!Next
    <3> QED BY <1>2, <2>1, <3>1, EvaluationStep
  <2>4. CASE UNCHANGED vars
    <3>1. UNCHANGED convertVars /\ UNCHANGED Evaluate!vars
      BY <2>4 DEF vars, convertVars, evaluateVars, pgc, Evaluate!vars, Evaluate!teamVars
    <3> QED BY <1>2, <2>1, <3>1, EvaluationStep
  <2> QED BY <2>2, <2>3, <2>4 DEF Next
<1> QED BY <1>1, <1>2

LEMMA EvaluateInvNoDataRace ==
  ASSUME ConvertsToIndependentLayers, EvaluateInv
  PROVE  NoDataRace
<1> SUFFICES ASSUME pc = "done" PROVE Evaluate!NoDataRace
  BY DEF NoDataRace
<1>1. PICK starts : Evaluate!IInv(starts)
  BY ReadyIsIInv
<1> QED BY <1>1, AssumptionsHold, Evaluate!IInvNoDataRace DEF Assumptions

--------------------------------------------------------------------------------
(* The conversion goes on as it would alone. *)
LEMMA InitIsConverting ==
  ASSUME Init
  PROVE  Convert!IInv
BY AssumptionsHold, Convert!InitIInv DEF Init, Assumptions

LEMMA NextKeepsConverting ==
  ASSUME Convert!IInv, [Next]_vars
  PROVE  Convert!IInv'
<1>1. [Convert!Next]_Convert!vars
  BY DEF Next, ConvertNext, Converted, vars, convertVars, Convert!vars, Convert!buildVars,
         Convert!countVars, Convert!bucketVars, Convert!orderVars, Convert!pgcVars
<1> QED BY <1>1, AssumptionsHold, Convert!NextKeepsIInv DEF Assumptions

(* The gate that the evaluator finds in a place is the one sorted there. *)
LEMMA GateInPlace ==
  ASSUME Convert!IInv, Convert!IdsFit, pc = "done", NEW n \in 0 .. NbGates - 1
  PROVE  LET g == newGatesId[n + 1]
         IN  Evaluate!GateAt(n) =
               [xor |-> Convert!IsXor(g), in0 |-> circuit.in0[g],
                in1 |-> circuit.in1[g], out |-> circuit.out[g]]
<1>1. n + 1 \in DOMAIN garbledGates
  <2>1. Convert!PackInv /\ Convert!NbPacked = NbGates
    BY DEF Convert!IInv, Convert!NbPacked
  <2>2. Len(garbledGates) = NbGates
    BY <2>1 DEF Convert!PackInv
  <2>3. DOMAIN garbledGates = 1 .. Len(garbledGates)
    BY DEF Convert!IInv
  <2> QED BY <2>2, <2>3, CircuitAssumption
<1>2. Convert!Unpack(garbledGates[n + 1]) =
        [xor |-> Convert!IsXor(newGatesId[n + 1]), in0 |-> circuit.in0[newGatesId[n + 1]],
         in1 |-> circuit.in1[newGatesId[n + 1]], out |-> circuit.out[newGatesId[n + 1]]]
  BY <1>1, AssumptionsHold, Convert!PackedGateUnpacks DEF Assumptions
<1>3. Evaluate!GateAt(n) = Convert!Unpack(garbledGates[n + 1])
  BY DEF Evaluate!GateAt, pgc, Evaluate!Unpack, Convert!Unpack, Evaluate!Within,
         Convert!Within, Evaluate!Beyond, Convert!Beyond, Evaluate!FieldSize,
         Convert!FieldSize
<1> QED BY <1>2, <1>3

LEMMA ConvertingIsReady ==
  ASSUME Convert!IInv, Convert!IdsFit
  PROVE  ConvertsToIndependentLayers
<1> SUFFICES ASSUME pc = "done"
             PROVE  Evaluate!LayersIndependent(
                      [l \in 1 .. 4 |-> Convert!StartOf(layerCounts, l)])
  BY DEF ConvertsToIndependentLayers
<1> DEFINE starts == [l \in 1 .. 4 |-> Convert!StartOf(layerCounts, l)]
<1>1. nbLayers \in 0 .. 4
  BY DEF Convert!IInv, Convert!TypeOK
<1>2. /\ pgc.nbLayers = nbLayers /\ pgc.layerCounts = layerCounts
      /\ pgc.layerNonXorCounts = layerNonXorCounts
  BY DEF pgc
<1>3. \A l \in 1 .. 4 : starts[l] = Convert!GateStart(l) /\ starts[l] \in Nat
  <2>1. ASSUME NEW l \in 1 .. 4 PROVE Convert!GateStart(l) \in Nat
    BY AssumptionsHold, Convert!CountsAreNat DEF Assumptions
  <2> QED BY <2>1 DEF Convert!GateStart
<1>4. starts[1] = 0
  BY <1>3, AssumptionsHold, Convert!StartsAre DEF Assumptions
<1>5. ASSUME NEW l \in 1 .. nbLayers - 1
      PROVE  /\ layerCounts[l] \in Nat /\ layerNonXorCounts[l] \in Nat
             /\ starts[l + 1] = starts[l] + layerCounts[l]
             /\ \A p, q \in starts[l] .. starts[l + 1] - 1 :
                  p # q => Evaluate!GateAt(p).out \notin
                             {Evaluate!GateAt(q).in0, Evaluate!GateAt(q).in1,
                              Evaluate!GateAt(q).out}
  <2>1. l \in 1 .. 3 /\ l \in 1 .. 4 /\ l + 1 \in 1 .. 4
    BY <1>1
  <2>2. /\ layerCounts[l] \in Nat /\ layerNonXorCounts[l] \in Nat
        /\ Convert!GateStart(l + 1) = Convert!GateStart(l) + layerCounts[l]
    BY <2>1, AssumptionsHold, Convert!CountsAreNat DEF Assumptions
  <2>3. ASSUME NEW p \in starts[l] .. starts[l + 1] - 1
        PROVE  /\ p + 1 \in Int /\ p \in 0 .. NbGates - 1
               /\ Convert!GateStart(l) < p + 1 /\ p + 1 <= Convert!GateStart(l + 1)
    <3>1. /\ p + 1 \in Int /\ p \in Int
          /\ Convert!GateStart(l) < p + 1 /\ p + 1 <= Convert!GateStart(l + 1)
      BY <1>3, <2>1
    <3>2. p + 1 \in 1 .. NbGates
      BY <3>1, AssumptionsHold, Convert!LayerOfPlace DEF Assumptions
    <3> QED BY <3>1, <3>2, CircuitAssumption
  <2>4. ASSUME NEW p \in starts[l] .. starts[l + 1] - 1,
               NEW q \in starts[l] .. starts[l + 1] - 1, p # q
        PROVE  Evaluate!GateAt(p).out \notin
                 {Evaluate!GateAt(q).in0, Evaluate!GateAt(q).in1, Evaluate!GateAt(q).out}
    <3>1. /\ p + 1 \in Int /\ Convert!GateStart(l) < p + 1
          /\ p + 1 <= Convert!GateStart(l + 1) /\ p \in 0 .. NbGates - 1
          /\ q + 1 \in Int /\ Convert!GateStart(l) < q + 1
          /\ q + 1 <= Convert!GateStart(l + 1) /\ q \in 0 .. NbGates - 1
          /\ p + 1 # q + 1
      BY <2>3, <2>4
    <3>2. circuit.out[newGatesId[p + 1]] \notin
            {circuit.in0[newGatesId[q + 1]], circuit.in1[newGatesId[q + 1]],
             circuit.out[newGatesId[q + 1]]}
      BY <3>1, AssumptionsHold, Convert!LayerIsIndependent DEF Assumptions
    <3> QED BY <3>1, <3>2, GateInPlace
  <2> QED BY <1>3, <2>1, <2>2, <2>4
<1>6. Evaluate!LayersIndependent(starts)
  <2> HIDE DEF starts
  <2> QED BY <1>1, <1>2, <1>3, <1>4, <1>5 DEF Evaluate!LayersIndependent
<1> QED BY <1>6

--------------------------------------------------------------------------------
(***************************************************************************)
(* For any circuit and any team, independent layers are all that threads    *)
(* without a lock need of the conversion (evaluate.cpp:112-168).            *)
(***************************************************************************)
THEOREM ConvertedIsRaceFree ==
  Spec /\ []ConvertsToIndependentLayers => []NoDataRace
<1>1. Init => EvaluateInv
  BY DEF Init, EvaluateInv
<1>2. ConvertsToIndependentLayers /\ EvaluateInv /\ [Next]_vars => EvaluateInv'
  BY NextKeepsEvaluateInv
<1>3. ConvertsToIndependentLayers /\ EvaluateInv => NoDataRace
  BY EvaluateInvNoDataRace
<1> QED BY <1>1, <1>2, <1>3, PTL DEF Spec

(***************************************************************************)
(* For any circuit whose ids fit in their fields the conversion does what   *)
(* the threads ask of it (parallel_garbled_circuit.cpp:85-302).             *)
(***************************************************************************)
THEOREM ConversionIsIndependent ==
  Convert!IdsFit => (Spec => []ConvertsToIndependentLayers)
<1> SUFFICES ASSUME Convert!IdsFit PROVE Spec => []ConvertsToIndependentLayers
  OBVIOUS
<1>1. Init => Convert!IInv
  BY InitIsConverting
<1>2. Convert!IInv /\ [Next]_vars => Convert!IInv'
  BY NextKeepsConverting
<1>3. Convert!IInv => ConvertsToIndependentLayers
  BY ConvertingIsReady
<1> QED BY <1>1, <1>2, <1>3, PTL DEF Spec

(***************************************************************************)
(* So no thread ever touches a wire that another one writes at that time,   *)
(* whatever the circuit, the build, the size of the team and the order the  *)
(* threads run in (evaluate.cpp:112-168).                                   *)
(***************************************************************************)
THEOREM EvaluationIsRaceFree == Convert!IdsFit => (Spec => []NoDataRace)
<1> SUFFICES ASSUME Convert!IdsFit PROVE Spec => []NoDataRace
  OBVIOUS
<1> QED BY ConversionIsIndependent, ConvertedIsRaceFree, PTL

--------------------------------------------------------------------------------
(***************************************************************************)
(* That the whole implements CircuitEvaluation: a store of a thread is an   *)
(* EvaluateGate of the gate that was sorted to its place, the copy of the   *)
(* outputs is ReadOutputs, and every other step changes no value.           *)
(***************************************************************************)
Starts == [l \in 1 .. 4 |-> Convert!StartOf(layerCounts, l)]
TablesStarts == [l \in 1 .. 4 |-> Convert!StartOf(layerNonXorCounts, l)]

(* The evaluation has not begun, or its values are in their invariant. *)
EvaluateValues ==
  \/ Evaluate!Init
  \/ /\ pc = "done"
     /\ \E starts, tables : /\ starts = Starts /\ tables = TablesStarts
                            /\ Evaluate!ValuesInv(starts, tables)

LEMMA StartsOfConverted ==
  ASSUME Convert!IInv, NEW l \in 1 .. 4
  PROVE  Starts[l] = Convert!GateStart(l) /\ TablesStarts[l] = Convert!TablesStart(l)
BY DEF Starts, TablesStarts, Convert!GateStart, Convert!TablesStart

(* The gates of a layer, as the evaluator counts them, are in its places. *)
LEMMA GatesArePlaces ==
  ASSUME Convert!IInv, NEW l \in 1 .. nbLayers - 1
  PROVE  /\ \A n \in Evaluate!GatesOf(Starts, l) :
              n \in Int /\ n + 1 \in Int /\ Convert!GateStart(l) < n + 1
              /\ n + 1 <= Convert!GateStart(l + 1)
         /\ \A p \in Int : Convert!GateStart(l) < p /\ p <= Convert!GateStart(l + 1) =>
              p - 1 \in Evaluate!GatesOf(Starts, l)
<1>1. l \in 0 .. 4 /\ l + 1 \in 0 .. 4 /\ l \in 1 .. 4 /\ l + 1 \in 1 .. 4
  BY DEF Convert!IInv, Convert!TypeOK
<1>2. Convert!GateStart(l) \in Nat /\ Convert!GateStart(l + 1) \in Nat
  BY <1>1, AssumptionsHold, Convert!CountsAreNat DEF Assumptions
<1>3. Evaluate!GatesOf(Starts, l) = Convert!GateStart(l) .. Convert!GateStart(l + 1) - 1
  BY <1>1, StartsOfConverted DEF Evaluate!GatesOf
<1> QED BY <1>2, <1>3

(* The gate in the place that a layer's gate has. *)
LEMMA GateOfLayer ==
  ASSUME Convert!IInv, Convert!IdsFit, pc = "done", NEW l \in 1 .. nbLayers - 1,
         NEW n \in Evaluate!GatesOf(Starts, l)
  PROVE  LET g == newGatesId[n + 1]
         IN  /\ g \in Gates /\ n \in 0 .. NbGates - 1
             /\ Evaluate!GateAt(n) =
                  [xor |-> Convert!IsXor(g), in0 |-> circuit.in0[g],
                   in1 |-> circuit.in1[g], out |-> circuit.out[g]]
<1>1. /\ n \in Int /\ n + 1 \in Int /\ Convert!GateStart(l) < n + 1
      /\ n + 1 <= Convert!GateStart(l + 1)
  BY GatesArePlaces
<1>2. n + 1 \in 1 .. NbGates /\ newGatesId[n + 1] \in Convert!Gates
  BY <1>1, AssumptionsHold, Convert!LayerOfPlace DEF Assumptions
<1>3. n \in 0 .. NbGates - 1
  BY <1>1, <1>2, CircuitAssumption
<1> QED BY <1>2, <1>3, GateInPlace DEF Gates, Convert!Gates

LEMMA ConvertedIsEvaluable ==
  ASSUME Convert!IInv, Convert!IdsFit, pc = "done"
  PROVE  Evaluate!Evaluable(Starts)
<1>1. nbLayers \in 0 .. 4 /\ WellFormed(circuit)
  BY DEF Convert!IInv, Convert!TypeOK, WellFormed, Convert!WellFormed, Gates, Convert!Gates,
         Wires, Convert!Wires, Inputs, Convert!Inputs
<1>2. /\ pgc.nbInputs = NbInputs /\ pgc.nbWires = NbInputs + NbGates + 2
      /\ pgc.nbLayers = nbLayers /\ NbInputs \in Nat /\ NbGates \in Nat
      /\ Evaluate!LayersOfGates = 1 .. nbLayers - 1
  BY CircuitAssumption DEF pgc, Evaluate!LayersOfGates
<1>3. ASSUME NEW g \in Gates
      PROVE  circuit.out[g] \in pgc.nbInputs .. pgc.nbWires - 1
  <2>1. circuit.out[g] \in Wires \ Inputs
    BY <1>1 DEF WellFormed
  <2> QED BY <1>2, <2>1 DEF Wires, Inputs
<1>4. ASSUME NEW l \in 1 .. nbLayers - 1, NEW n \in Evaluate!GatesOf(Starts, l),
             NEW w \in {Evaluate!GateAt(n).in0, Evaluate!GateAt(n).in1}
      PROVE  Evaluate!Readable(Starts, l, w)
  <2>1. w \in {circuit.in0[newGatesId[n + 1]], circuit.in1[newGatesId[n + 1]]}
    BY GateOfLayer
  <2>2. /\ n + 1 \in Int /\ Convert!GateStart(l) < n + 1
        /\ n + 1 <= Convert!GateStart(l + 1)
    BY GatesArePlaces
  <2>3. \/ w \in Convert!Inputs
        \/ \E m \in 1 .. l - 1 : \E q \in 1 .. NbGates :
             /\ Convert!GateStart(m) < q /\ q <= Convert!GateStart(m + 1)
             /\ w = circuit.out[newGatesId[q]]
    BY <2>1, <2>2, AssumptionsHold, Convert!ReadsAreEarlier DEF Assumptions
  <2>4. ASSUME NEW m \in 1 .. l - 1, NEW q \in 1 .. NbGates, Convert!GateStart(m) < q,
               q <= Convert!GateStart(m + 1), w = circuit.out[newGatesId[q]]
        PROVE  \E p \in Evaluate!GatesOf(Starts, m) : w = Evaluate!GateAt(p).out
    <3>1. m \in 1 .. nbLayers - 1 /\ q \in Int
      BY <1>1
    <3>2. q - 1 \in Evaluate!GatesOf(Starts, m) /\ q = (q - 1) + 1
      BY <2>4, <3>1, GatesArePlaces
    <3>3. Evaluate!GateAt(q - 1).out = circuit.out[newGatesId[q]]
      BY <3>1, <3>2, GateOfLayer
    <3> QED BY <2>4, <3>2, <3>3
  <2> QED BY <1>2, <2>3, <2>4 DEF Evaluate!Readable, Convert!Inputs
<1>5. ASSUME NEW l \in 1 .. nbLayers - 1, NEW n \in Evaluate!GatesOf(Starts, l),
             NEW m \in 1 .. nbLayers - 1, NEW p \in Evaluate!GatesOf(Starts, m),
             Evaluate!GateAt(n).out = Evaluate!GateAt(p).out
      PROVE  l = m /\ n = p
  <2>1. circuit.out[newGatesId[n + 1]] = circuit.out[newGatesId[p + 1]]
    BY <1>5, GateOfLayer
  <2>2. /\ n \in Int /\ n + 1 \in Int /\ Convert!GateStart(l) < n + 1
        /\ n + 1 <= Convert!GateStart(l + 1)
        /\ p \in Int /\ p + 1 \in Int /\ Convert!GateStart(m) < p + 1
        /\ p + 1 <= Convert!GateStart(m + 1)
    BY GatesArePlaces
  <2>3. l = m /\ n + 1 = p + 1
    BY <2>1, <2>2, AssumptionsHold, Convert!OutputsHaveOnePlace DEF Assumptions
  <2> QED BY <2>2, <2>3
<1>6. ASSUME NEW l \in 1 .. nbLayers - 1, NEW n \in Evaluate!GatesOf(Starts, l)
      PROVE  Evaluate!GateAt(n).out \in pgc.nbInputs .. pgc.nbWires - 1
  BY <1>3, GateOfLayer
<1>7. pgc.nbInputs \in Nat /\ pgc.nbWires \in Nat /\ pgc.nbInputs <= pgc.nbWires
  BY <1>2
<1> HIDE DEF Starts
<1> QED BY <1>2, <1>4, <1>5, <1>6, <1>7 DEF Evaluate!Evaluable

LEMMA ConvertedCountsTables ==
  ASSUME Convert!IInv
  PROVE  Evaluate!TablesCounted(TablesStarts)
<1>1. nbLayers \in 0 .. 4 /\ pgc.nbLayers = nbLayers
      /\ pgc.layerNonXorCounts = layerNonXorCounts
  BY DEF Convert!IInv, Convert!TypeOK, pgc
<1>2. TablesStarts[1] = 0
  BY AssumptionsHold, StartsOfConverted, Convert!StartsAre DEF Assumptions
<1>3. ASSUME NEW l \in 1 .. nbLayers - 1
      PROVE  TablesStarts[l + 1] = TablesStarts[l] + layerNonXorCounts[l]
  <2>1. l \in 0 .. 4 /\ l \in 1 .. 3 /\ l \in 1 .. 4 /\ l + 1 \in 1 .. 4
    BY <1>1
  <2>2. Convert!TablesStart(l + 1) = Convert!TablesStart(l) + layerNonXorCounts[l]
    BY <2>1, AssumptionsHold, Convert!CountsAreNat DEF Assumptions
  <2> QED BY <2>1, <2>2, StartsOfConverted
<1> QED BY <1>1, <1>2, <1>3 DEF Evaluate!TablesCounted, Evaluate!LayersOfGates

(* The values are in their invariant from the end of the conversion on. *)
LEMMA ReadyIsValuesInv ==
  ASSUME Convert!IInv, Convert!IdsFit, EvaluateValues, pc = "done"
  PROVE  Evaluate!ValuesInv(Starts, TablesStarts)
<1>1. CASE Evaluate!Init
  <2>1. Evaluate!LayersIndependent(Starts)
    BY ConvertingIsReady DEF ConvertsToIndependentLayers, Starts
  <2>2. Evaluate!Evaluable(Starts) /\ Evaluate!TablesCounted(TablesStarts)
    BY ConvertedIsEvaluable, ConvertedCountsTables
  <2> QED BY <1>1, <2>1, <2>2, AssumptionsHold, Evaluate!InitValues DEF Assumptions
<1> QED BY <1>1 DEF EvaluateValues

LEMMA NextKeepsEvaluateValues ==
  ASSUME Convert!IInv, Convert!IdsFit, EvaluateValues, [Next]_vars
  PROVE  EvaluateValues'
<1>1. CASE pc # "done"
  <2>1. Evaluate!Init
    BY <1>1 DEF EvaluateValues
  <2>2. UNCHANGED evaluateVars
    BY <1>1 DEF Next, ConvertNext, Converted, vars
  <2> QED BY <2>1, <2>2, InitStays DEF EvaluateValues
<1>2. CASE pc = "done"
  <2>1. PICK starts, tables : /\ starts = Starts /\ tables = TablesStarts
                              /\ Evaluate!ValuesInv(starts, tables)
    BY <1>2, ReadyIsValuesInv
  <2>2. ~ ConvertNext
    BY <1>2, ConversionIsOver
  <2>3. UNCHANGED convertVars /\ [Evaluate!Next]_Evaluate!vars
    <3>1. CASE \/ Converted(Evaluate!CopyInputs)
               \/ \E t \in Evaluate!Threads : Converted(Evaluate!ThreadNext(t))
               \/ Converted(Evaluate!CopyOutputs)
      BY <3>1 DEF Converted, Evaluate!Next
    <3>2. CASE UNCHANGED vars
      BY <3>2 DEF vars, convertVars, evaluateVars, pgc, Evaluate!vars, Evaluate!teamVars
    <3> QED BY <2>2, <3>1, <3>2 DEF Next
  <2>4. Evaluate!ValuesInv(starts, tables)'
    BY <2>1, <2>3, AssumptionsHold, Evaluate!NextKeepsValues DEF Assumptions
  <2>5. pc' = "done" /\ starts = Starts' /\ tables = TablesStarts'
    BY <1>2, <2>1, <2>3 DEF convertVars, Starts, TablesStarts, Convert!StartOf
  <2> QED BY <2>4, <2>5 DEF EvaluateValues
<1> QED BY <1>1, <1>2

--------------------------------------------------------------------------------
(* The values of the wires, and that a step leaves them alone. *)
LEMMA ConversionChangesNoValue ==
  ASSUME ConvertNext
  PROVE  UNCHANGED Reference!vars
<1>1. UNCHANGED <<circuit, phase, wires, outputsMap>>
  BY DEF ConvertNext, evaluateVars, Convert!Next, Convert!AssignLayer,
         Convert!AbortLayers, Convert!WritePastLayers, Convert!MakeBuckets,
         Convert!BucketNonXor, Convert!BucketXor, Convert!WritePastBuckets,
         Convert!StartOrder, Convert!OrderSublayer, Convert!StartPack, Convert!PackGate,
         Convert!Finish, Convert!buildVars
<1> QED BY <1>1 DEF Reference!vars, Valued

LEMMA CopyInputsChangesNoValue ==
  ASSUME Converted(Evaluate!CopyInputs)
  PROVE  UNCHANGED Reference!vars
<1>1. /\ phase = "inputs" /\ phase' = "gates" /\ UNCHANGED <<circuit, outputsMap>>
      /\ wires' = [w \in 0 .. pgc.nbWires - 1 |->
                     IF w < pgc.nbInputs THEN Evaluate!InputValue(w) ELSE Evaluate!NoValue]
  BY DEF Converted, convertVars, Evaluate!CopyInputs
<1>2. /\ NbInputs \in Nat /\ NbGates \in Nat
      /\ pgc.nbInputs = NbInputs /\ pgc.nbWires = NbInputs + NbGates + 2
  BY CircuitAssumption DEF pgc
<1>3. \A w \in Wires : wires'[w] = IF w < NbInputs THEN InputValue(w) ELSE NoValue
  <2>1. \A w \in Wires : w \in 0 .. pgc.nbWires - 1
    BY <1>2 DEF Wires
  <2> QED BY <1>1, <1>2, <2>1 DEF Evaluate!InputValue, InputValue, Evaluate!NoValue, NoValue
<1>4. \A w : InputValue(w) # NoValue
  BY DEF InputValue, NoValue
<1>5. { v \in Wires : wires'[v] # NoValue } = Inputs
  BY <1>2, <1>3, <1>4 DEF Wires, Inputs
<1>6. Inputs \subseteq Wires /\ \A w \in Inputs : w < NbInputs
  BY <1>2 DEF Inputs, Wires
<1>7. Valued' = [w \in Inputs |-> wires'[w]]
  BY <1>1, <1>5 DEF Valued, Inputs, Wires
<1>8. Valued' = Valued
  BY <1>1, <1>3, <1>6, <1>7 DEF Valued
<1> QED BY <1>1, <1>8 DEF Reference!vars

LEMMA OtherTurnsChangeNoValue ==
  ASSUME UNCHANGED convertVars, NEW t \in Evaluate!Threads,
         Evaluate!Fetch(t) \/ Evaluate!ReachBarrier(t) \/ Evaluate!LeaveBarrier(t)
  PROVE  UNCHANGED Reference!vars
<1>1. UNCHANGED <<circuit, phase, wires, outputsMap>>
  BY DEF convertVars, Evaluate!Fetch, Evaluate!ReachBarrier, Evaluate!LeaveBarrier
<1> QED BY <1>1 DEF Reference!vars, Valued

(* A turn computes what the gate gives that was sorted to its place: a gate   *)
(* that is not XOR finds its own table there.                                 *)
LEMMA TurnComputesGate ==
  ASSUME Convert!IInv, Convert!IdsFit, pc = "done",
         Evaluate!ValuesInv(Starts, TablesStarts), NEW t \in Evaluate!Threads,
         Evaluate!InLoop(t), threadLayer[t] \in 1 .. nbLayers - 1,
         gate[t] \in Evaluate!GatesOf(Starts, threadLayer[t])
  PROVE  LET g == newGatesId[gate[t] + 1]
         IN  Evaluate!Computed(t) =
               Reference!GateValue(g, wires[circuit.in0[g]], wires[circuit.in1[g]])
<1> DEFINE l == threadLayer[t]
           n == gate[t]
           g == newGatesId[n + 1]
           A == wires[circuit.in0[g]]
           B == wires[circuit.in1[g]]
<1>1. /\ Evaluate!GateOf(t) = [xor |-> Convert!IsXor(g), in0 |-> circuit.in0[g],
                               in1 |-> circuit.in1[g], out |-> circuit.out[g]]
  BY GateOfLayer DEF Evaluate!GateOf
<1>2. l \in 1 .. 4 /\ l \in 0 .. 4 /\ l + 1 \in 1 .. 4 /\ l + 1 \in 0 .. 4
  <2>1. nbLayers \in 0 .. 4
    BY DEF Convert!IInv, Convert!TypeOK
  <2> HIDE DEF l
  <2> QED BY <2>1 DEF l
<1>3. /\ range[t].startGate = Convert!GateStart(l)
      /\ range[t].startTableIndex = Convert!TablesStart(l)
  <2>1. range[t].startGate = Starts[l] /\ range[t].startTableIndex = TablesStarts[l]
    BY DEF Evaluate!ValuesInv, Evaluate!IInv, Evaluate!InRanges, Evaluate!InRange,
           Evaluate!AtTables
  <2> QED BY <1>2, <2>1, StartsOfConverted
<1>4. ASSUME ~ Convert!IsXor(g)
      PROVE  pgc.garbledTable[Evaluate!TableIndex(t) + 1] = g
  <2>1. Convert!EvaluatorFindsTables
    BY AssumptionsHold, Convert!IInvEvaluatorFindsTables DEF Assumptions
  <2>2. /\ n \in Int /\ Convert!GateStart(l) < n + 1 /\ n + 1 <= Convert!GateStart(l + 1)
        /\ Convert!GateStart(l) \in Nat /\ Convert!GateStart(l + 1) \in Nat
        /\ Convert!TablesStart(l) \in Nat
    BY <1>2, GatesArePlaces, AssumptionsHold, Convert!CountsAreNat DEF Assumptions
  <2>3. n \in Convert!StartOf(layerCounts, l) .. Convert!StartOf(layerCounts, l + 1) - 1
    <3> HIDE DEF n
    <3> QED BY <2>2 DEF Convert!GateStart
  <2>4. garbledTable[Convert!TablesStart(l) + n - Convert!GateStart(l) + 1] = g
    BY <1>4, <2>1, <2>3 DEF Convert!EvaluatorFindsTables, Convert!TablesStart,
                            Convert!GateStart
  <2> QED BY <1>3, <2>4 DEF pgc, Evaluate!TableIndex
<1>5. Convert!IsXor(g) <=> circuit.type[g] = XOR
  BY DEF Convert!IsXor, Convert!XOR, XOR
<1>6. CASE Convert!IsXor(g)
  <2>1. Evaluate!Computed(t) = Evaluate!XorValue(A, B)
    BY <1>1, <1>6 DEF Evaluate!Computed
  <2> QED BY <1>5, <1>6, <2>1 DEF Reference!GateValue, Reference!XOR, XOR,
                                  Reference!XorValue, Evaluate!XorValue
<1>7. CASE ~ Convert!IsXor(g)
  <2>1. Evaluate!Computed(t) = Evaluate!TableValue(g, A, B)
    BY <1>1, <1>4, <1>7 DEF Evaluate!Computed
  <2> QED BY <1>5, <1>7, <2>1 DEF Reference!GateValue, Reference!XOR, XOR,
                                  Reference!TableValue, Evaluate!TableValue
<1> QED BY <1>6, <1>7

(* The wires are those of the evaluator, which says NoValue as we do. *)
LEMMA EvaluatorsWires ==
  /\ Wires = 0 .. pgc.nbWires - 1 /\ pgc.nbLayers = nbLayers
  /\ \A w : Evaluate!HasValue(w) <=> wires[w] # NoValue
  /\ Evaluate!LayersOfGates = 1 .. nbLayers - 1
<1>1. pgc.nbWires = NbInputs + NbGates + 2 /\ pgc.nbLayers = nbLayers
  BY DEF pgc
<1>2. NbInputs \in Nat /\ NbGates \in Nat
  BY CircuitAssumption
<1>3. Wires = 0 .. pgc.nbWires - 1
  BY <1>1, <1>2 DEF Wires
<1> QED BY <1>1, <1>3 DEF Evaluate!HasValue, Evaluate!NoValue, NoValue,
                          Evaluate!LayersOfGates

(* A wire that gets a value is one more that has one. *)
LEMMA OneValueMore ==
  ASSUME phase # "inputs", phase' = phase, wires = [w \in Wires |-> wires[w]],
         NEW out \in Wires, NEW value, value # NoValue,
         wires' = [wires EXCEPT ![out] = value]
  PROVE  Valued' = [w \in DOMAIN Valued \cup {out} |->
                      IF w = out THEN value ELSE Valued[w]]
<1> DEFINE before == { v \in Wires : wires[v] # NoValue }
           after == { v \in Wires : wires'[v] # NoValue }
<1>1. \A w \in Wires : wires'[w] = IF w = out THEN value ELSE wires[w]
  OBVIOUS
<1>2. after = before \cup {out}
  BY <1>1
<1>3. Valued = [w \in before |-> wires[w]]
  BY DEF Valued
<1>4. Valued' = [w \in after |-> wires'[w]]
  BY DEF Valued, Wires
<1>5. before \subseteq Wires /\ after \subseteq Wires
  OBVIOUS
<1> HIDE DEF before, after
<1>6. \A w \in after : wires'[w] = IF w = out THEN value ELSE Valued[w]
  BY <1>1, <1>2, <1>3, <1>5
<1> QED BY <1>2, <1>3, <1>4, <1>6

LEMMA StoreIsEvaluateGate ==
  ASSUME Convert!IInv, Convert!IdsFit, pc = "done", UNCHANGED convertVars,
         Evaluate!ValuesInv(Starts, TablesStarts), NEW t \in Evaluate!Threads,
         Evaluate!Store(t)
  PROVE  \E g \in Reference!Gates : Reference!EvaluateGate(g)
<1> DEFINE l == threadLayer[t]
           n == gate[t]
           g == newGatesId[n + 1]
           gateAt == Evaluate!GateAt(n)
<1>1. /\ l \in Evaluate!LayersOfGates /\ n \in Evaluate!GatesOf(Starts, l)
      /\ \A w \in {gateAt.in0, gateAt.in1} : w \in 0 .. pgc.nbWires - 1 /\ Evaluate!HasValue(w)
      /\ ~ Evaluate!HasValue(gateAt.out) /\ gateAt.out \in 0 .. pgc.nbWires - 1
      /\ wires' = [wires EXCEPT ![gateAt.out] = Evaluate!Computed(t)]
  BY AssumptionsHold, Evaluate!StoreEvaluates DEF Assumptions
<1>2. /\ Evaluate!InLoop(t) /\ phase = "gates" /\ phase' = phase /\ outputsMap' = outputsMap
      /\ circuit' = circuit
  BY DEF Evaluate!Store, Evaluate!InLoop, convertVars
<1>3. l \in 1 .. nbLayers - 1
  BY <1>1, EvaluatorsWires
<1>4. /\ g \in Gates
      /\ gateAt = [xor |-> Convert!IsXor(g), in0 |-> circuit.in0[g],
                   in1 |-> circuit.in1[g], out |-> circuit.out[g]]
  BY <1>1, <1>3, GateOfLayer
<1>5. Evaluate!Computed(t) =
        Reference!GateValue(g, wires[circuit.in0[g]], wires[circuit.in1[g]])
  BY <1>1, <1>2, <1>3, TurnComputesGate
<1>6. /\ gateAt.in0 = circuit.in0[g] /\ gateAt.in1 = circuit.in1[g]
      /\ gateAt.out = circuit.out[g]
  BY <1>4
<1> DEFINE in0 == circuit.in0[g]
           in1 == circuit.in1[g]
           out == circuit.out[g]
           value == Evaluate!Computed(t)
<1>7. /\ in0 \in Wires /\ in1 \in Wires /\ out \in Wires
      /\ wires[in0] # NoValue /\ wires[in1] # NoValue /\ ~ (wires[out] # NoValue)
      /\ wires' = [wires EXCEPT ![out] = value]
  BY <1>1, <1>6, EvaluatorsWires
<1>8. value # NoValue
  BY AssumptionsHold, Evaluate!ComputedIsValue DEF Assumptions, Evaluate!NoValue, NoValue
<1>9. wires = [w \in Wires |-> wires[w]]
  BY <1>2, EvaluatorsWires DEF Evaluate!ValuesInv, Evaluate!Arrays
<1> HIDE DEF l, n, g, gateAt, value, in0, in1, out
<1>10. Valued' = [w \in DOMAIN Valued \cup {out} |-> IF w = out THEN value ELSE Valued[w]]
  BY <1>2, <1>7, <1>8, <1>9, OneValueMore
<1>11. Valued = [w \in { v \in Wires : wires[v] # NoValue } |-> wires[w]]
  BY <1>2 DEF Valued
<1>12. in0 \in DOMAIN Valued /\ in1 \in DOMAIN Valued /\ out \notin DOMAIN Valued
  BY <1>7, <1>11
<1>13. Valued[in0] = wires[in0] /\ Valued[in1] = wires[in1]
  BY <1>7, <1>11
<1>14. value = Reference!GateValue(g, Valued[in0], Valued[in1])
  BY <1>5, <1>13 DEF in0, in1, value
<1>15. g \in Reference!Gates
  BY <1>4 DEF Reference!Gates, Gates
<1>16. Reference!EvaluateGate(g)
  BY <1>2, <1>10, <1>12, <1>14 DEF Reference!EvaluateGate, in0, in1, out
<1> QED BY <1>15, <1>16

LEMMA CopyOutputsIsReadOutputs ==
  ASSUME Convert!IInv, Convert!IdsFit, pc = "done", UNCHANGED convertVars,
         Evaluate!ValuesInv(Starts, TablesStarts), Evaluate!CopyOutputs
  PROVE  Reference!ReadOutputs
<1>1. /\ phase = "gates" /\ phase' = "done" /\ wires' = wires /\ circuit' = circuit
      /\ outputsMap' = [k \in DOMAIN pgc.outputs |-> wires[pgc.outputs[k]]]
      /\ pgc.outputs = circuit.outputs
  BY DEF Evaluate!CopyOutputs, convertVars, pgc
<1>2. outputsMap = <<>>
  BY <1>1 DEF Evaluate!ValuesInv, Evaluate!Arrays
<1>3. Valued = [w \in { v \in Wires : wires[v] # NoValue } |-> wires[w]] /\ Valued' = Valued
  BY <1>1 DEF Valued
<1>4. WellFormed(circuit)
  BY DEF Convert!IInv, Convert!TypeOK, WellFormed, Convert!WellFormed, Gates, Convert!Gates,
         Wires, Convert!Wires, Inputs, Convert!Inputs
<1>5. ASSUME NEW g \in Gates
      PROVE  circuit.out[g] \in Wires /\ wires[circuit.out[g]] # NoValue
  <2>1. g \in Convert!Gates
    BY DEF Gates, Convert!Gates
  <2>2. PICK p \in 1 .. NbGates :
          LET l == Convert!LayerAt(g)
          IN  /\ newGatesId[p] = g /\ l \in 1 .. nbLayers - 1
              /\ Convert!GateStart(l) < p /\ p <= Convert!GateStart(l + 1)
    BY <2>1, AssumptionsHold, Convert!GateHasPlace DEF Assumptions
  <2> DEFINE l == Convert!LayerAt(g)
  <2>3. p \in Int /\ l \in 1 .. nbLayers - 1 /\ p = (p - 1) + 1
    BY <2>2
  <2>4. p - 1 \in Evaluate!GatesOf(Starts, l)
    BY <2>2, <2>3, GatesArePlaces
  <2>5. Evaluate!GateAt(p - 1).out = circuit.out[g]
    BY <2>2, <2>3, <2>4, GateOfLayer
  <2>6. Evaluate!HasValue(Evaluate!GateAt(p - 1).out)
    BY <2>3, <2>4, EvaluatorsWires, AssumptionsHold, Evaluate!AllWritten DEF Assumptions
  <2>7. circuit.out[g] \in Wires
    BY <1>4 DEF WellFormed
  <2> QED BY <2>5, <2>6, <2>7, EvaluatorsWires
<1>6. ASSUME NEW w \in Inputs
      PROVE  w \in Wires /\ wires[w] # NoValue
  <2>1. NbInputs \in Nat /\ NbGates \in Nat /\ pgc.nbInputs = NbInputs
    BY CircuitAssumption DEF pgc
  <2>2. w \in Wires /\ w \in 0 .. pgc.nbInputs - 1
    BY <2>1 DEF Inputs, Wires
  <2>3. wires[w] = Evaluate!InputValue(w)
    BY <1>1, <2>2 DEF Evaluate!ValuesInv, Evaluate!InputsStay
  <2> QED BY <2>2, <2>3 DEF Evaluate!InputValue, NoValue
<1>7. \A g \in Gates : circuit.out[g] \in DOMAIN Valued
  BY <1>3, <1>5
<1>8. ASSUME NEW k \in DOMAIN circuit.outputs
      PROVE  wires[circuit.outputs[k]] = Valued[circuit.outputs[k]]
  <2>1. circuit.outputs[k] \in Inputs \cup { circuit.out[g] : g \in Gates }
    BY <1>4 DEF WellFormed
  <2>2. circuit.outputs[k] \in Wires /\ wires[circuit.outputs[k]] # NoValue
    BY <1>5, <1>6, <2>1
  <2> QED BY <1>3, <2>2
<1>9. outputsMap' = [k \in DOMAIN circuit.outputs |-> Valued[circuit.outputs[k]]]
  BY <1>1, <1>8
<1> QED BY <1>1, <1>2, <1>3, <1>7, <1>9 DEF Reference!ReadOutputs, Reference!Gates, Gates

(* Every step of the whole is one of CircuitEvaluation, or changes no value.  *)
LEMMA NextImplementsReference ==
  ASSUME Convert!IInv, Convert!IdsFit, EvaluateValues, [Next]_vars
  PROVE  [Reference!Next]_Reference!vars
<1>1. CASE ConvertNext
  BY <1>1, ConversionChangesNoValue
<1>2. CASE Converted(Evaluate!CopyInputs)
  BY <1>2, CopyInputsChangesNoValue
<1>3. ASSUME NEW t \in Evaluate!Threads, Converted(Evaluate!ThreadNext(t))
      PROVE  [Reference!Next]_Reference!vars
  <2>1. pc = "done" /\ UNCHANGED convertVars /\ Evaluate!ThreadNext(t)
    BY <1>3 DEF Converted
  <2>2. CASE Evaluate!Store(t)
    BY <2>1, <2>2, ReadyIsValuesInv, StoreIsEvaluateGate DEF Reference!Next
  <2>3. CASE Evaluate!Fetch(t) \/ Evaluate!ReachBarrier(t) \/ Evaluate!LeaveBarrier(t)
    BY <2>1, <2>3, OtherTurnsChangeNoValue
  <2> QED BY <2>1, <2>2, <2>3 DEF Evaluate!ThreadNext
<1>4. CASE Converted(Evaluate!CopyOutputs)
  BY <1>4, ReadyIsValuesInv, CopyOutputsIsReadOutputs DEF Converted, Reference!Next
<1>5. CASE UNCHANGED vars
  BY <1>5 DEF vars, convertVars, evaluateVars, Reference!vars, Valued
<1> QED BY <1>1, <1>2, <1>3, <1>4, <1>5 DEF Next

LEMMA InitIsReferences ==
  ASSUME Init
  PROVE  Reference!Init
BY DEF Init, Convert!Init, Evaluate!Init, Reference!Init, Valued, Inputs, Reference!Inputs,
       InputValue, Reference!InputValue

(***************************************************************************)
(* For any circuit whose ids fit in their fields, either build, any team    *)
(* and any schedule: every gate is evaluated once, with its own table, on   *)
(* the final labels of its inputs, and the outputs are read when all gates  *)
(* are (evaluate.cpp:90-187 after parallel_garbled_circuit.cpp:43-302).     *)
(***************************************************************************)
THEOREM ImplementsCircuitEvaluation == Convert!IdsFit => (Spec => EvaluatesTheCircuit)
<1> SUFFICES ASSUME Convert!IdsFit PROVE Spec => EvaluatesTheCircuit
  OBVIOUS
<1> DEFINE Inv == Convert!IInv /\ EvaluateValues
<1>1. Init => Inv
  BY InitIsConverting DEF Init, EvaluateValues
<1>2. Inv /\ [Next]_vars => Inv'
  BY NextKeepsConverting, NextKeepsEvaluateValues
<1>3. Init => Reference!Init
  BY InitIsReferences
<1>4. Inv /\ [Next]_vars => [Reference!Next]_Reference!vars
  BY NextImplementsReference
<1> HIDE DEF Inv
<1> QED BY <1>1, <1>2, <1>3, <1>4, PTL DEF Spec, EvaluatesTheCircuit, Reference!Spec

================================================================================
