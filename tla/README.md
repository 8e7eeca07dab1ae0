# lib_garble in TLA+

lib_garble turns a boolean circuit into a *garbled* circuit and evaluates it. The library is a
pipeline:

    Skcd file -> GarbledCircuit -> ParallelGarbledCircuit -> (strip) -> packmsg -> evaluation
                 ctor, Garble()    ctor                       StripCircuit        EvaluateWithInputs
                                                              PackmsgFromPrepacket EvaluateWithPackmsg

All of it is sequential code with asserts that a release build (`NDEBUG`) compiles away, except the
evaluation, which OpenMP runs on a team of threads. What is hard is

* **order**: loops that overwrite labels other loops rely on, a worklist that never looks back,
  counts that one class collects and another one indexes by, threads with only barriers between them;
* **limits** the code has chosen for the circuits it was written for (four layers, 16-bit and 21-bit
  ids, four rounds of search), which only a debug build guards;
* **two objects that must belong together**: a circuit is stripped into a circuit and a prepackmsg,
  which go to different places and meet again at the client, late, repeatedly, or next to those of
  other circuits; calls throw in between, and objects are reused;
* **state that outlives its call**: the glyph cache and the last glyph of the FreeType singleton.

Paths below are relative to the repository's `src/`.

## 1. Inventory

| Component | State | Operations | Correct when |
|---|---|---|---|
| `justgarble/xor_gate_processor` | flags of XOR gates to do, an iterator | ctor, `GetNextSeedGate`, `MarkAsProcessed` | it yields the first remaining gate until none is left |
| `justgarble/xor_graph` | lookup tables (fixed), marks of the gates any search has returned | ctor, `FindAllGates` and its helpers | a search returns a connected set of XOR gates, in an order they can be labelled in |
| `justgarble/garble` (`GarbledCircuit`) | circuit, local `wires`, garbled tables and their index map, labels | ctor (Skcd), `Garble` | each gate, evaluated on labels, gives the label of its truth table |
| `justgarble/block`, `utils_block` | 128-bit blocks; one global seed | xor, double, AES, random blocks | the two labels of a wire differ in their lowest bit |
| `parallel_garbled_circuit` | layers, counts per layer, packed gates, tables | ctor, `ExtractLabels` | order and counts let threads find gates, tables and barriers |
| `evaluate` | shared `wires`, one turn of a loop per thread | `ParallelEvaluate`, `PatchInputs`, `MapOutputs`, `ApplyXormask` | every interleaving computes what a sequential run would |
| `packmsg`, `packmsg_helper`, `garble_helper` | prepackmsg, packmsg, the caller's circuit | `GarbleAndStrippedSkcdFromBuffer`, `StripCircuit`, `PrepareInputLabels`, `PrepareXormask`, `PackmsgFromPrepacket` | circuit and packet together show the digits and the message, and an exception leaves nothing that does not |
| `serialize_pgc`, `serialize_packmsg` | none; the object read into | write and read protobufs | what is read is what was written, in an object that may not be new |
| `watermark` | singleton: face and its size, glyph cache, previous glyph | `GetChar`, `InitGlyphsCache`, `DrawText` | a text is drawn as laid out, whatever was drawn before |
| `justgarble/garble_utils` | none | `findAllGates` (unused) | predecessor of `FindAllGates` |

How they interact. `Garble` owns an `XorGraph` and an `XorGateProcessor` and calls them in a loop:
next seed, search, one random offset R, labels of the gates found (`SetXorGateInput`,
`SetXorGateOutput`), `MarkAsProcessed`. The graph's marks and the processor's flags are two records
of the same thing, kept apart by nothing but this loop. Then `Garble` makes a table per gate that is
not XOR, from the labels as they are by then. The ctor of `ParallelGarbledCircuit` reads gates and
tables through getters (the tables through the index map), sorts them, and hands the evaluator an
order and counts; the evaluator recomputes from the counts which table belongs to which gate.

A server calls `GarbleAndStrippedSkcdFromBuffer` (garble, check the digits, strip), or
`GarbleSkcdFromBuffer` and `StripCircuit`, with a circuit and a prepackmsg of its own, and serializes
both; the circuit goes to clients, the prepackmsg is kept (packmsg/prepackmsg.h:58-63). For a message
`PackmsgFromPrepacket` draws a watermark of the size in the prepackmsg's config, xors it into the mask
and packs the mask. The client deserializes circuit and packet and calls `EvaluateWithPackmsg`, which
patches the input labels, evaluates, and applies the mask to the lowest bits of the outputs.

The hazards this gives rise to are in `PROJECT.json`, each at the line where it bites.

## 2. Modules

| Module | Models | EXTENDS / INSTANCE |
|---|---|---|
| `Circuit` | the circuit of an Skcd file; parameters `NbInputs`, `NbGates`, `Circuits` | |
| `XorWorklist` | abstract: the *set* of XOR gates that remain and its first element | |
| `XorGateProcessor` | the flags, the iterator, the scan | `XorWorklist` by refinement |
| `XorGateProcessor_proofs` | its theorems | `XorGateProcessor`, TLAPS |
| `Block` | labels, symbolic | |
| `GateEvaluation` | what the evaluator computes for one gate | `Block` |
| `XorGraph` | `FindAllGates`, round by round; `ConnectedGates`, its reference; `Supported` | `Circuit` |
| `Garble` | `GarbledCircuit::Garble` | `XorGraph`, `GateEvaluation`, instance of `XorGateProcessor_proofs` |
| `Garble_proofs` | its theorems | `Garble`, TLAPS |
| `GatePacking` | the 64-bit word of a gate: `Pack`, `Unpack`, what they do to ids that are too wide | |
| `ParallelGarbledCircuit` | the constructor, loop by loop, both builds | `Circuit`, `GatePacking` |
| `ParallelGarbledCircuit_proofs` | its theorems | `ParallelGarbledCircuit`, TLAPS |
| `WireValues` | the labels during evaluation, named after how they were obtained | |
| `CircuitEvaluation` | abstract: each gate once, on final inputs, in any order | `Circuit`, `WireValues` |
| `ParallelEvaluate` | the team of threads | `WireValues`, `GatePacking` |
| `ParallelEvaluate_proofs` | its theorems | `ParallelEvaluate`, TLAPS |
| `ConvertAndEvaluate` | conversion, then evaluation of its result | instances of the two `_proofs` above; implements `CircuitEvaluation` |
| `ConvertAndEvaluate_proofs` | its theorems, from those of the constructor and the evaluation | `ConvertAndEvaluate`, TLAPS |
| `GarbledLabels` | a circuit as an object with labels; `ExtractLabels`; parameters `Skcds`, `HalfZeroLabels` | |
| `PackmsgBits` | the mask: `XorBits`, `pack_bits64`, `ApplyXormask`; parameter `WordBits` | |
| `StrippedCircuit` | `StripCircuit`, `GarbleAndStrippedSkcdFromBuffer`, with their exceptions | `GarbledLabels`, `PackmsgBits` |
| `EvaluatePackmsg` | `EvaluateWithInputs`, `EvaluateWithPackmsg` | `GarbledLabels`, `PackmsgBits` |
| `Serialization` | the four write/read pairs of the protobufs | `GarbledLabels` |
| `BurnedCircuit` | abstract: circuits with digits burned in, and the images they show | `GarbledLabels` |
| `Packmsg` | server and client, composed of the three above | instance of `BurnedCircuit`, which it implements |
| `Packmsg_proofs` | its theorems about pairs, exceptions and masks | `Packmsg`, TLAPS |
| `PackmsgImplements_proofs` | the theorems that take what labels evaluate to: `Packmsg` implements `BurnedCircuit` | `Packmsg_proofs`, TLAPS |
| `FreeTypeWrapper` | the FreeType singleton and its cache | |
| `Watermark` | `DrawText`, call after call | `FreeTypeWrapper` |
| `Watermark_proofs` | its theorems | `Watermark`, TLAPS |
| `MCCircuits`, `MCGarble`, `MCParallelGarbledCircuit`, `MCConvertAndEvaluate`, `MCPackmsg`, `MCWatermark` | small sets of circuits, fonts and texts for TLC | |

A module that composes others takes its instances from their `_proofs` modules, which add theorems to
them and nothing else: so the theorems can be cited of the instance.

### How state and actions correspond to the code

* **XorGateProcessor.** `toBeProcessed` is `to_be_processed_`, `seedGateIt` the iterator as an
  index, `NbGates` being `end()`. `MarkAsProcessed(S)` clears the flags of `S` and scans from one
  past the smallest gate of `S` (from 0 when `S` is empty: `min_processed_gate++` wraps around).
  `Next` gives it any `S` that keeps the caller's side of the contract, the two assertions.
* **XorGraph.** A search is a sequence of rounds over `labels`; `allGates` is the vector it returns,
  `gatesIndexes` the marks that outlive it. `SeedAsserts` and `RoundAsserts` gather the assertions
  a debug build stops at. 0 is "no label" and "no gate" exactly where the code says so. The lists the
  code builds by pushing what is not in them yet are sets put in the order in which their elements are
  met first (`InOrder`, by a key). `ConnectedGates` is the least set closed under sharing a wire;
  `Supported` is stated by the levels of such a set: the gates that read a root, those driven by these
  alone, those driven by the latter alone.
* **Garble.** `pc` is the loop `Garble` is in; every turn of a loop is one action (`StartSearch`,
  `SearchRound`, `ChooseR`, `LabelXorGate`, `MarkSubgraph`, `NoMoreSeeds`, `GarbleNonXorGate`,
  `SetLabels`). `AbortSearch` is an assertion of a debug build that fails. A write past the index
  map may do nothing visible or be the end (`"lost"`). `try_emplace` keeps the entry that is there;
  an index is kept as `ToInt16` reads it back.
* **Block.** A block is the set of the independent random values it is the exclusive or of; its
  lowest bit is a member of its own, so that point-and-permute is checked and not assumed. The mask
  of a table entry, `K ^ AES(K)`, is one atom named after both labels and the tweak.
* **ParallelGarbledCircuit.** `pc` and `i` are the loop and its counter. The vectors of four layers
  and the 16 bits of input 0 are real: what does not fit ends in `AbortLayers` (debug),
  `WritePastLayers` or `WritePastBuckets` (release). The third loop
  makes the order one sublayer at a time, the gates that are not XOR before the buckets of a layer
  (`OrderSublayer`). `"lost"` stands for whatever follows a write out of
  bounds; it is not followed, and no property depends on it. A packed gate is a number, put together and taken apart by shifts of `PackBits`.
  A table is named after the gate of the `GarbledCircuit` that owns it.
* **ParallelEvaluate.** Thread `t` takes every `NbThreads`-th gate of a layer (`schedule(static,
  1)`). `Fetch` reads both inputs and computes, `Store` writes the output; other threads may come
  between. Every thread adds up for itself the counts that tell where its layer is (`range`).
  `ReachBarrier` / `LeaveBarrier` are the barrier at the end of a layer. An uninitialised
  wire is `NoValue`, a value of its own.

* **GarbledLabels.** Here a label is named after garbling, wire and bit, and a garbling is a number.
  `Skcds` are circuits whose outputs are given as formulas (a sum of products), enough to tell which
  labels an output depends on and whether tables are involved. That evaluation gives the label of
  the output's bit when its labels and tables belong together is what `GatesEvaluate` and
  `EvaluatesTheCircuit` check of the detailed models; that it gives nothing meaningful otherwise
  (`Garbage`, whose lowest bit is `AnyBit`) is the purpose of garbling.
* **StrippedCircuit, EvaluatePackmsg.** An operation is a record: its outcome and what becomes of its
  objects. `"throw"` is an exception that reaches the caller. `"lost"` is the end of the process: a
  failed assertion, an exception inside a parallel region (`MapOutputs`), or memory that is not the
  process's own. Both builds are in the model, call by call (`ndebug`). One with assertions stops at
  the first that fails (`StripAsserts`). One without goes on: with too few digits, or too many,
  `StripCircuit` *returns*, and leaves a stripped circuit next to labels that do not fit it; labels past
  those of the circuit are whatever memory holds (`Garbage`), where it can be read (`readable`).
  `GarbleAndStrippedSkcdFromBuffer` checks the digits itself. `MapOutputs` without assertions leaves
  surplus labels unread. A packet for more inputs than the circuit has is written past the vector of
  labels, which a process survives or not (`survives`).
* **Packmsg.** `pgc` and `prePackmsg` are the server's objects, `published` what it has serialized
  (with the digits of the strip, a history like `strippedWith`),
  `client` the object that circuits are read into (`reads` is a history of which), `packmsg` the
  client's packet with a history of its request, `last` and `shown` the last call and what it
  returned. Every call may come at any time. A process that ends is started again with new objects;
  what was published is not lost.
* **Serialization.** `ReadProtobuf` assigns counts, gates and key, appends labels and tables, and
  leaves config entries that are there; so the model of an object can hold the labels of two
  circuits, of which `ExtractLabels` uses the first.
* **FreeTypeWrapper, Watermark.** `freeType` is the singleton; it lives on between calls. `draw` holds
  the local variables of `DrawText`; a turn of its loop is a step. Pixels are indexes of the image,
  computed modulo `UintRange` as the code's unsigned arithmetic does. The image is the set of pixels
  that are 255, those that `WatermarkToBits` makes 1. `GetInstance` may throw while there is no
  instance.

### Restrictions the models state

`GarbledLabels!IsSkcd` is what `StripCircuit` asserts of a display (seven segments per digit, then the
random inputs, then the constant), with a config that is complete or empty; other circuits have no
config. Digits are numbers, lowest bits are bits (`PackmsgAssumption`), and the labels of every garbling
are its own.

`Circuit!WellFormed` is what the producer of Skcd files delivers: topological order, one driver per
wire. It is an assumption: the code that reads these files checks none of it. `XorGraph!Supported` and `ParallelGarbledCircuit!Fits` characterise, *in terms of the circuit
alone*, which circuits the code can handle. They are results as much as restrictions: the runs show
that supported circuits are handled (with no assertion firing), and the violation runs show what
happens to others.

## 3. Runs

| Run | Instance | States | Question |
|---|---|---|---|
| `xor_gate_processor` | 8 gates, every vector of flags, every subgraph | 256 | does the scan that never looks back behave as the set? |
| `garble` | 7 inputs, 4 gates, 9,960 circuits, both builds | 211,146 | search, relabelling, worklist and tables together |
| `garble_adder` | full adder with every gate type and every combination of five permutation bits; a three-level circuit, both builds | 19,296 | truth tables, point and permute, termination |
| `pgc` | 5 inputs, 4 gates, chains/forks/diamonds, ids up to 8 against a `MaxId` of 6, both builds | 57,495 | order, counts, tables, limits |
| `convert_and_evaluate` | 32 adders and a five-layer circuit, 3 threads, release | 6,400 | races, barriers, the result, termination |
| `packmsg` | a display of 5 digits, 1 random input and 3 pixels, and a circuit that is no display; 2 garblings, 2 published, 2 reads per object; words of 2 bits; both builds | 119,380 | does the client see what the server burned, whatever else was called? |
| `watermark` | 2 fonts, 7 texts, 2 sizes, any sequence of calls | 12,662 | is each text drawn as laid out? |
| `garble_tree` | one circuit | | *violated*: garble.cpp:220-221 |
| `garble_gate_id` | one circuit | | *violated*: xor_graph.h:140-142 |
| `garble_late_and` | one circuit | | *violated*: garble.cpp:269-272 |
| `pgc_wide_ids` | fields of 3 bits | | *violated*: parallel_garbled_circuit.cpp:278-283 |
| `packmsg_no_otp` | a display without digits | | *violated*: packmsg_utils.cpp:478 |

Properties, and the code they are about:

* `NoGateSkipped`, `SeedsIncrease`, `RefinesWorklist`, `EveryGateProcessed`: the worklist.
* `GatesEvaluate`: for **every** gate and every two input bits, evaluation of the gate from the
  labels gives the label of the truth-table bit. It takes one offset on all wires of a connected set,
  tables made from final labels, the right permutation and the right index.
* `TablesEvaluate`: the part of it that holds for any circuit, supported or not: tables evaluate to the
  label of their gate's output, as long as indexes fit in 16 bits.
* `PermuteBitsDiffer`: the two labels of a wire never agree in their lowest bit, whatever XOR gates
  rewrite, supported circuit or not.
* `SupportedSearchIsRecursive`: on a supported circuit the four-round search finds exactly what the
  depth-first search it replaced finds; `SupportedIsNotRefused`: in a debug build the one assertion
  that such a circuit can fail is the one about speed, that 16 places are reserved for root inputs (no
  circuit of a run has as many). `KeepsProcessorContract`: on *any* circuit no gate is
  given to `MarkAsProcessed` twice, and what a debug build gives it is in order. `ProcessedWiresKeepLabels`: no step rewrites
  a label a finished subgraph relies on.
* `SupportedIsGarbled`, `FittingIsConverted`, `FittingIsEvaluated`: no assertion, no endless loop,
  no thread that waits for ever.
* `EveryGateOnce`, `BarrierSeparates`, `EvaluatorFindsTables`, `XorGatesByInput0`: what the evaluator
  relies on in the constructor's result. `PackedGatesUnpack`: a gate survives its packing.
* `ConvertsToIndependentLayers`: the packed gates and the counts give layers in which no gate reads
  or writes what another one writes. `NoDataRace`: no two turns under way at once touch a wire that
  one of them writes.
  `EvaluatesTheCircuit`: refinement of `CircuitEvaluation`: each gate once, with its own table, on
  final values, outputs last.

* `ShowsBurnedCircuit`: refinement of `BurnedCircuit`. What is burned is read off the published labels
  alone; every evaluation with the packet of the circuit that was read then shows the digits and the
  text asked for, whatever the client passes for the inputs of the digits, and its own choice for
  the random inputs, shuffled. It is about circuits stripped with digits that fit the display (or with
  none); strips with others come between and burn nothing. Packets with a label of which one half is zero are left out, since
  `PatchInputs` takes it for no value; `NoOtherMessage` covers them.
* `PairMatches`: a stripped circuit and the prepackmsg beside it, at the server and published, are of
  one garbling, and share out its labels if the digits of the strip fit. It takes that no exception comes between the changes to the two.
  `ThrowsLeaveObjects` says so of all calls, and names the one exception: after
  `GarbleAndStrippedSkcdFromBuffer` throws, the caller's circuit is already the new one.
  `WholeCircuitEvaluates` shows that this circuit is at least usable.
* `NoOtherMessage`: with a packet of another circuit, or in an object that several circuits were read
  into, a pixel that needs the packet is as the packet's circuit has it or noise; the digits of the
  packet fit, those that the circuits were stripped with need not. (A pixel of an
  output that depends on no digit and no constant is shown whatever the packet: the attempt to prove
  the property for all pixels found this.)
* `DrawsLayout`: the image is the union of the glyphs at the places a layout in lines gives them,
  clipped. The layout is stated from the text alone, not from the loop's variables, and says what the
  code does with newlines before the first character (the baseline stays on the first line for one
  newline, and both offsets grow for more). `CacheIsTheFont`: no cached entry differs from the font.

### Bounds, and why they are enough

* *Four gates* give every way two subgraphs can meet: a shared input, an output read by the other
  set's gate, a gate reading both sets, chains of three levels. Circuits are in two families: labels
  far from 0 (shared wires in every way) and labels 0 to 3 (label 0, labels that are gate ids).
  Supported circuits with two subgraphs, and with three levels, occur in them in the hundreds.
* *Lowest bits of labels* are all 0 in `garble` (they do not influence the search or the
  relabelling) and take every combination on the adder's table inputs in `garble_adder`.
* *`MaxId` = 6, `PackBits` = 4* put both widths between labels that occur, as 16 and 21 bits are
  between labels that may occur. An input 0 of 6 is the largest id, with which the minimum of its layer
  seems untouched; one of 7 is truncated to 0. In `pgc_wide_ids` `PackBits` is 3.
* *Three threads* on layers of 6, 2 and 1 gates: threads with two turns, one turn and none. Wires are
  named by how their value was obtained, so a value computed too early is seen at the output.
* *A display* of 5 digits takes each digit from 0 to 9 in one of its two good choices; the bad ones are
  four digits too few, one too many, and a digit past 9. One label of the second garbling has a zero
  half: that of a segment which the second pixel reads and which one of the good choices lights. Its outputs read segments, the random input and the constant,
  with and without a gate that is not XOR. *Three outputs with words of two bits* make a full and a
  partly filled word. *Two garblings, two published circuits, two reads* are the smallest numbers
  with a circuit that is not the packet's and an object that was used before.
* *Glyphs* start left of the pen and above the line, so that the first ones wrap around, and reach
  past the image; `UintRange` is 2^16 instead of 2^32, larger than any position that occurs.
* *Builds.* `ndebug` is chosen at first: a debug build stops at a failed assertion, a release build
  goes on with whatever it has. Garbling and conversion run as both. The evaluation runs as a release
  build (its own assertions are about sizes).

### Fairness

`Garble`, the worklist and the constructor are single threads in a loop: weak fairness of their
next-state relation says only that the thread runs. `ParallelEvaluate` has weak fairness for each
thread of the team: OpenMP's barriers block until all threads come, and the operating system runs
each of them. No strong fairness is used anywhere.

Deadlock is not checked where these programs end. `packmsg` and `watermark` model processes that serve
one call after the other: they are checked for deadlock and state no fairness, since nothing obliges a
server or a client to call.

## 4. Proofs

Every theorem is for all values of the constants: any circuits, bounds, teams, texts. The assumptions
on the constants are named next to them (`CircuitAssumption`: circuits are `WellFormed` and builds
Booleans; `PackmsgAssumption`, `FontsAssumption`, ...); hypotheses that
theorems have of their own, `IdsFit`, `TablesFit` and `PositionsFit`, are stated with them.

### The worklist: `XorGateProcessor_proofs`

* `TypeCorrect`, `NoGateIsSkipped`, `SeedsAlwaysIncrease` (an action property), and `ImplementsWorklist`:
  `Spec => RefinesWorklist`.

`NoGateSkipped` (nothing before the iterator waits, and the iterator is at a gate that waits) is
inductive together with `TypeOK`. The heart is `ScanStartsAfterSeed`: a subgraph holds the seed and only
waiting gates, and none of those is before the seed; so its smallest gate *is* the seed, and the scan
begins right after it. `ProcessStep` concludes that one call keeps the invariant, moves the iterator
forward and removes exactly the subgraph. In particular the third assertion of `MarkAsProcessed` is no
demand on the caller: it follows from the other two.

### Garbling: `Garble_proofs`

For every circuit, supported or not:

* `TypesOK`; `LabelsAreToldApart`: `Spec => []PermuteBitsDiffer`;
* `SubgraphsKeepContract`: `Spec => []KeepsProcessorContract`;
* `TablesAlwaysEvaluate`: `Spec => []TablesEvaluate`.

`IInv` has a part for each of `Garble`'s concerns. `WorklistInv`: the flags of `XorGateProcessor` are
those of the XOR gates the graph has not marked. `SearchInv`: in a debug build the seed is among the
gates found from the first round on, because the assertions have ruled out a seed whose labels are
cut off. `LabelsInv`: the labels of a wire differ in their lowest bit and an offset in use has it set.
`TablesInv`: each entry of the index map leads to the table made of its gate's labels, which are final
by then. The contract then meets `ScanStartsAfterSeed` above, cited of the instance. Evaluation of a
table is algebra: the place selected by the lowest bits is that of the labels' bits
(`PlaceSelected`), and its mask is the one it was made with (`TableUnmasks`).

For supported circuits:

* `SearchIsRecursive`: `Spec => []SupportedSearchIsRecursive`;
* `ProcessedLabelsAreFinal`: `Spec => ProcessedWiresKeepLabels`;
* `SupportedNeverRefused`: `Spec => []SupportedIsNotRefused`;
* `EveryGateEvaluates`: `TablesFit => (Spec => []GatesEvaluate)`, `TablesFit` being that no circuit has more
  than 2^15 tables.

`SupportedInv` is what they take. `ConnectedInv`: the marked gates are closed under sharing a wire, so a
search meets marks of its own only (`ConnectedIsApart`), and the next seed is the first gate of its set,
by the worklist's `NoGateSkipped`. `RoundsInv`: the n-th round finds the n-th level (`RoundFindsLevel`, from
`LevelsAreRounds`), and drivers come before the gates they drive, since levels do. `FreeInv`: the labels
of each gate that is labelled differ by one offset on its three wires (`FreeWith`); labelling a gate keeps
this of those before it because its output is no input of theirs (`OutputIsNoInput`) and inputs that are
rewritten get the labels they have. `FreeEvaluates` is the rest: with one offset, XOR of labels is XOR of
bits. `SupportedIsNotRefused` goes through the assertions of a search one by one.

### The constructor: `ParallelGarbledCircuit_proofs`

For every circuit and either build, `Fits` or not:

* `TypesOK`; `SortKeepsEveryGate`: `Spec => []EveryGateOnce`; `BarriersSeparate`: `Spec => []BarrierSeparates`;
* `TablesAreFound`: `Spec => []EvaluatorFindsTables`; `XorGatesAreSorted`: `Spec => []XorGatesByInput0`;
* `FittingGatesUnpack`: `IdsFit => (Spec => []PackedGatesUnpack)`, `IdsFit` being that wires are below
  2^`PackBits`: the assertion that the comment at parallel_garbled_circuit.cpp:278-283 has in mind.
  (Without the hypothesis it is false: `pgc_wide_ids`.)

`IInv` has a part for each loop, which the later loops keep: `LayersInv` (a gate is on a later layer than
what it reads; the counts are those of the layers), `BucketsInv` (each list has exactly the gates of its
layer and bucket), `OrderInv` (the order lists the gates placed so far, by layer and sublayer, and complete
layers end where the counts say) and `PackInv` (gates and tables so far are those of the order, and the
n-th gate's table is where the counts lead, `TableAt`). What does not fit has ended the constructor, or
lost it, in an earlier loop. Where a layer starts (`StartOf`) is a sum of at most three
counts, so that no induction is needed.

### The evaluation: `ParallelEvaluate_proofs`, `ConvertAndEvaluate_proofs`

For every team, and every circuit whose layers are independent (`LayersIndependent(starts)`, for some first
gates `starts` of the layers), `ParallelEvaluate_proofs` proves

* `RaceFree`: `Init /\ LayersIndependent(starts) /\ [][Next]_vars => []NoDataRace`;
* `TeamInStep`: the same for `LayersInStep`.

`IInv` says that each thread's `range` is its layer's, that its gate is on its stride
(`startGate + t + k * NbThreads`), that a turn's gate is in the range, and that no thread is ahead of
one that is not at the barrier. `LayersInStep` alone is not enough for `NoDataRace`, nor the strides
alone: two threads in a turn are in the same layer by the first, at different gates of it by the
second (`StridesDiffer`), and those do not share a wire because the layer is independent.

`ConvertAndEvaluate_proofs` carries this over to the whole, first under the hypothesis that the conversion
is independent (`ConvertedIsRaceFree`), then without it, from the constructor's `IInv`:

* `ConversionIsIndependent`: `IdsFit => (Spec => []ConvertsToIndependentLayers)`;
* `EvaluationIsRaceFree`: `IdsFit => (Spec => []NoDataRace)`;
* `ImplementsCircuitEvaluation`: `IdsFit => (Spec => EvaluatesTheCircuit)`, the refinement of
  `CircuitEvaluation`.

For the refinement, `ValuesInv` adds to `IInv` what the wires hold: an output has a value exactly if the
turn of its gate is over (`OutputsWritten`), inputs stay, and what a turn has computed is what its inputs
still give (`TurnsComputed`), which is where `NoDataRace` is used. A turn finds values on its inputs
(`ReadsHaveValues`): they are inputs of the circuit or outputs of an earlier layer, whose turns are over by
`LayersInStep` (`EarlierIsOver`). Then `Store` is `EvaluateGate` of the gate that was sorted to this place,
with its own table by `TablesAreFound`, and all other steps of the team stutter.

### The pipeline: `Packmsg_proofs`, `PackmsgImplements_proofs`

For every set of circuits that are `IsSkcd`, every choice of digits, masks and texts, either build, every
word size and every bound:

* `PairAlwaysMatches`: `Spec => []PairMatches`; `ThrowsAlwaysLeaveObjects`: `Spec => ThrowsLeaveObjects`;
* `PackedMaskIsApplied`: `ApplyXormask` of a packed mask gives every output its own bit of it;
* `PackmsgImplementsBurnedCircuit`: `Spec => ShowsBurnedCircuit`;
* `WholeCircuitsAlwaysEvaluate`: `Spec => []WholeCircuitEvaluates`;
* `NoOtherMessageIsShown`: `Spec => []NoOtherMessage`; `TypesOK`.

`PairMatches` speaks of stripped circuits only and is not inductive: what `StripCircuit` makes of a
circuit depends on what it was before. `IInv` adds that a circuit of the server that is not stripped is
the result of `GarbleSkcdFromBuffer` for its garbling, and that a stripped one has no output labels, so it
is never stripped a second time (`ServerInv`). A release build strips with digits that do not fit, so
`StripSharesOut` and `MadeFrom` below say what is made with any digits, and share the labels out under the
hypothesis that they fit. The heart is `StripSharesOut`: input by input, the labels
that `StripParallelGarbledCircuit` zeroes are those `PrepareInputLabels` has extracted, and conversely,
which takes that the segments of the digits are bits and as many as the config says. `ThrowsLeaveObjects`
needs no invariant. The mask is arithmetic: `i = WordBits * (i \div WordBits) + i % WordBits`, and the word
of `i` exists.

The refinement reads `burned` off the published labels (`burnedBar`) and takes for `image` the evaluation
made last if it was one with the circuit's own packet (`imageBar`). `MadeInv` adds to `IInv` what the
mapping and the result depend on and no variable says: a stripped circuit and its prepackmsg were made
from one garbling with some digits and some swapped inputs (`MadeFrom`); an object of the client that
only this circuit was read into, once or several times, begins with its labels and tables (`ReadOf`:
reading again appends, and what was read first is what is used); and the packet has the labels of its
circuit and the mask of its text. With it,

1. `Publish` burns: the labels of the segments stand for the segments of the digits (`EntryIsBurned`);
2. patching gives every input the label of the frame's bit (`PatchedLabels`): a label of the packet
   where it has one, and for a random input the label that was kept, in the order in which it was kept;
3. labels of one garbling, with its key and tables, evaluate to the labels of the outputs' bits
   (`OwnLabelsEvaluate`), and the mask takes their lowest bits to the image (`UnmaskedBits`: XOR with the
   lowest bit of the label for 0 once more undoes it);
4. every other action leaves `burned` alone and clears the image.

A whole circuit evaluates because a new object holds what was written (`FreshlyRead`). For other packets and
used objects: the labels an object begins with are all of the circuit read into it first
(`LabelsOfFirst`), a circuit stripped once has zeroed labels for ever (`StrippedOnce`), so patched labels are
some of the packet and some of the object (`Mixed`); where they are of one garbling the output is that
garbling's, where they are not it is noise. The types take that operations that throw leave well-typed
objects behind (`Typed`).

What step 3 takes from `EvaluatePackmsg` is the model of a whole garbled circuit; that the gates
evaluate so is what `EveryGateEvaluates` and `ImplementsCircuitEvaluation` say of the detailed models.

### The watermark: `Watermark_proofs`

For every set of fonts, texts and image sizes:

* `CacheIsAlwaysTheFont`: `Spec => []CacheIsTheFont`; `TypesOK`;
* `TextIsLaidOut`: `Spec => [](PositionsFit => DrawsLayout)`.

The invariant of the cache, `IInv`, adds that a cached size has every character of the font: without it,
looking up a character the cache has missed would leave a null entry for a character the font has.

`TextIsLaidOut` needs an invariant of the loop. `DrawsLayout` speaks of a finished image only; `LaidOut`
says of every turn that the pen is the sum of the advances of the line so far, that the offset of the
line counts the newlines from the first glyph on (and all newlines before there is one: this is how the
margin comes to depend on them), that the singleton's previous glyph is the one drawn before, and that the
image is what the layout has of the characters before. `FaceInv` adds that a face has a size once
anything is cached, and `Called` that the size of a call is cached from its first turn on; together they say
that the size of the face, at which kerning is looked up, does not change in the middle of a text.
`CharDrawn` is what a turn does, field by field, by way of `GetCharFinds`; `DrawCharKeepsLayout` relates it to
the layout of one more character. Since a layout sums over sets of characters, the module begins with
induction over the subsets of a finite set (`SubsetInduction`) and shows that a sum can be taken
element by element in any order (`SumGrows`).

Assumed of a font (`FontsAssumption`): it has the placeholder, which `DrawText` draws without asking
whether it was found, and no glyph for a newline (watermark.cpp:128); lines have a height, and the
sizes of its glyphs are integers. `PositionsFit`, the hypothesis of the theorem, says that no pixel is so
far out of the image that it comes back into it when its position is taken modulo `UintRange`. With
positions of 32 bits it takes a text some billion pixels long to be false; in the run `watermark`
`DrawsLayout` is checked without it, and positions stay within some hundred pixels.

### Only model-checked

* Liveness, which is out of the prover's reach: `EveryGateProcessed`, `SupportedIsGarbled`,
  `FittingIsConverted`, `FittingIsEvaluated`. `SupportedNeverRefused` is the safety half of the second.
* The properties of the violation runs are false, which is what these runs show.

## 5. Findings

1. A tree of XOR gates, `(a ^ b) ^ (c ^ d)`: the last gate belongs to the subgraph of `a ^ b`; the
   subgraph of `c ^ d` then rewrites one of its inputs with another offset (`garble_tree`).
2. The duplicate test in `GetParentsGate` looks for the gate instead of the label
   (`garble_gate_id`).
3. The index map of the garbled tables is indexed by gate id and sized by the number of gates that
   are not XOR (`garble_late_and`).
4. Nothing asserts that ids fit the 21 bits they are packed on (`pgc_wide_ids`).
5. A display without digits, for which `PrepareInputLabels` has a case, loses the label of its constant
   input when it is stripped, and no packet brings it back (`packmsg_no_otp`).

Two comments that the model of the watermark does not follow, without a run of their own:
freetype_wrapper.h:18 calls the cache "read-only (ie completely init in the ctor)", but `GetChar` fills
it, for a size and for characters the font lacks; and a single newline at the start of a text does not
move its first line ("+= line_height each time we encounter a '\n'", watermark.cpp:121), because the
first character adds the height of its line only while there is none.

On circuits that are not `Supported` a release build may also search from a seed and not find it (a
XOR gate of label 0 with itself, or one whose root inputs are cut short): nothing is marked and the
loop of `Garble` chooses the same seed for ever. The runs state termination for supported circuits.

The circuits the library was written for (a few inputs shared by many gates, gates that are not XOR
first) avoid the first three.

## 6. Not modelled, and the plan

* *AES key expansion and the random numbers* are arithmetic in intrinsics; blocks are symbolic. That AES
  is a good cipher and that every garbling has labels of its own are assumptions. The latter fails for
  two garblings in the same second (`Garble` seeds with the time, garble.cpp:85) and for garblings on
  two threads (the seed is static); nothing in the repository does the second.
* *The segments of 14-segment digits and I-Ching figures* (packmsg_utils.cpp): `StripCircuit` always
  passes `seven_segs`, nothing reaches the others.
* *Rendering, the conversion of monochrome bitmaps, Protobuf's encoding, files and logging* belong to
  libraries or to the file system. A size that FreeType refuses throws before anything changes.
* *Table indexes* of 16 bits: `ToInt16` has the width, no circuit of a run has 32769 tables; the theorems
  about tables are for circuits with no more than 32768.
* *`garble_utils`* is not called; `findAllGates` serves as the reference of `FindAllGates`.

What the plan has left:

1. `Garble`, the constructor and the evaluation composed on symbolic labels. So far they meet at their
   interfaces: `Garble`'s labels and tables evaluate gate by gate, the constructor's result is
   evaluated with tables named after their gates, and the pipeline takes the two together.
