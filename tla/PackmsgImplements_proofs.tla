------------------------ MODULE PackmsgImplements_proofs ------------------------
(***************************************************************************)
(* The packmsg pipeline implements BurnedCircuit, for any circuits, digits, *)
(* texts, inputs, labels with a zero half, size of words and number of      *)
(* calls, in either build: what was published after a strip with digits     *)
(* that fit the display is a burned circuit, and an evaluation with its own *)
(* packet shows the image of that circuit under the text.  With as little   *)
(* assumed, a circuit that was read as it was garbled evaluates to its      *)
(* bits, and no packet with digits that fit shows another message.          *)
(***************************************************************************)
EXTENDS Packmsg_proofs, FiniteSetTheorems

(* What an Skcd circuit is, as far as the proofs need it. *)
LEMMA SkcdFacts ==
  ASSUME NEW c \in Skcds
  PROVE  /\ c.nbInputs \in Nat
         /\ c.outputs \in Seq(SUBSET SUBSET (0 .. c.nbInputs - 1)) /\ c.outputs # <<>>
         /\ Len(c.outputs) \in Nat \ {0} /\ DOMAIN c.outputs = 1 .. Len(c.outputs)
         /\ \A o \in DOMAIN c.outputs : Reads(c.outputs[o]) # {}
         /\ c # NoSkcd
<1>1. IsSkcd(c) BY GarbledLabelsAssumption
<1>2. Len(c.outputs) \in Nat \ {0} /\ DOMAIN c.outputs = 1 .. Len(c.outputs)
  BY <1>1, EmptySeq, LenProperties DEF IsSkcd
<1> QED BY <1>1, <1>2 DEF IsSkcd, NoSkcd

LEMMA DisplayFacts ==
  ASSUME NEW c \in Skcds, IsDisplay(c.config)
  PROVE  /\ c.config["BITMAP_NB_SEGMENTS"] \in Nat /\ c.config["RNDSIZE"] \in Nat
         /\ c.nbInputs = c.config["BITMAP_NB_SEGMENTS"] + c.config["RNDSIZE"] + 1
         /\ RandomInputs(c.config)
              = c.config["BITMAP_NB_SEGMENTS"] .. c.nbInputs - 2
<1>1. IsSkcd(c) BY GarbledLabelsAssumption
<1>2. /\ c.config["BITMAP_NB_SEGMENTS"] \in Nat /\ c.config["RNDSIZE"] \in Nat
      /\ c.nbInputs = c.config["BITMAP_NB_SEGMENTS"] + c.config["RNDSIZE"] + 1
  BY <1>1 DEF IsSkcd, IsConfig, IsDisplay, ConfigKeys
<1> QED BY <1>2 DEF RandomInputs

(* The lowest bit of an output. *)
LEMMA OutputBitIsBit ==
  ASSUME NEW c \in Skcds, NEW o \in DOMAIN c.outputs, NEW bits
  PROVE  OutputBit(c.outputs[o], bits) \in Bit
<1> DEFINE products == { product \in c.outputs[o] : \A i \in product : bits[i + 1] = 1 }
           inputs == 0 .. c.nbInputs - 1
<1>1. IsFiniteSet(inputs)
  <2>1. c.nbInputs \in Nat BY SkcdFacts
  <2>2. 0 \in Int /\ c.nbInputs - 1 \in Int BY <2>1
  <2> QED BY <2>2, FS_Interval
<1>2. IsFiniteSet(SUBSET inputs) BY <1>1, FS_SUBSET
<1>3. c.outputs[o] \in SUBSET SUBSET inputs BY SkcdFacts, ElementOfSeq
<1>4. products \subseteq SUBSET inputs BY <1>3
<1>5. Cardinality(products) \in Nat BY <1>2, <1>4, FS_Subset, FS_CardinalityType
<1> HIDE DEF products
<1>6. Cardinality(products) % 2 \in Bit BY <1>5 DEF Bit
<1> QED BY <1>6 DEF OutputBit, products

(***************************************************************************)
(* ParallelEvaluate of a whole set of labels of the garbling that made the  *)
(* key and the tables: every output gets its label.                         *)
(***************************************************************************)
OwnLabels(gs, p, c, g, labels, bits) ==
  /\ g \in DOMAIN gs /\ gs[g].skcd = c
  /\ p.skcd = c /\ p.globalKey = g
  /\ NonXorCount(c) = 1 => p.tables[1] = g
  /\ DOMAIN labels = 1 .. c.nbInputs
  /\ \A i \in 1 .. c.nbInputs : labels[i] = Label(g, i - 1, bits[i])

LEMMA OwnLabelsEvaluate ==
  ASSUME NEW c \in Skcds, NEW gs, NEW g, NEW p, NEW labels, NEW bits,
         OwnLabels(gs, p, c, g, labels, bits)
  PROVE  \A o \in DOMAIN c.outputs :
           ParallelEvaluate(p, labels, gs)[o]
             = Label(g, OutputWire(c, o), OutputBit(c.outputs[o], bits))
<1> SUFFICES ASSUME NEW o \in DOMAIN c.outputs
             PROVE  ParallelEvaluate(p, labels, gs)[o]
                      = Label(g, OutputWire(c, o), OutputBit(c.outputs[o], bits))
  OBVIOUS
<1> USE DEF OwnLabels
<1> DEFINE output == c.outputs[o]
           labelBits == [i \in DOMAIN labels |-> labels[i].bit]
<1>1. c.nbInputs \in Nat BY SkcdFacts
<1>2. output \in SUBSET SUBSET (0 .. c.nbInputs - 1)
  <2> DEFINE S == SUBSET SUBSET (0 .. c.nbInputs - 1)
  <2>1. c.outputs \in Seq(S) /\ o \in 1 .. Len(c.outputs) BY SkcdFacts
  <2> HIDE DEF S
  <2>2. c.outputs[o] \in S BY <2>1, ElementOfSeq
  <2> QED BY <2>2 DEF S
<1>3. Reads(output) \subseteq 0 .. c.nbInputs - 1 /\ Reads(output) # {}
  BY <1>2, SkcdFacts DEF Reads
<1>4. \A i \in 0 .. c.nbInputs - 1 :
        /\ i + 1 \in DOMAIN labels
        /\ labels[i + 1].garbling = g /\ labels[i + 1].wire = i
        /\ labelBits[i + 1] = bits[i + 1]
  <2> SUFFICES ASSUME NEW i \in 0 .. c.nbInputs - 1
               PROVE  /\ i + 1 \in DOMAIN labels
                      /\ labels[i + 1].garbling = g /\ labels[i + 1].wire = i
                      /\ labelBits[i + 1] = bits[i + 1]
    OBVIOUS
  <2>1. i + 1 \in 1 .. c.nbInputs /\ (i + 1) - 1 = i BY <1>1
  <2>2. labels[i + 1] = Label(g, i, bits[i + 1]) BY <2>1
  <2> QED BY <2>1, <2>2 DEF Label
<1>5. HasTables(output) => p.tables[1] = g BY DEF NonXorCount
<1> HIDE DEF output
<1>6. Source(p, labels, output, gs) = {g}
  <2>1. g \in Source(p, labels, output, gs) BY <1>3, <1>4, <1>5 DEF Source
  <2>2. ASSUME NEW h \in Source(p, labels, output, gs) PROVE h = g
    <3>1. PICK i \in Reads(output) : TRUE BY <1>3
    <3>2. labels[i + 1].garbling = h BY <2>2, <3>1 DEF Source
    <3> QED BY <1>3, <1>4, <3>1, <3>2
  <2> QED BY <2>1, <2>2
<1>7. (CHOOSE h \in {g} : TRUE) = g OBVIOUS
<1>8. OutputBit(output, labelBits) = OutputBit(output, bits)
  <2> HIDE DEF labelBits
  <2>1. ASSUME NEW product \in output
        PROVE  (\A i \in product : labelBits[i + 1] = 1)
                 <=> (\A i \in product : bits[i + 1] = 1)
    <3>1. product \subseteq 0 .. c.nbInputs - 1 BY <1>2 DEF output
    <3>2. \A i \in product : labelBits[i + 1] = bits[i + 1] BY <1>4, <3>1
    <3> QED BY <3>2
  <2>2. { product \in output : \A i \in product : labelBits[i + 1] = 1 }
          = { product \in output : \A i \in product : bits[i + 1] = 1 }
    BY <2>1
  <2> QED BY <2>2 DEF OutputBit
<1> HIDE DEF labelBits
<1>9. ParallelEvaluate(p, labels, gs)[o]
        = IF Source(p, labels, output, gs) = {}
            THEN Garbage
            ELSE Label(CHOOSE h \in Source(p, labels, output, gs) : TRUE, OutputWire(c, o),
                       OutputBit(output, labelBits))
  BY DEF ParallelEvaluate, output, labelBits
<1> QED BY <1>6, <1>7, <1>8, <1>9 DEF output

--------------------------------------------------------------------------------
(***************************************************************************)
(* What StripCircuit made of a garbling: whose labels the circuit kept, in  *)
(* which order, and which labels the PrePackmsg got.                        *)
(***************************************************************************)
SwappedLabels(labels, c, g, switched) ==
  /\ switched \in SUBSET RandomInputs(c.config)
  /\ \E S : labels \in Seq(S)
  /\ Len(labels) = 2 * (c.nbInputs + 1)
  /\ \A i \in 0 .. c.nbInputs - 1, b \in Bit :
       LabelOf(labels, i, b) = IF i \in switched THEN Label(g, i, 1 - b)
                               ELSE IF i \in RandomInputs(c.config) THEN Label(g, i, b)
                               ELSE Zero
  /\ \A b \in Bit : LabelOf(labels, c.nbInputs, b) = Label(g, c.nbInputs, b)

MadeFrom(p, pre, digits, c, g, lsbs) ==
  /\ DOMAIN p = PgcFields /\ IsDisplay(c.config) /\ "RNDSIZE" \notin DOMAIN p.config
  /\ p.skcd = c /\ p.globalKey = g /\ p.outputLabels = <<>>
  /\ p.tables = [i \in 1 .. NonXorCount(c) |-> g]
  /\ \E switched : SwappedLabels(p.inputLabels, c, g, switched)
  /\ digits \in DigitChoices /\ digits \in Seq(0 .. 9)
  /\ pre.labels = PrepareInputLabels(GarbleSkcdFromBuffer(c, g), digits)
  /\ pre.xormask = lsbs

Made(gs, p, pre, digits) ==
  /\ p.globalKey \in DOMAIN gs
  /\ MadeFrom(p, pre, digits, gs[p.globalKey].skcd, p.globalKey, gs[p.globalKey].lsbs)

LEMMA GrownKeepsMade ==
  ASSUME NEW before, NEW after, Grown(before, after), NEW p, NEW pre, NEW digits,
         Made(before, p, pre, digits)
  PROVE  Made(after, p, pre, digits)
  BY DEF Grown, Made

LEMMA MadeIsStripped ==
  ASSUME GarblingsInv, NEW p, NEW pre, NEW digits, Made(garblings, p, pre, digits)
  PROVE  IsStripped(p) /\ p.skcd \in Skcds
<1>1. p.skcd \in Skcds /\ p.outputLabels = <<>> BY GarblingIsTyped DEF Made, MadeFrom
<1> QED BY <1>1, SkcdFacts DEF IsStripped

LEMMA WholeSubSeq ==
  ASSUME NEW S, NEW s \in Seq(S)
  PROVE  SubSeq(s, 1, Len(s)) = s
<1> DEFINE n == Len(s)
           first == SubSeq(s, 1, n)
<1>1. n \in Nat /\ s \in [1 .. n -> S] BY LenProperties
<1>2. \A i \in 1 .. n : s[i] \in S BY <1>1
<1> HIDE DEF n
<1>3. 1 \in Int /\ n \in Int BY <1>1
<1>4. /\ first \in Seq(S) /\ Len(first) = IF 1 <= n THEN n - 1 + 1 ELSE 0
      /\ \A i \in 1 .. n - 1 + 1 : first[i] = s[1 + i - 1]
  BY <1>2, <1>3, SubSeqProperties
<1> HIDE DEF first
<1>5. Len(first) = n /\ \A i \in 1 .. n : first[i] = s[i] BY <1>1, <1>4
<1>6. first \in [1 .. n -> S] BY <1>4, <1>5, LenProperties
<1>7. first = s BY <1>1, <1>5, <1>6
<1> QED BY <1>7 DEF first, n

(* As many tables as there are gates to need them, none or one. *)
LEMMA TablesOfGarbling ==
  ASSUME NEW c, NEW g, NEW tables, tables = [i \in 1 .. NonXorCount(c) |-> g]
  PROVE  /\ NonXorCount(c) \in Nat
         /\ tables \in Seq({g}) /\ Len(tables) = NonXorCount(c)
         /\ SubSeq(tables, 1, NonXorCount(c)) = tables
         /\ NonXorCount(c) = 1 => tables[1] = g
<1> DEFINE n == NonXorCount(c)
<1>1. n \in Nat BY DEF NonXorCount
<1>2. tables \in [1 .. n -> {g}] OBVIOUS
<1> HIDE DEF n
<1>3. tables \in Seq({g}) /\ Len(tables) = n BY <1>1, <1>2, FunctionIsSeq
<1>4. \A i \in 1 .. n : tables[i] = g BY <1>2
<1>5. SubSeq(tables, 1, n) = tables BY <1>3, WholeSubSeq
<1>6. n = 1 => tables[1] = g BY <1>4
<1> QED BY <1>1, <1>3, <1>5, <1>6 DEF n

LEMMA StripMakes ==
  ASSUME NEW gs, NEW g \in DOMAIN gs, NEW c \in Skcds, gs[g].skcd = c,
         gs[g].lsbs \in Seq(Bit), Len(gs[g].lsbs) = Len(c.outputs),
         NEW pre, NEW digits \in DigitChoices, NEW switched \in Switches(c.config),
         NEW ndebug \in BOOLEAN, NEW readable \in BOOLEAN, NEW result,
         result = StripCircuit(GarbleSkcdFromBuffer(c, g), pre, digits, gs[g].lsbs,
                               switched, ndebug, readable),
         result.outcome = "ok"
  PROVE  Made(gs, result.pgc, result.prePackmsg, digits)
<1> DEFINE p == GarbleSkcdFromBuffer(c, g)
           s == StripParallelGarbledCircuit(p, switched)
<1>1. /\ p.config = c.config /\ p.skcd = c /\ p.globalKey = g /\ DOMAIN p = PgcFields
      /\ p.tables = [i \in 1 .. NonXorCount(c) |-> g]
      /\ DOMAIN p.inputLabels = 1 .. 2 * (c.nbInputs + 1)
  BY DEF GarbleSkcdFromBuffer, PgcFields
<1>2. ~ StripThrows(p, digits, ndebug) /\ ~ StripEnds(p, digits, ndebug, readable)
  BY DEF StripCircuit, WithoutChange
<1>3. IsDisplay(c.config)
  BY <1>1, <1>2, GarbledLabelsAssumption DEF IsSkcd, StripThrows, IsDisplay
<1>4. switched \in SUBSET RandomInputs(c.config) BY <1>3 DEF Switches
<1>5. c.nbInputs \in Nat BY SkcdFacts
<1>6. /\ result.prePackmsg = [labels  |-> PrepareInputLabels(p, digits),
                              xormask |-> PrepareXormask(p, gs[g].lsbs),
                              config  |-> p.config]
      /\ result.pgc = [s EXCEPT !.config = [key \in DOMAIN @ \cap {"WIDTH", "HEIGHT"} |-> @[key]]]
  BY <1>2 DEF StripCircuit
<1>7. /\ DOMAIN s = PgcFields /\ s.globalKey = g /\ s.skcd = c /\ s.outputLabels = <<>>
      /\ s.tables = p.tables /\ DOMAIN s.inputLabels = DOMAIN p.inputLabels
      /\ s.config = c.config
  <2> HIDE DEF p
  <2> QED BY <1>1 DEF StripParallelGarbledCircuit, PgcFields
<1>8. /\ DOMAIN result.pgc = PgcFields /\ result.pgc.globalKey = g
      /\ result.pgc.skcd = c /\ result.pgc.outputLabels = <<>>
      /\ result.pgc.tables = s.tables /\ result.pgc.inputLabels = s.inputLabels
      /\ "RNDSIZE" \notin DOMAIN result.pgc.config
  <2> HIDE DEF s
  <2> QED BY <1>6, <1>7 DEF PgcFields
<1>9. SwappedLabels(s.inputLabels, c, g, switched)
  <2> DEFINE labels == s.inputLabels
             n == 2 * (c.nbInputs + 1)
             S == { labels[i] : i \in 1 .. n }
  <2>1. n \in Nat BY <1>5
  <2>2. DOMAIN labels = 1 .. n BY <1>1, <1>7
  <2>3. labels = [i \in 1 .. n |-> labels[i]]
    <3> HIDE DEF s
    <3>1. s.inputLabels = [l \in DOMAIN p.inputLabels |-> s.inputLabels[l]]
      <4> HIDE DEF p
      <4> QED BY <1>1 DEF s, StripParallelGarbledCircuit, PgcFields
    <3> QED BY <1>1, <3>1
  <2>4. \A i \in 0 .. c.nbInputs - 1, b \in Bit :
          LabelOf(labels, i, b) = IF i \in switched THEN Label(g, i, 1 - b)
                                  ELSE IF i \in RandomInputs(c.config) THEN Label(g, i, b)
                                  ELSE Zero
    BY <1>4, <1>5, StrippedInputLabels
  <2>7. \A b \in Bit : LabelOf(labels, c.nbInputs, b) = Label(g, c.nbInputs, b)
    <3>1. c.nbInputs \notin switched BY <1>3, <1>4, <1>5, DisplayFacts
    <3> QED BY <1>5, <3>1, SpareLabels
  <2> HIDE DEF labels
  <2>5. labels \in [1 .. n -> S] BY <2>2, <2>3
  <2> HIDE DEF n, S
  <2>6. labels \in Seq(S) /\ Len(labels) = n BY <2>1, <2>5, FunctionIsSeq
  <2> QED BY <1>4, <2>4, <2>6, <2>7 DEF SwappedLabels, labels, n
<1>10. PrepareXormask(p, gs[g].lsbs) = gs[g].lsbs BY XormaskIsLsbs
<1>11. /\ result.prePackmsg.xormask = gs[g].lsbs
       /\ result.prePackmsg.labels = PrepareInputLabels(GarbleSkcdFromBuffer(c, g), digits)
  BY <1>6, <1>10
<1>12. digits \in Seq(0 .. 9)
  <2>1. digits \in Seq(Nat) BY PackmsgAssumption
  <2>2. Len(digits) \in Nat /\ digits \in [1 .. Len(digits) -> Nat] BY <2>1, LenProperties
  <2>3. \A k \in DOMAIN digits : digits[k] <= 9
    BY <1>2, <2>1 DEF StripThrows, StripEnds, StripAsserts
  <2>4. digits \in [1 .. Len(digits) -> 0 .. 9] BY <2>2, <2>3
  <2> QED BY <2>2, <2>4, FunctionIsSeq
<1> HIDE DEF s
<1> QED BY <1>1, <1>3, <1>7, <1>8, <1>9, <1>11, <1>12 DEF Made, MadeFrom, p

LEMMA WriteKeepsMade ==
  ASSUME NEW gs, NEW p, NEW pre, NEW digits, Made(gs, p, pre, digits)
  PROVE  Made(gs, WriteProtobuf(p), WriteProtobufPrePackmsg(pre), digits)
<1> DEFINE w == WriteProtobuf(p)
<1>1. DOMAIN p = PgcFields /\ p.tables = [i \in 1 .. NonXorCount(p.skcd) |-> p.globalKey]
  BY DEF Made, MadeFrom
<1>2. SubSeq(p.tables, 1, NonXorCount(p.skcd)) = p.tables
  <2> DEFINE tables == p.tables
             c == p.skcd
             g == p.globalKey
  <2>1. tables = [i \in 1 .. NonXorCount(c) |-> g] BY <1>1
  <2> HIDE DEF tables, c, g
  <2>2. SubSeq(tables, 1, NonXorCount(c)) = tables BY <2>1, TablesOfGarbling
  <2> QED BY <2>2 DEF tables, c
<1>3. /\ DOMAIN w = PgcFields /\ w.skcd = p.skcd /\ w.globalKey = p.globalKey
      /\ w.inputLabels = p.inputLabels /\ w.outputLabels = p.outputLabels
      /\ w.tables = p.tables /\ w.config = p.config
  BY <1>1, <1>2 DEF WriteProtobuf, PgcFields
<1>4. /\ WriteProtobufPrePackmsg(pre).labels = pre.labels
      /\ WriteProtobufPrePackmsg(pre).xormask = pre.xormask
  BY DEF WriteProtobufPrePackmsg
<1> HIDE DEF w
<1> QED BY <1>3, <1>4 DEF Made, MadeFrom, w

LEMMA WriteKeepsGarbled ==
  ASSUME NEW gs, NEW p, AsGarbled(gs, p)
  PROVE  WriteProtobuf(p) = p
<1> DEFINE g == p.globalKey
           c == gs[g].skcd
           made == GarbleSkcdFromBuffer(c, g)
<1>1. p = made BY DEF AsGarbled
<1>2. made.skcd = c /\ made.tables = [i \in 1 .. NonXorCount(c) |-> g]
  BY DEF GarbleSkcdFromBuffer
<1>3. [made EXCEPT !.tables = made.tables] = made BY DEF GarbleSkcdFromBuffer
<1> HIDE DEF made, c, g
<1>4. SubSeq(made.tables, 1, NonXorCount(c)) = made.tables
  <2> DEFINE tables == made.tables
  <2>1. tables = [i \in 1 .. NonXorCount(c) |-> g] BY <1>2
  <2> HIDE DEF tables
  <2>2. SubSeq(tables, 1, NonXorCount(c)) = tables BY <2>1, TablesOfGarbling
  <2> QED BY <2>2 DEF tables
<1>5. SubSeq(p.tables, 1, NonXorCount(p.skcd)) = made.tables BY <1>1, <1>2, <1>4
<1>6. [p EXCEPT !.tables = made.tables] = p BY <1>1, <1>3
<1> QED BY <1>5, <1>6 DEF WriteProtobuf

(* The server's pair, and the pairs that were published. *)
WholeEntry(entry) ==
  /\ AsGarbled(garblings, entry.pgc)
  /\ entry.pgc.skcd \in Skcds /\ entry.pgc.outputLabels # <<>>
  /\ entry.prePackmsg.labels = <<>> /\ entry.prePackmsg.config = EmptyConfig

MadeEntry(entry) == Made(garblings, entry.pgc, entry.prePackmsg, entry.digits)

ServerMade ==
  \/ pgc = DefaultPgc
  \/ AsGarbled(garblings, pgc)
  \/ Made(garblings, pgc, prePackmsg, strippedWith)

EntriesMade == \A id \in DOMAIN published : WholeEntry(published[id]) \/ MadeEntry(published[id])

LEMMA GarbleSkcdMakes ==
  ASSUME GarblingsInv, NEW skcd \in Skcds, NEW lsbs \in LsbChoices, GarbleSkcd(skcd, lsbs)
  PROVE  ServerMade'
<1>1. /\ Len(garblings') \in DOMAIN garblings'
      /\ garblings'[Len(garblings')].skcd = skcd
  <2>1. Garbles(skcd, lsbs) BY DEF GarbleSkcd
  <2>2. /\ Len(garblings') \in DOMAIN garblings'
        /\ garblings'[Len(garblings')] = [skcd |-> skcd, lsbs |-> lsbs]
    BY <2>1, GarblesAppends
  <2> QED BY <2>2
<1>2. pgc' = GarbleSkcdFromBuffer(skcd, Len(garblings'))
  BY DEF GarbleSkcd, ServerAfter, WithoutChange
<1>3. pgc'.globalKey = Len(garblings') BY <1>2 DEF GarbleSkcdFromBuffer
<1> QED BY <1>1, <1>2, <1>3 DEF ServerMade, AsGarbled

LEMMA GarbleAndStripMakes ==
  ASSUME GarblingsInv, NEW skcd \in Skcds, NEW digits \in DigitChoices,
         NEW lsbs \in LsbChoices, GarbleAndStrip(skcd, digits, lsbs)
  PROVE  ServerMade'
<1> DEFINE g == Len(garblings')
<1>1. /\ g \in DOMAIN garblings' /\ garblings'[g].skcd = skcd /\ garblings'[g].lsbs = lsbs
      /\ lsbs \in Seq(Bit) /\ Len(lsbs) = Len(skcd.outputs)
  BY GarblesAppends, PackmsgAssumption DEF GarbleAndStrip, Garbles
<1>2. PICK switched \in Switches(skcd.config) :
        ServerAfter("GarbleAndStrippedSkcdFromBuffer", digits,
                    GarbleAndStrippedSkcdFromBuffer(skcd, g, prePackmsg, digits, lsbs, switched))
  BY DEF GarbleAndStrip
<1> DEFINE result == GarbleAndStrippedSkcdFromBuffer(skcd, g, prePackmsg, digits, lsbs, switched)
<1>3. /\ result.outcome \in {"ok", "throw", "lost"}
      /\ result.outcome # "ok" => result.pgc = GarbleSkcdFromBuffer(skcd, g)
      /\ result.outcome = "ok" =>
           \E ndebug, readable \in BOOLEAN :
             result = StripCircuit(GarbleSkcdFromBuffer(skcd, g), prePackmsg, digits, lsbs,
                                   switched, ndebug, readable)
  BY GarbleAndStripOutcome
<1> HIDE DEF result
<1>4. ServerAfter("GarbleAndStrippedSkcdFromBuffer", digits, result) BY <1>2 DEF result
<1> HIDE DEF g
<1>5. CASE result.outcome = "ok"
  <2>1. Made(garblings', result.pgc, result.prePackmsg, digits)
    BY <1>1, <1>3, <1>5, StripMakes
  <2> QED BY <1>4, <1>5, <2>1 DEF ServerAfter, ServerMade
<1>6. CASE result.outcome = "throw"
  <2>1. pgc' = GarbleSkcdFromBuffer(skcd, g) BY <1>3, <1>4, <1>6 DEF ServerAfter
  <2>2. pgc'.globalKey = g BY <2>1 DEF GarbleSkcdFromBuffer
  <2> QED BY <1>1, <2>1, <2>2 DEF ServerMade, AsGarbled
<1>7. CASE result.outcome = "lost" BY <1>4, <1>7 DEF ServerAfter, ServerMade
<1> QED BY <1>3, <1>5, <1>6, <1>7

LEMMA StripMakesServer ==
  ASSUME GarblingsInv, ServerMade, NEW digits \in DigitChoices, NEW ndebug \in BOOLEAN,
         NEW readable \in BOOLEAN, Strip(digits, ndebug, readable)
  PROVE  ServerMade'
<1> DEFINE g == pgc.globalKey
<1>1. PICK switched \in Switches(pgc.config) :
        ServerAfter("StripCircuit", digits,
                    StripCircuit(pgc, prePackmsg, digits, garblings[g].lsbs, switched, ndebug,
                                 readable))
  BY DEF Strip
<1> DEFINE result == StripCircuit(pgc, prePackmsg, digits, garblings[g].lsbs, switched, ndebug,
                                  readable)
<1>2. /\ result.outcome \in {"ok", "throw", "lost"}
      /\ result.outcome # "ok" => result.pgc = pgc /\ result.prePackmsg = prePackmsg
      /\ result.outcome = "ok" => "RNDSIZE" \in DOMAIN pgc.config
  BY StripOutcome
<1>3. result = StripCircuit(pgc, prePackmsg, digits, garblings[g].lsbs, switched, ndebug,
                            readable)
  OBVIOUS
<1> HIDE DEF result
<1>4. ServerAfter("StripCircuit", digits, result) /\ garblings' = garblings
  BY <1>1 DEF result, Strip
<1>5. CASE result.outcome = "ok"
  <2>1. AsGarbled(garblings, pgc)
    BY <1>2, <1>5 DEF Strip, ServerMade, Made, MadeFrom
  <2>2. /\ g \in DOMAIN garblings /\ pgc = GarbleSkcdFromBuffer(garblings[g].skcd, g)
        /\ pgc.config = garblings[g].skcd.config
    BY <2>1 DEF AsGarbled, GarbleSkcdFromBuffer
  <2>3. /\ garblings[g].skcd \in Skcds /\ garblings[g].lsbs \in Seq(Bit)
        /\ Len(garblings[g].lsbs) = Len(garblings[g].skcd.outputs)
    BY <2>2, GarblingIsTyped
  <2>4. Made(garblings, result.pgc, result.prePackmsg, digits)
    <3> HIDE DEF g
    <3> QED BY <1>3, <1>5, <2>2, <2>3, StripMakes
  <2> QED BY <1>4, <1>5, <2>4 DEF ServerAfter, ServerMade
<1>6. CASE result.outcome = "throw" BY <1>2, <1>4, <1>6 DEF ServerAfter, ServerMade
<1>7. CASE result.outcome = "lost" BY <1>4, <1>7 DEF ServerAfter, ServerMade
<1> QED BY <1>2, <1>5, <1>6, <1>7

(* What is published: the circuit as it was garbled, or one that was         *)
(* stripped with its PrePackmsg.                                             *)
NewEntry ==
  [pgc        |-> WriteProtobuf(pgc),
   prePackmsg |-> WriteProtobufPrePackmsg(IF IsStripped(pgc) THEN prePackmsg
                                          ELSE DefaultPrePackmsg),
   digits     |-> IF IsStripped(pgc) THEN strippedWith ELSE <<>>]

LEMMA PublishAppends ==
  ASSUME PublishedInv, Publish
  PROVE  /\ garblings' = garblings /\ pgc # DefaultPgc
         /\ DOMAIN published' = DOMAIN published \cup {Len(published) + 1}
         /\ \A id \in DOMAIN published : published'[id] = published[id]
         /\ published'[Len(published) + 1] = NewEntry
         /\ DOMAIN published = 1 .. Len(published) /\ Len(published) \in Nat
         /\ published' = Append(published, NewEntry)
<1>1. published' = Append(published, NewEntry) /\ garblings' = garblings /\ pgc # DefaultPgc
  BY DEF Publish, NewEntry
<1>2. PICK S : published \in Seq(S) BY DEF PublishedInv
<1>3. published \in Seq(S \cup {NewEntry}) BY <1>2, SeqMonotonic
<1>4. /\ published' \in Seq(S \cup {NewEntry}) /\ Len(published') = Len(published) + 1
      /\ Len(published) \in Nat
      /\ \A id \in 1 .. Len(published) : published'[id] = published[id]
      /\ published'[Len(published) + 1] = NewEntry
  BY <1>1, <1>3, AppendProperties, LenProperties
<1>5. /\ DOMAIN published = 1 .. Len(published)
      /\ DOMAIN published' = 1 .. Len(published) + 1
  BY <1>3, <1>4, LenProperties
<1>6. DOMAIN published' = DOMAIN published \cup {Len(published) + 1} BY <1>4, <1>5
<1> QED BY <1>1, <1>4, <1>5, <1>6

LEMMA NewEntryIsMade ==
  ASSUME GarblingsInv, ServerMade, pgc # DefaultPgc
  PROVE  WholeEntry(NewEntry) \/ MadeEntry(NewEntry)
<1>1. CASE AsGarbled(garblings, pgc)
  <2> DEFINE c == garblings[pgc.globalKey].skcd
  <2>1. c \in Skcds /\ pgc = GarbleSkcdFromBuffer(c, pgc.globalKey)
    BY <1>1, GarblingIsTyped DEF AsGarbled
  <2> HIDE DEF c
  <2>2. pgc.outputLabels # <<>> /\ pgc.skcd = c /\ DOMAIN pgc = PgcFields
    <3>1. GarbleSkcdFromBuffer(c, pgc.globalKey).outputLabels # <<>> BY <2>1, GarbledIsWhole
    <3>2. /\ GarbleSkcdFromBuffer(c, pgc.globalKey).skcd = c
          /\ DOMAIN GarbleSkcdFromBuffer(c, pgc.globalKey) = PgcFields
      BY DEF GarbleSkcdFromBuffer, PgcFields
    <3> QED BY <2>1, <3>1, <3>2
  <2>3. ~ IsStripped(pgc) BY <2>2 DEF IsStripped
  <2>4. NewEntry.prePackmsg.labels = <<>> /\ NewEntry.prePackmsg.config = EmptyConfig
    BY <2>3 DEF NewEntry, WriteProtobufPrePackmsg, DefaultPrePackmsg
  <2>5. NewEntry.pgc = pgc BY <1>1, WriteKeepsGarbled DEF NewEntry
  <2> QED BY <1>1, <2>1, <2>2, <2>4, <2>5 DEF WholeEntry
<1>2. CASE Made(garblings, pgc, prePackmsg, strippedWith)
  <2>1. pgc.skcd \in Skcds /\ pgc.outputLabels = <<>>
    BY <1>2, GarblingIsTyped DEF Made, MadeFrom
  <2>2. IsStripped(pgc) BY <2>1, SkcdFacts DEF IsStripped
  <2>3. Made(garblings, WriteProtobuf(pgc), WriteProtobufPrePackmsg(prePackmsg), strippedWith)
    BY <1>2, WriteKeepsMade
  <2> QED BY <2>2, <2>3 DEF MadeEntry, NewEntry
<1> QED BY <1>1, <1>2 DEF ServerMade

(* What was published stays as it was made. *)
LEMMA EntriesStay ==
  ASSUME EntriesMade, published' = published,
         garblings' = garblings \/ Grown(garblings, garblings')
  PROVE  EntriesMade'
<1>1. Grown(garblings, garblings') BY DEF Grown
<1>2. ASSUME NEW id \in DOMAIN published, MadeEntry(published[id]) PROVE MadeEntry(published[id])'
  BY <1>1, <1>2, GrownKeepsMade DEF MadeEntry
<1>3. ASSUME NEW id \in DOMAIN published, WholeEntry(published[id]) PROVE WholeEntry(published[id])'
  BY <1>1, <1>3 DEF WholeEntry, AsGarbled, Grown
<1> QED BY <1>2, <1>3 DEF EntriesMade

LEMMA PublishMakes ==
  ASSUME GarblingsInv, PublishedInv, ServerMade, EntriesMade, Publish
  PROVE  EntriesMade'
<1>1. /\ garblings' = garblings /\ pgc # DefaultPgc
      /\ DOMAIN published' = DOMAIN published \cup {Len(published) + 1}
      /\ \A id \in DOMAIN published : published'[id] = published[id]
      /\ published'[Len(published) + 1] = NewEntry
  BY PublishAppends
<1>2. WholeEntry(NewEntry) \/ MadeEntry(NewEntry) BY <1>1, NewEntryIsMade
<1>3. ASSUME NEW id \in DOMAIN published'
      PROVE  (WholeEntry(published[id]) \/ MadeEntry(published[id]))'
  <2>1. CASE id \in DOMAIN published BY <1>1, <2>1 DEF EntriesMade, WholeEntry, MadeEntry
  <2>2. CASE id = Len(published) + 1 BY <1>1, <1>2, <2>2 DEF WholeEntry, MadeEntry
  <2> QED BY <1>1, <2>1, <2>2
<1> QED BY <1>3 DEF EntriesMade

--------------------------------------------------------------------------------
(***************************************************************************)
(* The objects of the client: what was read first comes first, and a packet *)
(* holds the labels and the mask of its circuit.                            *)
(***************************************************************************)
HasPrefix(s, t) ==
  \E S : /\ s \in Seq(S) /\ t \in Seq(S) /\ Len(t) <= Len(s)
         /\ \A k \in 1 .. Len(t) : s[k] = t[k]

LEMMA PrefixOfConcat ==
  ASSUME NEW S, NEW s \in Seq(S), NEW t \in Seq(S), NEW u \in Seq(S),
         (s = <<>> /\ u = t) \/ HasPrefix(s, t)
  PROVE  HasPrefix(s \o u, t)
<1>1. Len(s) \in Nat /\ Len(t) \in Nat /\ Len(u) \in Nat BY LenProperties
<1>2. /\ s \o u \in Seq(S) /\ Len(s \o u) = Len(s) + Len(u)
      /\ \A k \in 1 .. Len(s) + Len(u) :
           (s \o u)[k] = IF k <= Len(s) THEN s[k] ELSE u[k - Len(s)]
  BY ConcatProperties
<1>3. CASE s = <<>> /\ u = t
  <2>1. s \o u = t BY <1>3, ConcatEmptySeq
  <2> QED BY <1>1, <2>1 DEF HasPrefix
<1>4. CASE HasPrefix(s, t)
  <2>1. Len(t) <= Len(s) /\ \A k \in 1 .. Len(t) : s[k] = t[k] BY <1>4 DEF HasPrefix
  <2>2. Len(t) <= Len(s \o u) BY <1>1, <1>2, <2>1
  <2>3. \A k \in 1 .. Len(t) : (s \o u)[k] = t[k]
    <3> SUFFICES ASSUME NEW k \in 1 .. Len(t) PROVE (s \o u)[k] = t[k] OBVIOUS
    <3>1. k \in 1 .. Len(s) + Len(u) /\ k <= Len(s) BY <1>1, <2>1
    <3> QED BY <1>2, <2>1, <3>1
  <2> QED BY <1>2, <2>2, <2>3 DEF HasPrefix
<1> QED BY <1>3, <1>4

ReadOf(object, p) ==
  /\ object.skcd = p.skcd /\ object.globalKey = p.globalKey
  /\ HasPrefix(object.inputLabels, p.inputLabels)
  /\ HasPrefix(object.tables, p.tables)

OnlyReads(id) == reads # <<>> /\ \A i \in DOMAIN reads : reads[i] = id

ClientInv ==
  /\ reads \in Seq(DOMAIN published)
  /\ reads = <<>> => client = DefaultPgc
  /\ \A id \in DOMAIN published :
       OnlyReads(id) /\ published[id].pgc.outputLabels = <<>> => ReadOf(client, published[id].pgc)

LEMMA ReadAgain ==
  ASSUME NEW object, NEW p, NEW S, NEW T,
         p.inputLabels \in Seq(S), p.tables \in Seq(T),
         object = DefaultPgc \/ ReadOf(object, p)
  PROVE  ReadOf(ReadProtobuf(p, object), p)
<1> DEFINE after == ReadProtobuf(p, object)
<1>1. /\ after.skcd = p.skcd /\ after.globalKey = p.globalKey
      /\ after.inputLabels = object.inputLabels \o p.inputLabels
      /\ after.tables = object.tables \o p.tables
  BY DEF ReadProtobuf
<1> HIDE DEF after
<1>2. CASE object = DefaultPgc
  <2>1. object.inputLabels = <<>> /\ object.tables = <<>> BY <1>2 DEF DefaultPgc
  <2>2. HasPrefix(<<>> \o p.inputLabels, p.inputLabels) BY PrefixOfConcat, EmptySeq
  <2>3. HasPrefix(<<>> \o p.tables, p.tables) BY PrefixOfConcat, EmptySeq
  <2> QED BY <1>1, <2>1, <2>2, <2>3 DEF ReadOf, after
<1>3. CASE ReadOf(object, p)
  <2>1. PICK U : object.inputLabels \in Seq(U) /\ p.inputLabels \in Seq(U)
    BY <1>3 DEF ReadOf, HasPrefix
  <2>2. HasPrefix(object.inputLabels \o p.inputLabels, p.inputLabels)
    BY <1>3, <2>1, PrefixOfConcat DEF ReadOf
  <2>3. PICK V : object.tables \in Seq(V) /\ p.tables \in Seq(V)
    BY <1>3 DEF ReadOf, HasPrefix
  <2>4. HasPrefix(object.tables \o p.tables, p.tables)
    BY <1>3, <2>3, PrefixOfConcat DEF ReadOf
  <2> QED BY <1>1, <2>2, <2>4 DEF ReadOf, after
<1> QED BY <1>2, <1>3

LEMMA ReadPgcReads ==
  ASSUME GarblingsInv, EntriesMade, ClientInv, NEW id \in DOMAIN published, ReadPgc(id)
  PROVE  ClientInv'
<1>1. /\ client' = ReadProtobuf(published[id].pgc, client) /\ reads' = Append(reads, id)
      /\ published' = published
  BY DEF ReadPgc, server
<1>2. /\ reads' \in Seq(DOMAIN published) /\ Len(reads') = Len(reads) + 1 /\ Len(reads) \in Nat
      /\ \A i \in 1 .. Len(reads) : reads'[i] = reads[i]
      /\ reads'[Len(reads) + 1] = id
      /\ DOMAIN reads = 1 .. Len(reads)
  BY <1>1, AppendProperties, LenProperties DEF ClientInv
<1>3. DOMAIN reads' = 1 .. Len(reads) + 1 BY <1>2, LenProperties
<1>4. reads' # <<>> BY <1>2, EmptySeq
<1>5. ASSUME NEW other \in DOMAIN published, \A i \in DOMAIN reads' : reads'[i] = other,
             published[other].pgc.outputLabels = <<>>
      PROVE  ReadOf(client', published[other].pgc)
  <2>1. other = id BY <1>2, <1>3, <1>5
  <2> DEFINE p == published[id].pgc
  <2>2. MadeEntry(published[id]) BY <1>5, <2>1 DEF EntriesMade, WholeEntry
  <2>3. \E S : p.inputLabels \in Seq(S) BY <2>2 DEF MadeEntry, Made, MadeFrom, SwappedLabels
  <2>4. \E T : p.tables \in Seq(T)
    BY <2>2, TablesOfGarbling DEF MadeEntry, Made, MadeFrom
  <2>5. client = DefaultPgc \/ ReadOf(client, p)
    BY <1>2, <1>3, <1>5, <2>1 DEF ClientInv, OnlyReads
  <2> HIDE DEF p
  <2>6. ReadOf(ReadProtobuf(p, client), p) BY <2>3, <2>4, <2>5, ReadAgain
  <2> QED BY <1>1, <2>1, <2>6 DEF p
<1> QED BY <1>1, <1>2, <1>4, <1>5 DEF ClientInv, OnlyReads

PackmsgInv ==
  \/ packmsg = NoPackmsg
  \/ /\ packmsg.id \in DOMAIN published /\ packmsg.text \in Texts
     /\ IsStripped(published[packmsg.id].pgc)
     /\ LET pre == published[packmsg.id].prePackmsg
        IN  /\ packmsg.garbledValues = pre.labels
            /\ packmsg.xormask = pack_bits64(XorBits(pre.xormask, Watermark[packmsg.text]))

LEMMA RequestGetsPackmsg ==
  ASSUME EntriesMade, GarblingsInv, PackmsgInv, NEW id \in DOMAIN published,
         NEW text \in Texts, RequestPackmsg(id, text)
  PROVE  PackmsgInv'
<1> DEFINE pre == published[id].prePackmsg
<1>1. published' = published BY DEF RequestPackmsg, server
<1>2. \/ packmsg' = packmsg
      \/ /\ "WIDTH" \in DOMAIN pre.config
         /\ packmsg' = [garbledValues |-> pre.labels,
                        xormask |-> pack_bits64(XorBits(pre.xormask, Watermark[text])),
                        id |-> id, text |-> text]
  BY DEF RequestPackmsg, ReadProtobufPackmsg, WriteProtobufPackmsg, PackmsgFromPrepacket,
         ReadProtobufPrePackmsg
<1> HIDE DEF pre
<1>3. CASE packmsg' = packmsg BY <1>1, <1>3 DEF PackmsgInv
<1>4. CASE /\ "WIDTH" \in DOMAIN pre.config
           /\ packmsg' = [garbledValues |-> pre.labels,
                          xormask |-> pack_bits64(XorBits(pre.xormask, Watermark[text])),
                          id |-> id, text |-> text]
  <2>1. ~ WholeEntry(published[id]) BY <1>4 DEF WholeEntry, EmptyConfig, pre
  <2>2. MadeEntry(published[id]) BY <2>1 DEF EntriesMade
  <2>3. IsStripped(published[id].pgc) BY <2>2, MadeIsStripped DEF MadeEntry
  <2> QED BY <1>1, <1>4, <2>3 DEF PackmsgInv, pre
<1> QED BY <1>2, <1>3, <1>4

--------------------------------------------------------------------------------
(***************************************************************************)
(* The invariant: with IInv, what the pairs were made of, what the client   *)
(* has read and what its packet is.                                         *)
(***************************************************************************)
MadeInv == IInv /\ ServerMade /\ EntriesMade /\ ClientInv /\ PackmsgInv

(* What the client has stays right while more is published. *)
LEMMA PublishKeepsClient ==
  ASSUME PublishedInv, ClientInv, PackmsgInv, Publish
  PROVE  ClientInv' /\ PackmsgInv'
<1>1. /\ DOMAIN published' = DOMAIN published \cup {Len(published) + 1}
      /\ \A id \in DOMAIN published : published'[id] = published[id]
      /\ DOMAIN published = 1 .. Len(published) /\ Len(published) \in Nat
  BY PublishAppends
<1>2. UNCHANGED <<client, reads, packmsg>> BY DEF Publish
<1>3. reads' \in Seq(DOMAIN published') BY <1>1, <1>2, SeqMonotonic DEF ClientInv
<1>4. ASSUME NEW id \in DOMAIN published', OnlyReads(id)', published'[id].pgc.outputLabels = <<>>
      PROVE  ReadOf(client, published'[id].pgc)
  <2>1. reads \in Seq(DOMAIN published) /\ reads # <<>> /\ \A i \in DOMAIN reads : reads[i] = id
    BY <1>2, <1>4 DEF ClientInv, OnlyReads
  <2>2. 1 \in DOMAIN reads BY <2>1, LenProperties, EmptySeq
  <2>3. id \in DOMAIN published BY <2>1, <2>2, LenProperties, ElementOfSeq
  <2> QED BY <1>1, <1>4, <2>1, <2>3 DEF ClientInv, OnlyReads
<1>5. ClientInv' BY <1>2, <1>3, <1>4 DEF ClientInv
<1>6. PackmsgInv' BY <1>1, <1>2 DEF PackmsgInv
<1> QED BY <1>5, <1>6

LEMMA ClientStays ==
  ASSUME ClientInv, PackmsgInv, UNCHANGED <<published, client, reads, packmsg>>
  PROVE  ClientInv' /\ PackmsgInv'
  BY DEF ClientInv, PackmsgInv, OnlyReads

LEMMA EmptyClient ==
  ASSUME client = DefaultPgc, reads = <<>>
  PROVE  ClientInv
<1>1. reads \in Seq(DOMAIN published) OBVIOUS
<1> QED BY <1>1 DEF ClientInv, OnlyReads

LEMMA MadeInductive ==
  ASSUME MadeInv, [Next]_vars
  PROVE  MadeInv'
<1>1. IInv' BY Inductive DEF MadeInv
<1> USE DEF MadeInv, IInv
<1>2. ASSUME NEW skcd \in Skcds, NEW lsbs \in LsbChoices, GarbleSkcd(skcd, lsbs)
      PROVE  MadeInv'
  <2>1. Garbles(skcd, lsbs) /\ UNCHANGED <<published, client, reads, packmsg>>
    BY <1>2 DEF GarbleSkcd, ServerAfter
  <2>2. EntriesMade' BY <2>1, GarblesAppends, EntriesStay
  <2>3. ServerMade' BY <1>2, GarbleSkcdMakes
  <2> QED BY <1>1, <2>1, <2>2, <2>3, ClientStays
<1>3. ASSUME NEW skcd \in Skcds, NEW digits \in DigitChoices, NEW lsbs \in LsbChoices,
             GarbleAndStrip(skcd, digits, lsbs)
      PROVE  MadeInv'
  <2>1. Garbles(skcd, lsbs) /\ UNCHANGED <<published, client, reads, packmsg>>
    BY <1>3 DEF GarbleAndStrip, ServerAfter
  <2>2. EntriesMade' BY <2>1, GarblesAppends, EntriesStay
  <2>3. ServerMade' BY <1>3, GarbleAndStripMakes
  <2> QED BY <1>1, <2>1, <2>2, <2>3, ClientStays
<1>4. ASSUME NEW digits \in DigitChoices, NEW ndebug \in BOOLEAN, NEW readable \in BOOLEAN,
             Strip(digits, ndebug, readable)
      PROVE  MadeInv'
  <2>1. UNCHANGED <<garblings, published, client, reads, packmsg>>
    BY <1>4 DEF Strip, ServerAfter
  <2>2. EntriesMade' BY <2>1, EntriesStay
  <2>3. ServerMade' BY <1>4, StripMakesServer
  <2> QED BY <1>1, <2>1, <2>2, <2>3, ClientStays
<1>5. CASE Publish
  <2>1. UNCHANGED <<garblings, pgc, prePackmsg, strippedWith>> BY <1>5 DEF Publish
  <2>2. ServerMade' BY <2>1 DEF ServerMade
  <2> QED BY <1>1, <1>5, <2>2, PublishMakes, PublishKeepsClient
<1>6. ASSUME UNCHANGED server PROVE ServerMade' /\ EntriesMade'
  <2>1. UNCHANGED <<garblings, pgc, prePackmsg, strippedWith, published>> BY <1>6 DEF server
  <2> QED BY <2>1, EntriesStay DEF ServerMade
<1>7. ASSUME NEW id \in DOMAIN published, NEW text \in Texts, RequestPackmsg(id, text)
      PROVE  MadeInv'
  <2>1. UNCHANGED server /\ UNCHANGED <<published, client, reads>>
    BY <1>7 DEF RequestPackmsg, server
  <2>2. ClientInv' BY <2>1 DEF ClientInv, OnlyReads
  <2> QED BY <1>1, <1>6, <1>7, <2>1, <2>2, RequestGetsPackmsg
<1>8. CASE NewClient
  <2>1. UNCHANGED server /\ UNCHANGED <<published, packmsg>> BY <1>8 DEF NewClient, server
  <2>2. client' = DefaultPgc /\ reads' = <<>> BY <1>8 DEF NewClient
  <2>3. ClientInv' BY <2>2 DEF ClientInv, OnlyReads
  <2>4. PackmsgInv' BY <2>1 DEF PackmsgInv
  <2> QED BY <1>1, <1>6, <2>1, <2>3, <2>4
<1>9. ASSUME NEW id \in DOMAIN published, ReadPgc(id)
      PROVE  MadeInv'
  <2>1. UNCHANGED server /\ UNCHANGED <<published, packmsg>> BY <1>9 DEF ReadPgc, server
  <2>2. PackmsgInv' BY <2>1 DEF PackmsgInv
  <2> QED BY <1>1, <1>6, <1>9, <2>1, <2>2, ReadPgcReads
<1>10. CASE ReadDamagedPgc \/ UNCHANGED vars
  <2>1. UNCHANGED server /\ UNCHANGED <<published, client, reads, packmsg>>
    BY <1>10 DEF ReadDamagedPgc, vars, server
  <2> QED BY <1>1, <1>6, <2>1, ClientStays
<1>11. ASSUME NEW inputs \in InputChoices, EvalWithInputs(inputs) \/ EvalWithPackmsg(inputs)
       PROVE  MadeInv'
  <2>1. /\ UNCHANGED server
        /\ \/ client' = DefaultPgc /\ reads' = <<>> /\ packmsg' = NoPackmsg
           \/ UNCHANGED <<client, reads, packmsg>>
    BY <1>11 DEF EvalWithInputs, EvalWithPackmsg, ClientAfter
  <2>2. published' = published BY <2>1 DEF server
  <2>3. CASE client' = DefaultPgc /\ reads' = <<>> /\ packmsg' = NoPackmsg
    <3>1. ClientInv' BY <2>3 DEF ClientInv, OnlyReads
    <3>2. PackmsgInv' BY <2>3 DEF PackmsgInv, NoPackmsg
    <3> QED BY <1>1, <1>6, <2>1, <3>1, <3>2
  <2>4. CASE UNCHANGED <<client, reads, packmsg>>
    BY <1>1, <1>6, <2>1, <2>2, <2>4, ClientStays
  <2> QED BY <2>1, <2>3, <2>4
<1> QED BY <1>2, <1>3, <1>4, <1>5, <1>7, <1>8, <1>9, <1>10, <1>11 DEF Next

LEMMA InitMadeInv ==
  ASSUME Init
  PROVE  MadeInv
<1>1. /\ garblings = <<>> /\ published = <<>> /\ pgc = DefaultPgc
      /\ client = DefaultPgc /\ reads = <<>> /\ packmsg = NoPackmsg
  BY DEF Init
<1> QED BY <1>1, InitIInv, EmptyClient
     DEF MadeInv, ServerMade, EntriesMade, PackmsgInv

--------------------------------------------------------------------------------
(***************************************************************************)
(* What is burned into a circuit that was stripped: the segments that light *)
(* for the digits, and the random inputs whose labels were swapped.         *)
(***************************************************************************)
LEMMA SegmentIsLit ==
  ASSUME NEW d \in 0 .. 9, NEW s \in 1 .. 7
  PROVE  kMapDigitTo7Segs[d + 1][s] = IF d \in Burned!LitBy[s] THEN 1 ELSE 0
<1>1. s \in {1, 2, 3, 4, 5, 6, 7} OBVIOUS
<1>2. CASE d = 0 BY <1>1, <1>2 DEF kMapDigitTo7Segs, Burned!LitBy
<1>3. CASE d = 1 BY <1>1, <1>3 DEF kMapDigitTo7Segs, Burned!LitBy
<1>4. CASE d = 2 BY <1>1, <1>4 DEF kMapDigitTo7Segs, Burned!LitBy
<1>5. CASE d = 3 BY <1>1, <1>5 DEF kMapDigitTo7Segs, Burned!LitBy
<1>6. CASE d = 4 BY <1>1, <1>6 DEF kMapDigitTo7Segs, Burned!LitBy
<1>7. CASE d = 5 BY <1>1, <1>7 DEF kMapDigitTo7Segs, Burned!LitBy
<1>8. CASE d = 6 BY <1>1, <1>8 DEF kMapDigitTo7Segs, Burned!LitBy
<1>9. CASE d = 7 BY <1>1, <1>9 DEF kMapDigitTo7Segs, Burned!LitBy
<1>10. CASE d = 8 BY <1>1, <1>10 DEF kMapDigitTo7Segs, Burned!LitBy
<1>11. CASE d = 9 BY <1>1, <1>11 DEF kMapDigitTo7Segs, Burned!LitBy
<1> QED BY <1>2, <1>3, <1>4, <1>5, <1>6, <1>7, <1>8, <1>9, <1>10, <1>11

LEMMA ShuffleIsSwitched ==
  ASSUME NEW c \in Skcds, IsDisplay(c.config), NEW g, NEW labels,
         NEW switched, SwappedLabels(labels, c, g, switched)
  PROVE  { i \in RandomInputs(c.config) : LabelOf(labels, i, 0).bit = 1 } = switched
<1>1. RandomInputs(c.config) \subseteq 0 .. c.nbInputs - 1 BY DisplayFacts, SkcdFacts
<1>2. ASSUME NEW i \in RandomInputs(c.config)
      PROVE  LabelOf(labels, i, 0).bit = 1 <=> i \in switched
  <2>1. LabelOf(labels, i, 0) = IF i \in switched THEN Label(g, i, 1) ELSE Label(g, i, 0)
    <3>1. 0 \in Bit /\ 1 - 0 = 1 BY DEF Bit
    <3> QED BY <1>1, <1>2, <3>1 DEF SwappedLabels
  <2> QED BY <2>1 DEF Label
<1>3. switched \subseteq RandomInputs(c.config) BY DEF SwappedLabels
<1> QED BY <1>2, <1>3

LEMMA SegmentsAreBurned ==
  ASSUME NEW c \in Skcds, IsDisplay(c.config), NEW g, NEW digits \in Seq(0 .. 9),
         FitsDisplay(c, digits), NEW labels,
         labels = PrepareInputLabels(GarbleSkcdFromBuffer(c, g), digits)
  PROVE  (IF labels = <<>> THEN <<>>
          ELSE [i \in 1 .. c.config["BITMAP_NB_SEGMENTS"] |-> labels[i].bit])
           = [s \in 1 .. 7 * Len(digits) |-> Burned!Segment(digits, s - 1)]
<1> DEFINE segments == [s \in 1 .. 7 * Len(digits) |-> Burned!Segment(digits, s - 1)]
<1>1. CASE digits = <<>>
  <2>1. labels = <<>> BY <1>1 DEF PrepareInputLabels
  <2>2. 7 * Len(digits) = 0 BY <1>1
  <2>3. segments \in [1 .. 0 -> Bit] BY <2>2 DEF Burned!Segment, Bit
  <2> HIDE DEF segments
  <2>4. segments \in Seq(Bit) /\ Len(segments) = 0 BY <2>3, FunctionIsSeq
  <2> QED BY <2>1, <2>4, EmptySeq DEF segments
<1>2. CASE digits # <<>>
  <2> DEFINE n == c.config["BITMAP_NB_SEGMENTS"]
             bits == InputBits(digits, c.config["RNDSIZE"])
  <2>1. 7 * Len(digits) = n /\ Len(digits) \in Nat
    BY <1>2, LenProperties DEF FitsDisplay
  <2>2. /\ n \in Nat /\ c.config["RNDSIZE"] \in Nat
        /\ c.nbInputs = n + c.config["RNDSIZE"] + 1
        /\ RandomInputs(c.config) = n .. c.nbInputs - 2
    BY DisplayFacts
  <2>3. ASSUME NEW i \in 1 .. n PROVE labels[i].bit = Burned!Segment(digits, i - 1)
    <3>1. i \in 1 .. c.nbInputs /\ i - 1 \notin RandomInputs(c.config) BY <2>2
    <3>2. labels[i] = Label(g, i - 1, bits[i]) BY <1>2, <2>1, <3>1, PreparedLabels
    <3>3. bits[i] = DigitsTo7Segments(digits)[i] BY <2>1, <2>2, InputBitsAreBits
    <3>4. DigitsTo7Segments(digits)[i]
            = kMapDigitTo7Segs[digits[1 + ((i - 1) \div 7)] + 1][1 + ((i - 1) % 7)]
      BY <2>1 DEF DigitsTo7Segments
    <3>5. /\ 1 + ((i - 1) \div 7) \in 1 .. Len(digits)
          /\ 1 + ((i - 1) % 7) \in 1 .. 7
      BY <2>1
    <3>6. digits[1 + ((i - 1) \div 7)] \in 0 .. 9 BY <2>1, <3>5, ElementOfSeq
    <3>7. kMapDigitTo7Segs[digits[1 + ((i - 1) \div 7)] + 1][1 + ((i - 1) % 7)]
            = Burned!Segment(digits, i - 1)
      BY <3>5, <3>6, SegmentIsLit DEF Burned!Segment
    <3> QED BY <3>2, <3>3, <3>4, <3>7 DEF Label
  <2>4. labels # <<>>
    <3>1. 1 \in 1 .. c.nbInputs BY <2>2
    <3>2. DOMAIN labels = 1 .. c.nbInputs BY <1>2, <2>1, <3>1, PreparedLabels
    <3>3. 1 \in DOMAIN labels BY <3>1, <3>2
    <3>4. DOMAIN <<>> = {} OBVIOUS
    <3> QED BY <3>3, <3>4
  <2>5. segments = [s \in 1 .. n |-> Burned!Segment(digits, s - 1)] BY <2>1
  <2>6. [i \in 1 .. n |-> labels[i].bit] = [s \in 1 .. n |-> Burned!Segment(digits, s - 1)]
    BY <2>3
  <2> HIDE DEF segments
  <2> QED BY <2>4, <2>5, <2>6 DEF segments
<1> QED BY <1>1, <1>2

LEMMA EntryIsBurned ==
  ASSUME NEW c \in Skcds, NEW g, NEW lsbs, NEW entry, Fits(entry),
         MadeFrom(entry.pgc, entry.prePackmsg, entry.digits, c, g, lsbs)
  PROVE  /\ IsDisplay(c.config)
         /\ \E digits \in DigitChoices, shuffle \in SUBSET RandomInputs(c.config) :
              BurnedBy(entry) = [skcd     |-> c,
                                 segments |-> [s \in 1 .. 7 * Len(digits) |->
                                                 Burned!Segment(digits, s - 1)],
                                 shuffle  |-> shuffle]
<1> DEFINE labels == entry.prePackmsg.labels
           segments == IF labels = <<>> THEN <<>>
                       ELSE [i \in 1 .. c.config["BITMAP_NB_SEGMENTS"] |-> labels[i].bit]
           swapped == { i \in RandomInputs(c.config) :
                          LabelOf(entry.pgc.inputLabels, i, 0).bit = 1 }
<1>1. /\ entry.pgc.skcd = c /\ IsStripped(entry.pgc) /\ IsDisplay(c.config)
      /\ FitsDisplay(c, entry.digits)
  BY SkcdFacts DEF MadeFrom, IsStripped, Fits
<1>2. BurnedBy(entry) = [skcd |-> c, segments |-> segments, shuffle |-> swapped]
  BY <1>1 DEF BurnedBy
<1>3. PICK switched : SwappedLabels(entry.pgc.inputLabels, c, g, switched)
  BY DEF MadeFrom
<1> DEFINE digits == entry.digits
<1>4. /\ digits \in DigitChoices /\ digits \in Seq(0 .. 9)
      /\ labels = PrepareInputLabels(GarbleSkcdFromBuffer(c, g), digits)
  BY DEF MadeFrom
<1>5. swapped = switched BY <1>1, <1>3, ShuffleIsSwitched
<1>6. switched \in SUBSET RandomInputs(c.config) BY <1>3 DEF SwappedLabels
<1>7. segments = [s \in 1 .. 7 * Len(digits) |-> Burned!Segment(digits, s - 1)]
  <2>1. FitsDisplay(c, digits) BY <1>1
  <2> HIDE DEF labels, digits
  <2> QED BY <1>1, <1>4, <2>1, SegmentsAreBurned
<1> HIDE DEF segments, swapped, digits
<1> QED BY <1>1, <1>2, <1>4, <1>5, <1>6, <1>7

LEMMA NothingShown ==
  ASSUME last'.call # "EvaluateWithPackmsg"
  PROVE  imageBar' = Burned!NoImage
  BY DEF imageBar, ShowsMessage, NotShown, Burned!NoImage

LEMMA NothingBurned ==
  ASSUME published' = published
  PROVE  burnedBar' = burnedBar
  BY DEF burnedBar

LEMMA BurnedGrows ==
  ASSUME PublishedInv, Publish
  PROVE  burnedBar' = Append(burnedBar, BurnedBy(NewEntry))
<1> DEFINE n == Len(published)
           entry == BurnedBy(NewEntry)
           S == { BurnedBy(published[id]) : id \in 1 .. n } \cup {entry}
<1>1. /\ n \in Nat /\ DOMAIN published = 1 .. n
      /\ DOMAIN published' = (1 .. n) \cup {n + 1}
      /\ \A id \in 1 .. n : published'[id] = published[id]
      /\ published'[n + 1] = NewEntry
  BY PublishAppends
<1> HIDE DEF n
<1>2. DOMAIN published' = 1 .. n + 1 BY <1>1
<1>3. burnedBar = [id \in 1 .. n |-> BurnedBy(published[id])] BY <1>1 DEF burnedBar
<1>4. burnedBar' = [id \in 1 .. n + 1 |-> BurnedBy(published'[id])] BY <1>2 DEF burnedBar
<1>5. burnedBar \in [1 .. n -> S] BY <1>3
<1> HIDE DEF entry
<1>6. entry \in S OBVIOUS
<1> HIDE DEF S
<1>7. burnedBar \in Seq(S) /\ Len(burnedBar) = n BY <1>1, <1>5, FunctionIsSeq
<1> DEFINE longer == Append(burnedBar, entry)
<1>8. /\ longer \in Seq(S) /\ Len(longer) = n + 1
      /\ \A i \in 1 .. n : longer[i] = burnedBar[i]
      /\ longer[n + 1] = entry
  BY <1>6, <1>7, AppendProperties
<1> HIDE DEF longer
<1>9. longer = [i \in 1 .. n + 1 |-> longer[i]] BY <1>8, LenProperties
<1>10. ASSUME NEW i \in 1 .. n + 1 PROVE longer[i] = BurnedBy(published'[i])
  <2>1. CASE i \in 1 .. n BY <1>1, <1>3, <1>8, <2>1
  <2>2. CASE i = n + 1 BY <1>1, <1>8, <2>2 DEF entry
  <2> QED BY <1>1, <2>1, <2>2
<1>11. longer = burnedBar' BY <1>4, <1>9, <1>10
<1> QED BY <1>11 DEF longer, entry

(* What is published is burned, or as it was garbled. *)
LEMMA PublishBurns ==
  ASSUME GarblingsInv, PublishedInv, ServerMade, Publish
  PROVE  Burned!Publish
<1>1. burnedBar' = Append(burnedBar, BurnedBy(NewEntry)) BY BurnedGrows
<1>2. imageBar' = Burned!NoImage BY NothingShown DEF Publish, Called
<1>3. pgc # DefaultPgc BY PublishAppends
<1>4. CASE WholeEntry(NewEntry)
  <2> DEFINE c == NewEntry.pgc.skcd
  <2>1. c \in Skcds /\ ~ IsStripped(NewEntry.pgc) BY <1>4 DEF WholeEntry, IsStripped
  <2>2. BurnedBy(NewEntry) = Burned!Whole(c) BY <2>1 DEF BurnedBy, Burned!Whole
  <2> HIDE DEF c
  <2> QED BY <1>1, <1>2, <2>1, <2>2 DEF Burned!Publish
<1>5. CASE MadeEntry(NewEntry) /\ ~ Fits(NewEntry)
  <2> DEFINE c == NewEntry.pgc.skcd
  <2>1. c \in Skcds BY <1>5, MadeIsStripped DEF MadeEntry
  <2>2. BurnedBy(NewEntry) = Burned!Whole(c) BY <1>5 DEF BurnedBy, Burned!Whole
  <2> HIDE DEF c
  <2> QED BY <1>1, <1>2, <2>1, <2>2 DEF Burned!Publish
<1>6. CASE MadeEntry(NewEntry) /\ Fits(NewEntry)
  <2> DEFINE g == NewEntry.pgc.globalKey
             c == garblings[g].skcd
  <2>1. /\ c \in Skcds
        /\ MadeFrom(NewEntry.pgc, NewEntry.prePackmsg, NewEntry.digits, c, g, garblings[g].lsbs)
    BY <1>6, GarblingIsTyped DEF MadeEntry, Made
  <2> HIDE DEF c, g
  <2>2. /\ IsDisplay(c.config)
        /\ \E digits \in DigitChoices, shuffle \in SUBSET RandomInputs(c.config) :
             BurnedBy(NewEntry) = [skcd     |-> c,
                                   segments |-> [s \in 1 .. 7 * Len(digits) |->
                                                   Burned!Segment(digits, s - 1)],
                                   shuffle  |-> shuffle]
    BY <1>6, <2>1, EntryIsBurned, ZenonT(60)
  <2>3. /\ Burned!IsDisplay(c.config)
        /\ Burned!RandomInputs(c.config) = RandomInputs(c.config)
    BY <2>2 DEF Burned!IsDisplay, IsDisplay, Burned!ConfigKeys, ConfigKeys,
                Burned!RandomInputs, RandomInputs
  <2>4. PICK digits \in DigitChoices, shuffle \in SUBSET Burned!RandomInputs(c.config) :
          BurnedBy(NewEntry) = [skcd     |-> c,
                                segments |-> [s \in 1 .. 7 * Len(digits) |->
                                                Burned!Segment(digits, s - 1)],
                                shuffle  |-> shuffle]
    BY <2>2, <2>3
  <2>5. Burned!Burn(c, digits, shuffle) BY <1>1, <2>4 DEF Burned!Burn
  <2> QED BY <1>2, <2>1, <2>3, <2>5 DEF Burned!Publish
<1> QED BY <1>3, <1>4, <1>5, <1>6, NewEntryIsMade

--------------------------------------------------------------------------------
(***************************************************************************)
(* An evaluation with a circuit's own packet.  First the labels that it is  *)
(* evaluated with: those of the inputs of the frame, in one garbling.       *)
(***************************************************************************)
PacketFor(entry, c, g, lsbs) ==
  /\ MadeFrom(entry.pgc, entry.prePackmsg, entry.digits, c, g, lsbs)
  /\ FitsDisplay(c, entry.digits)
  /\ entry.prePackmsg.labels # <<>>

OwnPacket(entry, c, g, lsbs) ==
  /\ PacketFor(entry, c, g, lsbs)
  /\ \A i \in DOMAIN entry.prePackmsg.labels : entry.prePackmsg.labels[i] \notin HalfZeroLabels

LEMMA PacketLabels ==
  ASSUME NEW c \in Skcds, NEW g, NEW lsbs, NEW entry, PacketFor(entry, c, g, lsbs),
         NEW labels, labels = entry.prePackmsg.labels, NEW i \in 1 .. c.nbInputs
  PROVE  /\ DOMAIN labels = 1 .. c.nbInputs
         /\ i - 1 \in RandomInputs(c.config) => labels[i] = Zero
         /\ i - 1 \notin RandomInputs(c.config) => labels[i] = Label(g, i - 1, labels[i].bit)
         /\ i = c.nbInputs => labels[i].bit = 0
<1>1. IsDisplay(c.config) BY DEF PacketFor, MadeFrom
<1> DEFINE digits == entry.digits
<1>2. /\ digits \in Seq(0 .. 9) /\ FitsDisplay(c, digits)
      /\ labels = PrepareInputLabels(GarbleSkcdFromBuffer(c, g), digits)
  BY DEF PacketFor, MadeFrom
<1> HIDE DEF digits
<1>3. digits # <<>> BY <1>2 DEF PrepareInputLabels, PacketFor
<1>4. Len(digits) \in Nat /\ 7 * Len(digits) = c.config["BITMAP_NB_SEGMENTS"]
  BY <1>2, <1>3, LenProperties DEF FitsDisplay
<1> DEFINE bits == InputBits(digits, c.config["RNDSIZE"])
<1>5. /\ DOMAIN labels = 1 .. c.nbInputs /\ bits[i] \in Bit
      /\ labels[i] = IF i - 1 \in RandomInputs(c.config) THEN Zero ELSE Label(g, i - 1, bits[i])
  BY <1>1, <1>2, <1>3, <1>4, PreparedLabels
<1>6. /\ c.config["RNDSIZE"] \in Nat
      /\ c.nbInputs = c.config["BITMAP_NB_SEGMENTS"] + c.config["RNDSIZE"] + 1
      /\ RandomInputs(c.config) = c.config["BITMAP_NB_SEGMENTS"] .. c.nbInputs - 2
      /\ c.nbInputs \in Nat
  BY <1>1, DisplayFacts, SkcdFacts
<1>7. bits[c.nbInputs] = 0
  <2>1. bits[7 * Len(digits) + c.config["RNDSIZE"] + 1] = 0 BY <1>2, <1>6, InputBitsAreBits
  <2> QED BY <1>4, <1>6, <2>1
<1> HIDE DEF bits
<1>8. CASE i - 1 \in RandomInputs(c.config)
  <2>1. i # c.nbInputs BY <1>6, <1>8
  <2> QED BY <1>5, <1>8, <2>1
<1>9. CASE i - 1 \notin RandomInputs(c.config)
  <2>1. labels[i] = Label(g, i - 1, bits[i]) BY <1>5, <1>9
  <2>2. labels[i].bit = bits[i] BY <2>1 DEF Label
  <2> QED BY <1>5, <1>7, <1>9, <2>1, <2>2
<1> QED BY <1>8, <1>9

LEMMA OwnPacketLabels ==
  ASSUME NEW c \in Skcds, NEW g \in Nat \ {0}, NEW lsbs, NEW entry, OwnPacket(entry, c, g, lsbs),
         NEW labels, labels = entry.prePackmsg.labels, NEW i \in 1 .. c.nbInputs
  PROVE  /\ DOMAIN labels = 1 .. c.nbInputs
         /\ i - 1 \in RandomInputs(c.config) => labels[i] = Zero
         /\ i - 1 \notin RandomInputs(c.config) =>
              /\ BothHalvesSet(labels[i])
              /\ labels[i] = Label(g, i - 1, labels[i].bit)
         /\ i = c.nbInputs => labels[i].bit = 0
<1>1. /\ DOMAIN labels = 1 .. c.nbInputs
      /\ i - 1 \in RandomInputs(c.config) => labels[i] = Zero
      /\ i - 1 \notin RandomInputs(c.config) => labels[i] = Label(g, i - 1, labels[i].bit)
      /\ i = c.nbInputs => labels[i].bit = 0
  BY PacketLabels DEF OwnPacket
<1>2. ASSUME i - 1 \notin RandomInputs(c.config) PROVE BothHalvesSet(labels[i])
  <2>1. labels[i].garbling = g BY <1>1, <1>2 DEF Label
  <2>2. labels[i] # Zero BY <2>1 DEF Zero, Label
  <2>3. labels[i] \notin HalfZeroLabels BY <1>1 DEF OwnPacket
  <2> QED BY <2>2, <2>3 DEF BothHalvesSet
<1> QED BY <1>1, <1>2

LEMMA KeptLabels ==
  ASSUME NEW c \in Skcds, NEW g, IsDisplay(c.config), NEW p, NEW object, ReadOf(object, p),
         NEW switched, SwappedLabels(p.inputLabels, c, g, switched)
  PROVE  \A i \in RandomInputs(c.config), b \in Bit :
           LabelOf(object.inputLabels, i, b)
             = IF i \in switched THEN Label(g, i, 1 - b) ELSE Label(g, i, b)
<1> SUFFICES ASSUME NEW i \in RandomInputs(c.config), NEW b \in Bit
             PROVE  LabelOf(object.inputLabels, i, b)
                      = IF i \in switched THEN Label(g, i, 1 - b) ELSE Label(g, i, b)
  OBVIOUS
<1>1. c.nbInputs \in Nat /\ i \in 0 .. c.nbInputs - 1 BY SkcdFacts, DisplayFacts
<1>2. 2 * i + b + 1 \in 1 .. 2 * (c.nbInputs + 1) BY <1>1 DEF Bit
<1>3. LabelOf(object.inputLabels, i, b) = LabelOf(p.inputLabels, i, b)
  BY <1>2 DEF ReadOf, HasPrefix, SwappedLabels, LabelOf
<1> QED BY <1>1, <1>3 DEF SwappedLabels

Shuffled(entry, c, g, lsbs, switched) ==
  /\ PacketFor(entry, c, g, lsbs)
  /\ SwappedLabels(entry.pgc.inputLabels, c, g, switched)

(* Bit i of the frame of a display: its segments, its random inputs, its zero. *)
FrameBit(entry, c, switched, inputs, i) ==
  IF i <= c.config["BITMAP_NB_SEGMENTS"] THEN entry.prePackmsg.labels[i].bit
  ELSE IF i = c.nbInputs THEN 0
  ELSE IF i - 1 \in switched THEN 1 - inputs[i]
  ELSE inputs[i]

LEMMA FrameOfEntry ==
  ASSUME NEW c \in Skcds, NEW g, NEW lsbs, NEW entry, NEW switched,
         Shuffled(entry, c, g, lsbs, switched)
  PROVE  /\ BurnedBy(entry).skcd = c
         /\ \A inputs : Burned!FrameInputs(BurnedBy(entry), inputs)
                          = [i \in 1 .. c.nbInputs |-> FrameBit(entry, c, switched, inputs, i)]
<1>0. /\ PacketFor(entry, c, g, lsbs)
      /\ SwappedLabels(entry.pgc.inputLabels, c, g, switched)
  BY DEF Shuffled
<1> DEFINE n == c.config["BITMAP_NB_SEGMENTS"]
           labels == entry.prePackmsg.labels
           segments == [k \in 1 .. n |-> labels[k].bit]
<1>1. IsDisplay(c.config) /\ entry.pgc.skcd = c /\ IsStripped(entry.pgc) /\ Fits(entry)
  BY <1>0, SkcdFacts DEF PacketFor, MadeFrom, IsStripped, Fits
<1>2. { k \in RandomInputs(c.config) : LabelOf(entry.pgc.inputLabels, k, 0).bit = 1 } = switched
  BY <1>0, <1>1, ShuffleIsSwitched
<1>3. BurnedBy(entry) = [skcd |-> c, segments |-> segments, shuffle |-> switched]
  BY <1>0, <1>1, <1>2 DEF BurnedBy, PacketFor
<1>4. n \in Nat BY <1>1, DisplayFacts
<1>5. Len(segments) = n
  <2> DEFINE S == { labels[k].bit : k \in 1 .. n }
  <2>1. segments \in [1 .. n -> S] OBVIOUS
  <2> HIDE DEF segments, n, S
  <2> QED BY <1>4, <2>1, FunctionIsSeq
<1>6. \A i \in 1 .. n : segments[i] = labels[i].bit OBVIOUS
<1> HIDE DEF segments, n, labels
<1>7. ASSUME NEW inputs
      PROVE  Burned!FrameInputs(BurnedBy(entry), inputs)
               = [i \in 1 .. c.nbInputs |->
                    IF i <= n THEN segments[i]
                    ELSE IF i = c.nbInputs THEN 0
                    ELSE IF i - 1 \in switched THEN 1 - inputs[i]
                    ELSE inputs[i]]
  BY <1>3, <1>5 DEF Burned!FrameInputs
<1>8. \A i \in 1 .. c.nbInputs : i <= n => segments[i] = labels[i].bit
  BY <1>4, <1>6, SkcdFacts
<1>9. ASSUME NEW inputs, NEW i \in 1 .. c.nbInputs
      PROVE  FrameBit(entry, c, switched, inputs, i)
               = IF i <= n THEN segments[i]
                 ELSE IF i = c.nbInputs THEN 0
                 ELSE IF i - 1 \in switched THEN 1 - inputs[i]
                 ELSE inputs[i]
  BY <1>8 DEF FrameBit, n, labels
<1>10. \A inputs : Burned!FrameInputs(BurnedBy(entry), inputs)
                     = [i \in 1 .. c.nbInputs |-> FrameBit(entry, c, switched, inputs, i)]
  BY <1>7, <1>9
<1> QED BY <1>3, <1>10

LEMMA PatchedLabels ==
  ASSUME NEW c \in Skcds, NEW g \in Nat \ {0}, NEW lsbs, NEW entry, OwnPacket(entry, c, g, lsbs),
         NEW object, ReadOf(object, entry.pgc),
         NEW inputs \in Seq(Bit), Len(inputs) = c.nbInputs, NEW patched,
         patched = PatchInputs(entry.prePackmsg.labels, ExtractLabels(object, inputs))
  PROVE  /\ DOMAIN patched = 1 .. c.nbInputs
         /\ \A i \in 1 .. c.nbInputs :
              patched[i] = Label(g, i - 1, Burned!FrameInputs(BurnedBy(entry), inputs)[i])
<1> DEFINE labels == entry.prePackmsg.labels
           frame == Burned!FrameInputs(BurnedBy(entry), inputs)
<1>1. IsDisplay(c.config) BY DEF OwnPacket, PacketFor, MadeFrom
<1>2. PICK switched : SwappedLabels(entry.pgc.inputLabels, c, g, switched)
  BY DEF OwnPacket, PacketFor, MadeFrom
<1>3. /\ c.config["BITMAP_NB_SEGMENTS"] \in Nat /\ c.nbInputs \in Nat
      /\ c.config["RNDSIZE"] \in Nat
      /\ c.nbInputs = c.config["BITMAP_NB_SEGMENTS"] + c.config["RNDSIZE"] + 1
      /\ RandomInputs(c.config) = c.config["BITMAP_NB_SEGMENTS"] .. c.nbInputs - 2
  BY <1>1, DisplayFacts, SkcdFacts
<1>4. DOMAIN ExtractLabels(object, inputs) = 1 .. c.nbInputs BY DEF ExtractLabels
<1>5. DOMAIN patched = 1 .. c.nbInputs BY <1>4 DEF PatchInputs
<1>6. Shuffled(entry, c, g, lsbs, switched) BY <1>2 DEF Shuffled, OwnPacket
<1>10. frame = [i \in 1 .. c.nbInputs |-> FrameBit(entry, c, switched, inputs, i)]
  BY <1>6, FrameOfEntry
<1>7. \A i \in RandomInputs(c.config), b \in Bit :
        LabelOf(object.inputLabels, i, b)
          = IF i \in switched THEN Label(g, i, 1 - b) ELSE Label(g, i, b)
  BY <1>1, <1>2, KeptLabels
<1>8. ASSUME NEW i \in 1 .. c.nbInputs
      PROVE  patched[i] = Label(g, i - 1, frame[i])
  <2>1. /\ DOMAIN labels = 1 .. c.nbInputs
        /\ i - 1 \in RandomInputs(c.config) => labels[i] = Zero
        /\ i - 1 \notin RandomInputs(c.config) =>
             BothHalvesSet(labels[i]) /\ labels[i] = Label(g, i - 1, labels[i].bit)
        /\ i = c.nbInputs => labels[i].bit = 0
    BY OwnPacketLabels
  <2>2. frame[i] = IF i <= c.config["BITMAP_NB_SEGMENTS"] THEN labels[i].bit
                   ELSE IF i = c.nbInputs THEN 0
                   ELSE IF i - 1 \in switched THEN 1 - inputs[i]
                   ELSE inputs[i]
    BY <1>10 DEF FrameBit
  <2>3. patched[i] = IF BothHalvesSet(labels[i]) THEN labels[i]
                     ELSE ExtractLabels(object, inputs)[i]
    BY <1>4, <2>1 DEF PatchInputs
  <2>4. ExtractLabels(object, inputs)[i] = LabelOf(object.inputLabels, i - 1, inputs[i])
    BY DEF ExtractLabels
  <2> HIDE DEF labels, frame
  <2>5. CASE i - 1 \in RandomInputs(c.config)
    <3>1. ~ BothHalvesSet(labels[i]) BY <2>1, <2>5 DEF BothHalvesSet
    <3> DEFINE b == inputs[i]
    <3>2. b \in Bit BY ElementOfSeq
    <3> HIDE DEF b
    <3>3. LabelOf(object.inputLabels, i - 1, b)
            = IF i - 1 \in switched THEN Label(g, i - 1, 1 - b) ELSE Label(g, i - 1, b)
      BY <1>7, <2>5, <3>2
    <3>4. ~ (i <= c.config["BITMAP_NB_SEGMENTS"]) /\ i # c.nbInputs BY <1>3, <2>5
    <3>5. frame[i] = IF i - 1 \in switched THEN 1 - inputs[i] ELSE inputs[i] BY <2>2, <3>4
    <3> QED BY <2>3, <2>4, <3>1, <3>3, <3>5 DEF b
  <2>6. CASE i - 1 \notin RandomInputs(c.config)
    <3>1. i <= c.config["BITMAP_NB_SEGMENTS"] \/ i = c.nbInputs BY <1>3, <2>6
    <3>2. frame[i] = labels[i].bit BY <2>1, <2>2, <3>1
    <3> QED BY <2>1, <2>3, <2>6, <3>2
  <2> QED BY <2>5, <2>6
<1> QED BY <1>5, <1>8

LEMMA OwnPacketSize ==
  ASSUME NEW c \in Skcds, NEW g \in Nat \ {0}, NEW lsbs, NEW entry, OwnPacket(entry, c, g, lsbs)
  PROVE  Len(entry.prePackmsg.labels) = c.nbInputs
<1> DEFINE labels == entry.prePackmsg.labels
           n == c.nbInputs
           S == { labels[i] : i \in 1 .. n }
<1>1. labels = PrepareInputLabels(GarbleSkcdFromBuffer(c, g), entry.digits)
  BY DEF OwnPacket, PacketFor, MadeFrom
<1>2. labels # <<>> BY DEF OwnPacket, PacketFor
<1>3. labels = [i \in DOMAIN labels |-> labels[i]] BY <1>1, <1>2 DEF PrepareInputLabels
<1>4. IsDisplay(c.config) BY DEF OwnPacket, PacketFor, MadeFrom
<1>5. n \in Nat /\ 1 \in 1 .. n BY <1>4, SkcdFacts, DisplayFacts
<1>6. DOMAIN labels = 1 .. n BY <1>5, OwnPacketLabels
<1> HIDE DEF labels, n
<1>7. labels \in [1 .. n -> S] BY <1>3, <1>6
<1>8. Len(labels) = n BY <1>5, <1>7, FunctionIsSeq
<1> QED BY <1>8 DEF labels, n

(* The lowest bits of the label for 0, once more, and of the message. *)
LEMMA MaskIsUndone ==
  ASSUME NEW a \in Bit, NEW l \in Bit, NEW w \in Bit
  PROVE  XorBit(XorBit(a, l), XorBit(l, w)) = (a + w) % 2
<1>1. \A x \in Bit : \A y \in Bit : XorBit(x, y) = IF x = y THEN 0 ELSE 1
  <2> SUFFICES ASSUME NEW x \in Bit, NEW y \in Bit
               PROVE  XorBit(x, y) = IF x = y THEN 0 ELSE 1
    OBVIOUS
  <2>1. XorBit(x, y) = (x + y) % 2 BY DEF XorBit, Bit, AnyBit
  <2> QED BY <2>1 DEF Bit
<1>2. XorBit(a, l) \in Bit /\ XorBit(l, w) \in Bit BY <1>1 DEF Bit
<1>3. XorBit(XorBit(a, l), XorBit(l, w)) = IF a = w THEN 0 ELSE 1
  BY <1>1, <1>2 DEF Bit
<1>4. (a + w) % 2 = IF a = w THEN 0 ELSE 1 BY DEF Bit
<1> QED BY <1>3, <1>4

LEMMA MaskOfText ==
  ASSUME NEW lsbs \in Seq(Bit), NEW mark \in Seq(Bit), NEW mask, mask = XorBits(lsbs, mark),
         Len(mark) = Len(lsbs)
  PROVE  /\ mask \in Seq(Bit) /\ Len(mask) = Len(lsbs)
         /\ \A o \in 1 .. Len(lsbs) :
              mask[o] = XorBit(lsbs[o], mark[o]) /\ lsbs[o] \in Bit /\ mark[o] \in Bit
<1> DEFINE n == Len(lsbs)
<1>1. n \in Nat /\ mask = [o \in 1 .. n |-> XorBit(lsbs[o], mark[o])]
  BY LenProperties DEF XorBits
<1>2. \A o \in 1 .. n : lsbs[o] \in Bit /\ mark[o] \in Bit BY ElementOfSeq
<1> HIDE DEF n
<1>3. ASSUME NEW o \in 1 .. n PROVE XorBit(lsbs[o], mark[o]) \in Bit
  <2> DEFINE a == lsbs[o]
             b == mark[o]
  <2>1. a \in Bit /\ b \in Bit BY <1>2
  <2> HIDE DEF a, b
  <2>2. XorBit(a, b) \in Bit BY <2>1 DEF XorBit, Bit, AnyBit
  <2> QED BY <2>2 DEF a, b
<1>4. mask \in [1 .. n -> Bit] BY <1>1, <1>3
<1>5. mask \in Seq(Bit) /\ Len(mask) = n BY <1>1, <1>4, FunctionIsSeq
<1> QED BY <1>1, <1>2, <1>5 DEF n


(* The lowest bits of outputs that stand for their bits. *)
LabelBits(c, bits, lsbs) ==
  [o \in 1 .. Len(c.outputs) |-> XorBit(OutputBit(c.outputs[o], bits), lsbs[o])]

LEMMA OwnLowBits ==
  ASSUME GarblingsInv, NEW g, NEW c, NEW p, NEW labels, NEW bits,
         OwnLabels(garblings, p, c, g, labels, bits)
  PROVE  LowBits(ParallelEvaluate(p, labels, garblings), garblings)
           = LabelBits(c, bits, garblings[g].lsbs)
<1> DEFINE evaluated == ParallelEvaluate(p, labels, garblings)
<1>1. c \in Skcds BY GarblingIsTyped DEF OwnLabels
<1>2. DOMAIN evaluated = 1 .. Len(c.outputs)
  BY <1>1, SkcdFacts DEF ParallelEvaluate, OwnLabels
<1>3. g # 0 BY LenProperties DEF GarblingsInv, OwnLabels
<1>4. ASSUME NEW o \in 1 .. Len(c.outputs)
      PROVE  /\ evaluated[o] # Garbage
             /\ evaluated[o].bit = OutputBit(c.outputs[o], bits)
             /\ evaluated[o].garbling = g
  <2>1. o \in DOMAIN c.outputs BY <1>1, SkcdFacts
  <2>2. evaluated[o] = Label(g, OutputWire(c, o), OutputBit(c.outputs[o], bits))
    BY <1>1, <2>1, OwnLabelsEvaluate
  <2>3. evaluated[o].garbling = g /\ evaluated[o].bit = OutputBit(c.outputs[o], bits)
    BY <2>2 DEF Label
  <2> QED BY <1>3, <2>3 DEF Garbage, Label
<1> HIDE DEF evaluated
<1>5. LowBits(evaluated, garblings) = LabelBits(c, bits, garblings[g].lsbs)
  BY <1>2, <1>4 DEF LowBits, LabelBits
<1> QED BY <1>5 DEF evaluated

LEMMA UnmaskedBits ==
  ASSUME NEW c \in Skcds, NEW bits, NEW lsbs \in Seq(Bit), NEW mark \in Seq(Bit),
         Len(lsbs) = Len(c.outputs), Len(mark) = Len(c.outputs)
  PROVE  ApplyXormask(pack_bits64(XorBits(lsbs, mark)), LabelBits(c, bits, lsbs))
           = [o \in DOMAIN c.outputs |-> (OutputBit(c.outputs[o], bits) + mark[o]) % 2]
<1> DEFINE n == Len(c.outputs)
           mask == XorBits(lsbs, mark)
           words == pack_bits64(mask)
           lowBits == LabelBits(c, bits, lsbs)
<1>0. lowBits = [o \in 1 .. n |-> XorBit(OutputBit(c.outputs[o], bits), lsbs[o])]
  BY DEF LabelBits
<1> HIDE DEF lowBits
<1>1. n \in Nat /\ DOMAIN c.outputs = 1 .. n BY SkcdFacts
<1>2. /\ mask \in Seq(Bit) /\ Len(mask) = n
      /\ \A o \in 1 .. n : mask[o] = XorBit(lsbs[o], mark[o])
                           /\ lsbs[o] \in Bit /\ mark[o] \in Bit
  BY MaskOfText
<1>3. Len(lowBits) = n
  <2> DEFINE S == { lowBits[o] : o \in 1 .. n }
  <2>1. lowBits \in [1 .. n -> S] BY <1>0
  <2> HIDE DEF S, n
  <2> QED BY <1>1, <2>1, FunctionIsSeq
<1> HIDE DEF n, mask
<1>4. ASSUME NEW o \in 1 .. n
      PROVE  XorBit(lowBits[o], MaskBit(words, o - 1))
               = (OutputBit(c.outputs[o], bits) + mark[o]) % 2
  <2>1. ApplyXormask(words, lowBits)[o] = XorBit(lowBits[o], mask[o])
    BY <1>2, <1>3, PackedMaskIsApplied
  <2>2. ApplyXormask(words, lowBits)[o] = XorBit(lowBits[o], MaskBit(words, o - 1))
    BY <1>3 DEF ApplyXormask
  <2> DEFINE a == OutputBit(c.outputs[o], bits)
             l == lsbs[o]
             w == mark[o]
  <2>3. a \in Bit /\ l \in Bit /\ w \in Bit BY <1>1, <1>2, OutputBitIsBit
  <2>4. lowBits[o] = XorBit(a, l) BY <1>0
  <2>5. mask[o] = XorBit(l, w) BY <1>2
  <2> HIDE DEF a, l, w
  <2>6. XorBit(XorBit(a, l), XorBit(l, w)) = (a + w) % 2 BY <2>3, MaskIsUndone
  <2> QED BY <2>1, <2>2, <2>4, <2>5, <2>6 DEF a, w
<1> HIDE DEF words
<1>5. ApplyXormask(words, lowBits)
        = [o \in 1 .. n |-> (OutputBit(c.outputs[o], bits) + mark[o]) % 2]
  BY <1>3, <1>4 DEF ApplyXormask
<1> QED BY <1>1, <1>5 DEF words, mask, lowBits


(***************************************************************************)
(* An evaluation with the circuit's own packet shows the burned circuit.    *)
(***************************************************************************)
OwnGarbling(entry, c, g) ==
  /\ g \in DOMAIN garblings /\ garblings[g].skcd = c
  /\ OwnPacket(entry, c, g, garblings[g].lsbs)

LEMMA OwnPatchedLabels ==
  ASSUME GarblingsInv, NEW g, NEW c, NEW entry, OwnGarbling(entry, c, g),
         NEW object, ReadOf(object, entry.pgc),
         NEW inputs \in Seq(Bit), Len(inputs) = c.nbInputs
  PROVE  OwnLabels(garblings, object, c, g,
                   PatchInputs(entry.prePackmsg.labels, ExtractLabels(object, inputs)),
                   Burned!FrameInputs(BurnedBy(entry), inputs))
<1> DEFINE lsbs == garblings[g].lsbs
           patched == PatchInputs(entry.prePackmsg.labels, ExtractLabels(object, inputs))
           frame == Burned!FrameInputs(BurnedBy(entry), inputs)
<1>1. /\ g \in DOMAIN garblings /\ garblings[g].skcd = c /\ OwnPacket(entry, c, g, lsbs)
      /\ c \in Skcds
  BY GarblingIsTyped DEF OwnGarbling
<1>2. g \in Nat \ {0} BY <1>1, LenProperties DEF GarblingsInv
<1> HIDE DEF lsbs
<1>3. /\ DOMAIN patched = 1 .. c.nbInputs
      /\ \A i \in 1 .. c.nbInputs : patched[i] = Label(g, i - 1, frame[i])
  <2>1. c \in Skcds /\ OwnPacket(entry, c, g, lsbs) BY <1>1
  <2> QED BY <1>2, <2>1, PatchedLabels
<1>4. /\ entry.pgc.skcd = c /\ entry.pgc.globalKey = g
      /\ entry.pgc.tables = [i \in 1 .. NonXorCount(c) |-> g]
  BY <1>1 DEF OwnPacket, PacketFor, MadeFrom
<1>5. NonXorCount(c) = 1 => object.tables[1] = g
  <2> SUFFICES ASSUME NonXorCount(c) = 1 PROVE object.tables[1] = g OBVIOUS
  <2>1. Len(entry.pgc.tables) = 1 /\ entry.pgc.tables[1] = g BY <1>4, TablesOfGarbling
  <2>2. HasPrefix(object.tables, entry.pgc.tables) BY DEF ReadOf
  <2> QED BY <2>1, <2>2 DEF HasPrefix
<1> HIDE DEF patched, frame
<1>6. OwnLabels(garblings, object, c, g, patched, frame)
  BY <1>1, <1>3, <1>4, <1>5 DEF OwnLabels, ReadOf
<1> QED BY <1>6 DEF patched, frame

OwnPacketOf(packet, entry, text) ==
  /\ packet.garbledValues = entry.prePackmsg.labels
  /\ packet.xormask = pack_bits64(XorBits(entry.prePackmsg.xormask, Watermark[text]))

LEMMA EvaluationShows ==
  ASSUME GarblingsInv, NEW entry, MadeEntry(entry), Fits(entry),
         entry.prePackmsg.labels # <<>>,
         \A i \in DOMAIN entry.prePackmsg.labels :
           entry.prePackmsg.labels[i] \notin HalfZeroLabels,
         NEW object, ReadOf(object, entry.pgc),
         NEW text \in Texts, NEW packet, OwnPacketOf(packet, entry, text),
         NEW inputs \in Seq(Bit), Len(inputs) = object.skcd.nbInputs, NEW survives \in BOOLEAN
  PROVE  EvaluateWithPackmsg(object, inputs, packet, garblings, survives)
           = Returned(Burned!Frame(BurnedBy(entry), text, inputs))
<1> DEFINE g == entry.pgc.globalKey
           c == garblings[g].skcd
           lsbs == garblings[g].lsbs
           mark == Watermark[text]
           patched == PatchInputs(packet.garbledValues, ExtractLabels(object, inputs))
           frame == Burned!FrameInputs(BurnedBy(entry), inputs)
           lowBits == LowBits(ParallelEvaluate(object, patched, garblings), garblings)
<1>1. g \in DOMAIN garblings /\ OwnPacket(entry, c, g, lsbs)
  BY DEF MadeEntry, Made, MadeFrom, OwnPacket, PacketFor, Fits
<1>2. /\ c \in Skcds /\ lsbs \in Seq(Bit) /\ Len(lsbs) = Len(c.outputs)
  BY <1>1, GarblingIsTyped
<1>3. /\ IsDisplay(c.config) /\ entry.pgc.skcd = c /\ entry.prePackmsg.xormask = lsbs
  BY <1>1 DEF OwnPacket, PacketFor, MadeFrom
<1>4. g \in Nat \ {0} BY <1>1, LenProperties DEF GarblingsInv
<1>5. mark \in Seq(Bit) /\ Len(mark) = Len(c.outputs) BY <1>2, <1>3, PackmsgAssumption
<1>6. Len(inputs) = c.nbInputs BY <1>3 DEF ReadOf
<1>7. Len(packet.garbledValues) = c.nbInputs /\ c.nbInputs \in Nat
  BY <1>1, <1>2, <1>4, OwnPacketSize, SkcdFacts DEF OwnPacketOf
<1> HIDE DEF g, c
<1>8. OwnLabels(garblings, object, c, g, patched, frame)
  <2>1. OwnGarbling(entry, c, g) BY <1>1 DEF OwnGarbling, c
  <2> QED BY <1>6, <2>1, OwnPatchedLabels DEF OwnPacketOf
<1>9. BurnedBy(entry).skcd = c
  <2>1. PICK switched : SwappedLabels(entry.pgc.inputLabels, c, g, switched)
    BY <1>1 DEF OwnPacket, PacketFor, MadeFrom
  <2>2. Shuffled(entry, c, g, lsbs, switched) BY <1>1, <2>1 DEF Shuffled, OwnPacket
  <2> QED BY <1>2, <2>2, FrameOfEntry
<1> HIDE DEF patched, frame
<1>10. lowBits = LabelBits(c, frame, lsbs) BY <1>8, OwnLowBits
<1> HIDE DEF lowBits, lsbs, mark
<1>11. ApplyXormask(pack_bits64(XorBits(lsbs, mark)), lowBits)
         = [o \in DOMAIN c.outputs |-> (OutputBit(c.outputs[o], frame) + mark[o]) % 2]
  BY <1>2, <1>5, <1>10, UnmaskedBits
<1>12. packet.xormask = pack_bits64(XorBits(lsbs, mark)) BY <1>3 DEF OwnPacketOf, mark
<1>13. Burned!Frame(BurnedBy(entry), text, inputs)
         = [o \in DOMAIN c.outputs |-> (OutputBit(c.outputs[o], frame) + mark[o]) % 2]
  <2> DEFINE b == BurnedBy(entry)
  <2>1. b.skcd = c /\ Burned!FrameInputs(b, inputs) = frame BY <1>9 DEF frame
  <2> HIDE DEF b
  <2>2. \A output, bits : Burned!OutputBit(output, bits) = OutputBit(output, bits)
    BY DEF Burned!OutputBit, OutputBit, Burned!Cardinality, Cardinality
  <2>3. Burned!Frame(b, text, inputs)
          = [o \in DOMAIN c.outputs |-> (OutputBit(c.outputs[o], frame) + mark[o]) % 2]
    BY <2>1, <2>2 DEF Burned!Frame, mark
  <2> QED BY <2>3 DEF b
<1>14. EvaluateWithPackmsg(object, inputs, packet, garblings, survives)
         = Returned(ApplyXormask(packet.xormask, lowBits))
  BY <1>6, <1>7 DEF EvaluateWithPackmsg, lowBits, patched
<1> QED BY <1>11, <1>12, <1>13, <1>14


--------------------------------------------------------------------------------
(***************************************************************************)
(* Every step is one of BurnedCircuit, or changes nothing of it.            *)
(***************************************************************************)
LEMMA EvaluationIsOwn ==
  ASSUME MadeInv, reads # <<>>, packmsg # NoPackmsg,
         \A i \in DOMAIN reads : reads[i] = packmsg.id,
         NEW entry, entry = published[packmsg.id],
         Fits(entry), entry.prePackmsg.labels # <<>>,
         \A i \in DOMAIN entry.prePackmsg.labels :
           entry.prePackmsg.labels[i] \notin HalfZeroLabels,
         NEW inputs \in Seq(Bit), Len(inputs) = client.skcd.nbInputs, NEW survives \in BOOLEAN
  PROVE  /\ packmsg.id \in DOMAIN published /\ packmsg.text \in Texts
         /\ client.skcd = entry.pgc.skcd
         /\ EvaluateWithPackmsg(client, inputs, packmsg, garblings, survives)
              = Returned(Burned!Frame(BurnedBy(entry), packmsg.text, inputs))
<1>1. /\ packmsg.id \in DOMAIN published /\ packmsg.text \in Texts
      /\ OwnPacketOf(packmsg, entry, packmsg.text)
  BY DEF MadeInv, PackmsgInv, OwnPacketOf
<1>2. MadeEntry(entry) BY <1>1 DEF MadeInv, EntriesMade, WholeEntry
<1>3. entry.pgc.outputLabels = <<>> BY <1>2 DEF MadeEntry, Made, MadeFrom
<1>4. ReadOf(client, entry.pgc) BY <1>1, <1>3 DEF MadeInv, ClientInv, OnlyReads
<1>5. client.skcd = entry.pgc.skcd BY <1>4 DEF ReadOf
<1>6. GarblingsInv BY DEF MadeInv, IInv
<1> QED BY <1>1, <1>2, <1>4, <1>5, <1>6, EvaluationShows

LEMMA EvalShows ==
  ASSUME MadeInv, NEW inputs \in InputChoices, EvalWithPackmsg(inputs)
  PROVE  Burned!Next
<1> DEFINE id == packmsg.id
           entry == published[id]
<1>0. PICK survives \in BOOLEAN :
        ClientAfter("EvaluateWithPackmsg", inputs,
                    EvaluateWithPackmsg(client, inputs, packmsg, garblings, survives))
  BY DEF EvalWithPackmsg
<1> DEFINE result == EvaluateWithPackmsg(client, inputs, packmsg, garblings, survives)
<1>1. /\ reads # <<>> /\ Len(inputs) = client.skcd.nbInputs /\ packmsg # NoPackmsg
      /\ published' = published
      /\ last' = [call |-> "EvaluateWithPackmsg", outcome |-> result.outcome]
      /\ shown' = [id |-> id, reads |-> reads, inputs |-> inputs, outputs |-> result.outputs,
                   text |-> IF id = 0 THEN "none" ELSE packmsg.text]
  BY <1>0 DEF EvalWithPackmsg, ClientAfter, server
<1>2. burnedBar' = burnedBar BY <1>1, NothingBurned
<1>3. CASE ~ (ShowsMessage /\ ShownLabels # <<>>)'
  <2>1. imageBar' = Burned!NoImage BY <1>3 DEF imageBar, NotShown, Burned!NoImage
  <2> QED BY <1>2, <2>1 DEF Burned!Clear, Burned!Next
<1>4. CASE (ShowsMessage /\ ShownLabels # <<>>)'
  <2>1. /\ \A i \in DOMAIN reads : reads[i] = id
        /\ Fits(entry)
        /\ entry.prePackmsg.labels # <<>>
        /\ \A i \in DOMAIN entry.prePackmsg.labels :
             entry.prePackmsg.labels[i] \notin HalfZeroLabels
    BY <1>1, <1>4 DEF ShowsMessage, ShownLabels, Fits
  <2>2. inputs \in Seq(Bit) BY PackmsgAssumption
  <2>3. /\ id \in DOMAIN published /\ packmsg.text \in Texts
        /\ client.skcd = entry.pgc.skcd
        /\ result = Returned(Burned!Frame(BurnedBy(entry), packmsg.text, inputs))
    BY <1>1, <2>1, <2>2, EvaluationIsOwn
  <2>4. id # 0 BY <2>3, LenProperties DEF MadeInv, IInv, PublishedInv
  <2>5. burnedBar[id] = BurnedBy(entry) /\ id \in DOMAIN burnedBar BY <2>3 DEF burnedBar
  <2>6. burnedBar[id].skcd = entry.pgc.skcd BY <2>5 DEF BurnedBy
  <2>7. imageBar' = [id |-> id, text |-> packmsg.text, inputs |-> inputs,
                     bits |-> Burned!Frame(burnedBar[id], packmsg.text, inputs)]
    <3>1. imageBar' = [id |-> id, text |-> packmsg.text, inputs |-> inputs,
                       bits |-> result.outputs]
      BY <1>1, <1>4, <2>4 DEF imageBar
    <3>2. result.outputs = Burned!Frame(BurnedBy(entry), packmsg.text, inputs)
      BY <2>3 DEF Returned
    <3> QED BY <2>5, <3>1, <3>2
  <2>8. Burned!Show(id, packmsg.text, inputs)
    BY <1>1, <1>2, <2>3, <2>6, <2>7 DEF Burned!Show
  <2> QED BY <2>3, <2>5, <2>8 DEF Burned!Next
<1> QED BY <1>3, <1>4

LEMMA StepsImplement ==
  ASSUME MadeInv, [Next]_vars
  PROVE  [Burned!Next]_(Burned!vars)
<1>1. ASSUME published' = published, last'.call # "EvaluateWithPackmsg"
      PROVE  Burned!Next
  BY <1>1, NothingBurned, NothingShown DEF Burned!Clear, Burned!Next
<1>2. ASSUME NEW skcd \in Skcds, NEW lsbs \in LsbChoices, GarbleSkcd(skcd, lsbs)
      PROVE  Burned!Next
  BY <1>1, <1>2 DEF GarbleSkcd, ServerAfter, Called
<1>3. ASSUME NEW skcd \in Skcds, NEW digits \in DigitChoices, NEW lsbs \in LsbChoices,
             GarbleAndStrip(skcd, digits, lsbs)
      PROVE  Burned!Next
  BY <1>1, <1>3 DEF GarbleAndStrip, ServerAfter, Called
<1>4. ASSUME NEW digits \in DigitChoices, NEW ndebug \in BOOLEAN, NEW readable \in BOOLEAN,
             Strip(digits, ndebug, readable)
      PROVE  Burned!Next
  BY <1>1, <1>4 DEF Strip, ServerAfter, Called
<1>5. CASE Publish
  BY <1>5, PublishBurns DEF MadeInv, IInv, Burned!Next
<1>6. ASSUME NEW id \in DOMAIN published, NEW text \in Texts, RequestPackmsg(id, text)
      PROVE  Burned!Next
  BY <1>1, <1>6 DEF RequestPackmsg, Called, server
<1>7. CASE NewClient BY <1>1, <1>7 DEF NewClient, Called, server
<1>8. ASSUME NEW id \in DOMAIN published, ReadPgc(id)
      PROVE  Burned!Next
  BY <1>1, <1>8 DEF ReadPgc, Called, server
<1>9. CASE ReadDamagedPgc BY <1>1, <1>9 DEF ReadDamagedPgc, Called, server
<1>10. ASSUME NEW inputs \in InputChoices, EvalWithInputs(inputs)
       PROVE  Burned!Next
  BY <1>1, <1>10 DEF EvalWithInputs, ClientAfter, server
<1>11. ASSUME NEW inputs \in InputChoices, EvalWithPackmsg(inputs)
       PROVE  Burned!Next
  BY <1>11, EvalShows
<1>12. CASE UNCHANGED vars
  <2>1. burnedBar' = burnedBar /\ imageBar' = imageBar
    BY <1>12 DEF vars, server, burnedBar, imageBar, ShowsMessage, ShownLabels
  <2> QED BY <2>1 DEF Burned!vars
<1> QED
  BY <1>2, <1>3, <1>4, <1>5, <1>6, <1>7, <1>8, <1>9, <1>10, <1>11, <1>12 DEF Next

LEMMA InitImplements ==
  ASSUME Init
  PROVE  Burned!Init
<1>1. published = <<>> /\ last.call = "main" BY DEF Init
<1>2. DOMAIN published = {} BY <1>1
<1>3. burnedBar = <<>>
  <2>1. burnedBar = [id \in {} |-> BurnedBy(published[id])] BY <1>2 DEF burnedBar
  <2> QED BY <2>1
<1>4. imageBar = Burned!NoImage BY <1>1 DEF imageBar, ShowsMessage, NotShown, Burned!NoImage
<1> QED BY <1>3, <1>4 DEF Burned!Init

(***************************************************************************)
(* Every behaviour of the pipeline is one of BurnedCircuit: whatever was    *)
(* garbled, stripped, published, read and evaluated before, with whatever   *)
(* digits and outcome, in either build, an evaluation of a circuit that was *)
(* stripped with digits that fit its display shows, with its own packet,    *)
(* these digits and the text that was asked for.  Of a circuit that a build *)
(* without assertions stripped with other digits nothing is claimed.        *)
(***************************************************************************)
THEOREM PackmsgImplementsBurnedCircuit == Spec => ShowsBurnedCircuit
<1>1. Init => MadeInv BY InitMadeInv
<1>2. MadeInv /\ [Next]_vars => MadeInv' BY MadeInductive
<1>3. Spec => []MadeInv BY <1>1, <1>2, PTL DEF Spec
<1>4. Init => Burned!Init BY InitImplements
<1>5. MadeInv /\ [Next]_vars => [Burned!Next]_(Burned!vars) BY StepsImplement
<1> QED BY <1>3, <1>4, <1>5, PTL DEF Spec, ShowsBurnedCircuit, Burned!Spec


--------------------------------------------------------------------------------
(***************************************************************************)
(* What the client holds, more closely: the circuit that was published, if  *)
(* it was read into a new object, and the labels of the first of several    *)
(* stripped circuits, with no other where these are looked up.              *)
(***************************************************************************)
LEMMA ClientSteps ==
  ASSUME MadeInv, [Next]_vars
  PROVE  /\ \A id \in DOMAIN published :
              id \in DOMAIN published' /\ published'[id] = published[id]
         /\ \/ client' = DefaultPgc /\ reads' = <<>>
            \/ \E id \in DOMAIN published :
                 /\ client' = ReadProtobuf(published[id].pgc, client)
                 /\ reads' = Append(reads, id)
            \/ UNCHANGED <<client, reads>>
<1> USE DEF MadeInv, IInv
<1>1. CASE Publish BY <1>1, PublishAppends DEF Publish
<1>2. ASSUME NEW skcd \in Skcds, NEW lsbs \in LsbChoices, GarbleSkcd(skcd, lsbs)
      PROVE  UNCHANGED <<published, client, reads>>
  BY <1>2 DEF GarbleSkcd, ServerAfter
<1>3. ASSUME NEW skcd \in Skcds, NEW digits \in DigitChoices, NEW lsbs \in LsbChoices,
             GarbleAndStrip(skcd, digits, lsbs)
      PROVE  UNCHANGED <<published, client, reads>>
  BY <1>3 DEF GarbleAndStrip, ServerAfter
<1>4. ASSUME NEW digits \in DigitChoices, NEW ndebug \in BOOLEAN, NEW readable \in BOOLEAN,
             Strip(digits, ndebug, readable)
      PROVE  UNCHANGED <<published, client, reads>>
  BY <1>4 DEF Strip, ServerAfter
<1>5. ASSUME NEW id \in DOMAIN published, NEW text \in Texts, RequestPackmsg(id, text)
      PROVE  UNCHANGED <<published, client, reads>>
  BY <1>5 DEF RequestPackmsg, server
<1>6. CASE NewClient BY <1>6 DEF NewClient, server
<1>7. ASSUME NEW id \in DOMAIN published, ReadPgc(id)
      PROVE  /\ client' = ReadProtobuf(published[id].pgc, client)
             /\ reads' = Append(reads, id) /\ published' = published
  BY <1>7 DEF ReadPgc, server
<1>8. CASE ReadDamagedPgc \/ UNCHANGED vars BY <1>8 DEF ReadDamagedPgc, vars, server
<1>9. ASSUME NEW inputs \in InputChoices, EvalWithInputs(inputs) \/ EvalWithPackmsg(inputs)
      PROVE  /\ published' = published
             /\ (client' = DefaultPgc /\ reads' = <<>>) \/ UNCHANGED <<client, reads>>
  BY <1>9 DEF EvalWithInputs, EvalWithPackmsg, ClientAfter, server
<1> QED BY <1>1, <1>2, <1>3, <1>4, <1>5, <1>6, <1>7, <1>8, <1>9 DEF Next

LEMMA ReadsGrow ==
  ASSUME ClientInv, NEW id \in DOMAIN published, reads' = Append(reads, id)
  PROVE  /\ reads' # <<>> /\ Len(reads') \in Nat \ {0} /\ DOMAIN reads' = 1 .. Len(reads')
         /\ reads'[Len(reads')] = id
         /\ Len(reads') = 1 => reads = <<>>
         /\ reads # <<>> => reads'[1] = reads[1]
         /\ reads = <<>> => reads'[1] = id
         /\ DOMAIN reads \subseteq DOMAIN reads' /\ \A i \in DOMAIN reads : reads'[i] = reads[i]
<1>1. /\ reads' \in Seq(DOMAIN published) /\ Len(reads') = Len(reads) + 1 /\ Len(reads) \in Nat
      /\ \A i \in 1 .. Len(reads) : reads'[i] = reads[i]
      /\ reads'[Len(reads) + 1] = id
      /\ DOMAIN reads = 1 .. Len(reads) /\ reads \in Seq(DOMAIN published)
  BY AppendProperties, LenProperties DEF ClientInv
<1>2. DOMAIN reads' = 1 .. Len(reads) + 1 BY <1>1, LenProperties
<1>3. (reads = <<>>) <=> (Len(reads) = 0) BY <1>1, EmptySeq
<1> QED BY <1>1, <1>2, <1>3, EmptySeq

(* An object that one circuit was read into. *)
FreshlyRead ==
  \A id \in DOMAIN published :
    reads = <<id>> => client = ReadProtobuf(published[id].pgc, DefaultPgc)

LEMMA FreshlyReadStays ==
  ASSUME MadeInv, FreshlyRead, [Next]_vars
  PROVE  FreshlyRead'
<1> SUFFICES ASSUME NEW id \in DOMAIN published', reads' = <<id>>
             PROVE  client' = ReadProtobuf(published'[id].pgc, DefaultPgc)
  BY DEF FreshlyRead
<1>1. \A other \in DOMAIN published :
        other \in DOMAIN published' /\ published'[other] = published[other]
  BY ClientSteps
<1>2. Len(<<id>>) = 1 /\ <<id>>[1] = id /\ <<id>> # <<>> OBVIOUS
<1>3. ASSUME NEW other \in DOMAIN published,
             client' = ReadProtobuf(published[other].pgc, client), reads' = Append(reads, other)
      PROVE  client' = ReadProtobuf(published'[id].pgc, DefaultPgc)
  <2>1. /\ reads'[Len(reads')] = other
        /\ Len(reads') = 1 => reads = <<>>
    BY <1>3, ReadsGrow DEF MadeInv
  <2>2. Len(reads') = 1 /\ reads'[1] = id BY <1>2
  <2>3. other = id /\ reads = <<>> BY <2>1, <2>2
  <2>4. client = DefaultPgc BY <2>3 DEF MadeInv, ClientInv
  <2> QED BY <1>1, <1>3, <2>3, <2>4
<1>4. CASE UNCHANGED <<client, reads>>
  <2>1. reads \in Seq(DOMAIN published) /\ reads = <<id>> BY <1>4 DEF MadeInv, ClientInv
  <2>2. id \in DOMAIN published
    <3>1. 1 \in 1 .. Len(reads) /\ reads[1] = id BY <1>2, <2>1
    <3> QED BY <2>1, <3>1, ElementOfSeq
  <2> QED BY <1>1, <1>4, <2>1, <2>2 DEF FreshlyRead
<1>5. CASE client' = DefaultPgc /\ reads' = <<>> BY <1>2, <1>5
<1> QED BY <1>3, <1>4, <1>5, ClientSteps

(* A label that belongs nowhere, or not at place k of a vector of pairs. *)
Foreign(label, k) == label.garbling = 0 \/ label.wire # (k - 1) \div 2

(* The labels of an object that stripped circuits were read into, of which  *)
(* first was the first: pairs, enough of them for the inputs, and those     *)
(* that are in their place are of the first.                                *)
LabelsRead(object, first) ==
  /\ \E S : object.inputLabels \in Seq(S)
  /\ \E n \in Nat \ {0} : Len(object.inputLabels) = 2 * n /\ object.skcd.nbInputs + 1 <= n
  /\ \A k \in 1 .. Len(object.inputLabels) :
       \/ Foreign(object.inputLabels[k], k)
       \/ k \in 1 .. Len(first.inputLabels) /\ object.inputLabels[k] = first.inputLabels[k]

LEMMA PlaceOfLabel ==
  ASSUME NEW c \in Skcds, IsDisplay(c.config), NEW labels, NEW g, NEW switched,
         SwappedLabels(labels, c, g, switched), NEW k \in 1 .. 2 * (c.nbInputs + 1)
  PROVE  labels[k].garbling = 0 \/ labels[k].wire = (k - 1) \div 2
<1> DEFINE i == (k - 1) \div 2
           b == (k - 1) % 2
<1>1. c.nbInputs \in Nat BY SkcdFacts
<1>2. i \in 0 .. c.nbInputs /\ b \in Bit /\ k = 2 * i + b + 1 BY <1>1 DEF Bit
<1> HIDE DEF i, b
<1>3. labels[k] = LabelOf(labels, i, b) BY <1>2 DEF LabelOf
<1>4. LabelOf(labels, i, b) \in {Label(g, i, b), Label(g, i, 1 - b), Zero}
  <2>1. CASE i = c.nbInputs BY <1>2, <2>1 DEF SwappedLabels
  <2>2. CASE i \in 0 .. c.nbInputs - 1 BY <1>2, <2>2 DEF SwappedLabels
  <2> QED BY <1>1, <1>2, <2>1, <2>2
<1>5. LabelOf(labels, i, b).garbling = 0 \/ LabelOf(labels, i, b).wire = i
  BY <1>4 DEF Label, Zero
<1> QED BY <1>3, <1>5 DEF i

LEMMA LabelsAreRead ==
  ASSUME NEW c \in Skcds, IsDisplay(c.config), NEW g, NEW switched,
         NEW p, p.skcd = c, SwappedLabels(p.inputLabels, c, g, switched), NEW object, NEW first,
         \/ object = DefaultPgc /\ first = p
         \/ LabelsRead(object, first)
  PROVE  LabelsRead(ReadProtobuf(p, object), first)
<1> DEFINE after == ReadProtobuf(p, object)
           new == p.inputLabels
           old == object.inputLabels
           joined == after.inputLabels
           m == c.nbInputs + 1
<1>1. after.skcd = c /\ joined = old \o new BY DEF ReadProtobuf
<1>2. c.nbInputs \in Nat /\ m \in Nat \ {0}
  <2>1. c.nbInputs \in Nat BY SkcdFacts
  <2> QED BY <2>1
<1>3. PICK S : new \in Seq(S) BY DEF SwappedLabels
<1>4. Len(new) = 2 * m BY DEF SwappedLabels
<1>5. \A k \in 1 .. 2 * m : new[k].garbling = 0 \/ new[k].wire = (k - 1) \div 2
  BY PlaceOfLabel
<1> HIDE DEF after, joined, new, old
<1>6. CASE object = DefaultPgc /\ first = p
  <2>1. old = <<>> BY <1>6 DEF DefaultPgc, old
  <2>2. joined = new BY <1>1, <1>3, <2>1, ConcatEmptySeq
  <2>3. \A k \in 1 .. Len(joined) :
          k \in 1 .. Len(first.inputLabels) /\ joined[k] = first.inputLabels[k]
    BY <1>6, <2>2 DEF new
  <2>4. joined \in Seq(S) /\ Len(joined) = 2 * m /\ c.nbInputs + 1 <= m BY <1>2, <1>3, <1>4, <2>2
  <2> HIDE DEF m
  <2>5. LabelsRead(after, first) BY <1>1, <1>2, <2>3, <2>4 DEF LabelsRead, joined
  <2> QED BY <2>5 DEF after
<1>7. CASE LabelsRead(object, first)
  <2>1. PICK T : old \in Seq(T) BY <1>7 DEF LabelsRead, old
  <2>2. PICK n \in Nat \ {0} : Len(old) = 2 * n BY <1>7 DEF LabelsRead, old
  <2>3. \A k \in 1 .. 2 * n :
          \/ Foreign(old[k], k)
          \/ k \in 1 .. Len(first.inputLabels) /\ old[k] = first.inputLabels[k]
    BY <1>7, <2>2 DEF LabelsRead, old
  <2>4. new \in Seq(S \cup T) /\ old \in Seq(S \cup T) BY <1>3, <2>1, SeqMonotonic
  <2>5. /\ joined \in Seq(S \cup T) /\ Len(joined) = 2 * n + 2 * m
        /\ \A k \in 1 .. 2 * n + 2 * m :
             joined[k] = IF k <= 2 * n THEN old[k] ELSE new[k - 2 * n]
    <3>1. /\ old \o new \in Seq(S \cup T) /\ Len(old \o new) = Len(old) + Len(new)
          /\ \A k \in 1 .. Len(old) + Len(new) :
               (old \o new)[k] = IF k <= Len(old) THEN old[k] ELSE new[k - Len(old)]
      BY <2>4, ConcatProperties
    <3> HIDE DEF m
    <3> QED BY <1>1, <1>4, <2>2, <3>1
  <2>6. ASSUME NEW k \in 1 .. Len(joined)
        PROVE  \/ Foreign(joined[k], k)
               \/ k \in 1 .. Len(first.inputLabels) /\ joined[k] = first.inputLabels[k]
    <3>1. CASE k <= 2 * n
      <4>1. k \in 1 .. 2 * n /\ joined[k] = old[k] BY <1>2, <2>5, <3>1
      <4> QED BY <2>3, <4>1
    <3>2. CASE ~ (k <= 2 * n)
      <4> DEFINE l == k - 2 * n
      <4>1. l \in 1 .. 2 * m /\ joined[k] = new[l] BY <1>2, <2>5, <3>2
      <4>2. (k - 1) \div 2 = n + ((l - 1) \div 2) BY <1>2, <2>5, <3>2
      <4>3. CASE new[l].garbling = 0 BY <4>1, <4>3 DEF Foreign
      <4>4. CASE new[l].wire = (l - 1) \div 2
        <5>1. (l - 1) \div 2 \in Nat BY <1>2, <4>1
        <5>2. joined[k].wire # (k - 1) \div 2 BY <4>1, <4>2, <4>4, <5>1
        <5> QED BY <5>2 DEF Foreign
      <4> QED BY <1>5, <4>1, <4>3, <4>4
    <3> QED BY <3>1, <3>2
  <2>7. n + m \in Nat \ {0} /\ Len(joined) = 2 * (n + m) /\ c.nbInputs + 1 <= n + m BY <1>2, <2>5
  <2> HIDE DEF m
  <2>8. LabelsRead(after, first) BY <1>1, <1>2, <2>5, <2>6, <2>7 DEF LabelsRead, joined
  <2> QED BY <2>8 DEF after
<1> QED BY <1>6, <1>7

(* An entry that is stripped was made by StripCircuit. *)
LEMMA StrippedIsMade ==
  ASSUME MadeInv, NEW id \in DOMAIN published, IsStripped(published[id].pgc)
  PROVE  MadeEntry(published[id])
  BY DEF MadeInv, EntriesMade, WholeEntry, IsStripped

LEMMA MadeFacts ==
  ASSUME MadeInv, NEW entry, MadeEntry(entry), NEW p, p = entry.pgc
  PROVE  /\ p.globalKey \in DOMAIN garblings /\ p.globalKey \in Nat \ {0}
         /\ p.skcd \in Skcds /\ IsDisplay(p.skcd.config)
         /\ garblings[p.globalKey].skcd = p.skcd
         /\ MadeFrom(p, entry.prePackmsg, entry.digits, p.skcd, p.globalKey,
                     garblings[p.globalKey].lsbs)
         /\ \E switched : SwappedLabels(p.inputLabels, p.skcd, p.globalKey, switched)
<1>1. /\ p.globalKey \in DOMAIN garblings /\ garblings[p.globalKey].skcd = p.skcd
      /\ MadeFrom(p, entry.prePackmsg, entry.digits, p.skcd, p.globalKey,
                     garblings[p.globalKey].lsbs)
  BY DEF MadeEntry, Made, MadeFrom
<1>2. p.skcd \in Skcds BY <1>1, GarblingIsTyped DEF MadeInv, IInv
<1>3. p.globalKey \in Nat \ {0} BY <1>1, LenProperties DEF MadeInv, IInv, GarblingsInv
<1> QED BY <1>1, <1>2, <1>3 DEF MadeFrom

LabelsOfFirst ==
  reads # <<>> /\ (\A i \in DOMAIN reads : IsStripped(published[reads[i]].pgc)) =>
    /\ LabelsRead(client, published[reads[1]].pgc)
    /\ client.skcd = published[reads[Len(reads)]].pgc.skcd

LEMMA ReadsArePublished ==
  ASSUME ClientInv
  PROVE  /\ \A i \in DOMAIN reads : reads[i] \in DOMAIN published
         /\ reads # <<>> => 1 \in DOMAIN reads /\ Len(reads) \in DOMAIN reads
<1>1. reads \in Seq(DOMAIN published) BY DEF ClientInv
<1>2. DOMAIN reads = 1 .. Len(reads) /\ Len(reads) \in Nat BY <1>1, LenProperties
<1>3. reads # <<>> => Len(reads) # 0 BY <1>1, EmptySeq
<1> QED BY <1>1, <1>2, <1>3, ElementOfSeq

LEMMA LabelsOfFirstStay ==
  ASSUME MadeInv, LabelsOfFirst, [Next]_vars
  PROVE  LabelsOfFirst'
<1> SUFFICES ASSUME reads' # <<>>, \A i \in DOMAIN reads' : IsStripped(published'[reads'[i]].pgc)
             PROVE  /\ LabelsRead(client', published'[reads'[1]].pgc)
                    /\ client'.skcd = published'[reads'[Len(reads')]].pgc.skcd
  BY DEF LabelsOfFirst
<1>1. \A id \in DOMAIN published : id \in DOMAIN published' /\ published'[id] = published[id]
  BY ClientSteps
<1>2. \A i \in DOMAIN reads : reads[i] \in DOMAIN published BY ReadsArePublished DEF MadeInv
<1>3. ASSUME NEW id \in DOMAIN published,
             client' = ReadProtobuf(published[id].pgc, client), reads' = Append(reads, id)
      PROVE  /\ LabelsRead(client', published'[reads'[1]].pgc)
             /\ client'.skcd = published'[reads'[Len(reads')]].pgc.skcd
  <2> DEFINE p == published[id].pgc
             c == p.skcd
             g == p.globalKey
  <2>1. /\ Len(reads') \in Nat \ {0} /\ DOMAIN reads' = 1 .. Len(reads')
        /\ reads'[Len(reads')] = id
        /\ reads # <<>> => reads'[1] = reads[1]
        /\ reads = <<>> => reads'[1] = id
        /\ DOMAIN reads \subseteq DOMAIN reads' /\ \A i \in DOMAIN reads : reads'[i] = reads[i]
    BY <1>3, ReadsGrow DEF MadeInv
  <2>2. IsStripped(published[id].pgc)
    <3>1. Len(reads') \in DOMAIN reads' BY <2>1
    <3> QED BY <1>1, <2>1, <3>1
  <2>3. MadeEntry(published[id]) BY <2>2, StrippedIsMade
  <2>4. /\ c \in Skcds /\ IsDisplay(c.config)
        /\ \E switched : SwappedLabels(p.inputLabels, c, g, switched)
    BY <2>3, MadeFacts
  <2>5. PICK switched : SwappedLabels(p.inputLabels, c, g, switched) BY <2>4
  <2>6. client'.skcd = published'[reads'[Len(reads')]].pgc.skcd
    BY <1>1, <1>3, <2>1 DEF ReadProtobuf
  <2>7. CASE reads = <<>>
    <3>1. client = DefaultPgc BY <2>7 DEF MadeInv, ClientInv
    <3>2. published'[reads'[1]].pgc = p BY <1>1, <2>1, <2>7
    <3>3. p.skcd = c OBVIOUS
    <3> HIDE DEF p, c, g
    <3>4. LabelsRead(ReadProtobuf(p, client), p) BY <2>4, <2>5, <3>1, <3>3, LabelsAreRead
    <3> QED BY <1>3, <2>6, <3>2, <3>4 DEF p
  <2>8. CASE reads # <<>>
    <3>1. \A i \in DOMAIN reads : IsStripped(published[reads[i]].pgc) BY <1>1, <1>2, <2>1
    <3> DEFINE first == published[reads[1]].pgc
    <3>2. LabelsRead(client, first) BY <2>8, <3>1 DEF LabelsOfFirst
    <3>3. published'[reads'[1]].pgc = first
      <4>1. 1 \in DOMAIN reads BY <2>8, ReadsArePublished DEF MadeInv
      <4> QED BY <1>1, <1>2, <2>1, <2>8, <4>1
    <3>4. p.skcd = c OBVIOUS
    <3> HIDE DEF p, c, g, first
    <3>5. LabelsRead(ReadProtobuf(p, client), first) BY <2>4, <2>5, <3>2, <3>4, LabelsAreRead
    <3> QED BY <1>3, <2>6, <3>3, <3>5 DEF p
  <2> QED BY <2>7, <2>8
<1>4. CASE UNCHANGED <<client, reads>>
  <2>1. \A i \in DOMAIN reads : published'[reads[i]] = published[reads[i]] BY <1>1, <1>2
  <2>2. 1 \in DOMAIN reads /\ Len(reads) \in DOMAIN reads
    BY <1>4, ReadsArePublished DEF MadeInv
  <2>3. \A i \in DOMAIN reads : IsStripped(published[reads[i]].pgc) BY <1>4, <2>1
  <2>4. /\ LabelsRead(client, published[reads[1]].pgc)
        /\ client.skcd = published[reads[Len(reads)]].pgc.skcd
    BY <1>4, <2>3 DEF LabelsOfFirst
  <2> QED BY <1>4, <2>1, <2>2, <2>4
<1>5. CASE client' = DefaultPgc /\ reads' = <<>> BY <1>5
<1> QED BY <1>3, <1>4, <1>5, ClientSteps

--------------------------------------------------------------------------------
(***************************************************************************)
(* A garbling is stripped once: the circuits that were published stripped   *)
(* and have its key have its labels in the same order.                      *)
(***************************************************************************)
StrippedOnce ==
  /\ \A i, j \in DOMAIN published :
       /\ IsStripped(published[i].pgc) /\ IsStripped(published[j].pgc)
       /\ published[i].pgc.globalKey = published[j].pgc.globalKey
       => published[i].pgc.inputLabels = published[j].pgc.inputLabels
  /\ \A i \in DOMAIN published :
       IsStripped(published[i].pgc) /\ published[i].pgc.globalKey = pgc.globalKey
       => IsStripped(pgc) /\ published[i].pgc.inputLabels = pgc.inputLabels

LEMMA StripKeepsKey ==
  ASSUME NEW p, DOMAIN p = PgcFields, NEW pre, NEW digits, NEW lsbs, NEW switched, NEW ndebug,
         NEW readable
  PROVE  StripCircuit(p, pre, digits, lsbs, switched, ndebug, readable).pgc.globalKey
           = p.globalKey
<1> DEFINE s == StripParallelGarbledCircuit(p, switched)
           result == StripCircuit(p, pre, digits, lsbs, switched, ndebug, readable)
<1>1. s.globalKey = p.globalKey /\ DOMAIN s = PgcFields
  BY DEF StripParallelGarbledCircuit, PgcFields
<1>2. \/ result.pgc = p
      \/ result.pgc = [s EXCEPT !.config = [key \in DOMAIN @ \cap {"WIDTH", "HEIGHT"} |-> @[key]]]
  BY DEF StripCircuit, WithoutChange
<1> HIDE DEF s, result
<1>3. result.pgc.globalKey = p.globalKey BY <1>1, <1>2 DEF PgcFields
<1> QED BY <1>3 DEF result

LEMMA FreshKey ==
  ASSUME GarblingsInv, NEW skcd, NEW lsbs, Garbles(skcd, lsbs)
  PROVE  Len(garblings') \notin DOMAIN garblings
<1> DEFINE E == [skcd : Skcds, lsbs : Seq(Bit)]
           S == E \cup {[skcd |-> skcd, lsbs |-> lsbs]}
<1>1. garblings \in Seq(E) BY DEF GarblingsInv
<1>2. garblings \in Seq(S) /\ [skcd |-> skcd, lsbs |-> lsbs] \in S BY <1>1, SeqMonotonic
<1>3. garblings' = Append(garblings, [skcd |-> skcd, lsbs |-> lsbs]) BY DEF Garbles
<1> HIDE DEF S
<1>4. Len(garblings') = Len(garblings) + 1 BY <1>2, <1>3, AppendProperties
<1>5. DOMAIN garblings = 1 .. Len(garblings) /\ Len(garblings) \in Nat BY <1>2, LenProperties
<1> QED BY <1>4, <1>5

LEMMA ServerSteps ==
  ASSUME MadeInv, [Next]_vars, ~ Publish
  PROVE  /\ published' = published
         /\ \/ pgc' = pgc
            \/ pgc'.globalKey \notin DOMAIN garblings
            \/ AsGarbled(garblings, pgc) /\ pgc'.globalKey = pgc.globalKey
<1> USE DEF MadeInv, IInv
<1>1. DefaultPgc.globalKey \notin DOMAIN garblings
  BY LenProperties DEF DefaultPgc, GarblingsInv
<1>2. \A c, g : /\ GarbleSkcdFromBuffer(c, g).globalKey = g
                /\ DOMAIN GarbleSkcdFromBuffer(c, g) = PgcFields
  BY DEF GarbleSkcdFromBuffer, PgcFields
<1>3. ASSUME NEW skcd \in Skcds, NEW lsbs \in LsbChoices, GarbleSkcd(skcd, lsbs)
      PROVE  published' = published /\ pgc'.globalKey \notin DOMAIN garblings
  <2>1. pgc' = GarbleSkcdFromBuffer(skcd, Len(garblings')) /\ published' = published
    BY <1>3 DEF GarbleSkcd, ServerAfter, WithoutChange
  <2>2. Len(garblings') \notin DOMAIN garblings BY <1>3, FreshKey DEF GarbleSkcd
  <2> QED BY <1>2, <2>1, <2>2
<1>4. ASSUME NEW skcd \in Skcds, NEW digits \in DigitChoices, NEW lsbs \in LsbChoices,
             GarbleAndStrip(skcd, digits, lsbs)
      PROVE  published' = published /\ pgc'.globalKey \notin DOMAIN garblings
  <2> DEFINE g == Len(garblings')
  <2>1. PICK switched \in Switches(skcd.config) :
          ServerAfter("GarbleAndStrippedSkcdFromBuffer", digits,
                      GarbleAndStrippedSkcdFromBuffer(skcd, g, prePackmsg, digits, lsbs, switched))
    BY <1>4 DEF GarbleAndStrip
  <2> DEFINE result ==
               GarbleAndStrippedSkcdFromBuffer(skcd, g, prePackmsg, digits, lsbs, switched)
  <2>2. g \notin DOMAIN garblings BY <1>4, FreshKey DEF GarbleAndStrip
  <2> HIDE DEF g
  <2>3. result.pgc.globalKey = g
    <3> DEFINE made == GarbleSkcdFromBuffer(skcd, g)
    <3>1. made.globalKey = g /\ DOMAIN made = PgcFields BY <1>2
    <3>2. /\ result.outcome # "ok" => result.pgc = made
          /\ result.outcome = "ok" =>
               \E ndebug, readable \in BOOLEAN :
                 result = StripCircuit(made, prePackmsg, digits, lsbs, switched, ndebug, readable)
      BY GarbleAndStripOutcome
    <3> HIDE DEF made, result
    <3> QED BY <3>1, <3>2, StripKeepsKey
  <2> HIDE DEF result
  <2>4. ServerAfter("GarbleAndStrippedSkcdFromBuffer", digits, result) BY <2>1 DEF result
  <2> QED BY <1>1, <2>2, <2>3, <2>4 DEF ServerAfter
<1>5. ASSUME NEW digits \in DigitChoices, NEW ndebug \in BOOLEAN, NEW readable \in BOOLEAN,
             Strip(digits, ndebug, readable)
      PROVE  /\ published' = published
             /\ \/ pgc' = pgc
                \/ pgc'.globalKey \notin DOMAIN garblings
                \/ AsGarbled(garblings, pgc) /\ pgc'.globalKey = pgc.globalKey
  <2> DEFINE lsbs == garblings[pgc.globalKey].lsbs
  <2>1. PICK switched \in Switches(pgc.config) :
          ServerAfter("StripCircuit", digits,
                      StripCircuit(pgc, prePackmsg, digits, lsbs, switched, ndebug, readable))
    BY <1>5 DEF Strip
  <2> DEFINE result == StripCircuit(pgc, prePackmsg, digits, lsbs, switched, ndebug, readable)
  <2>2. /\ result.outcome \in {"ok", "throw", "lost"}
        /\ result.outcome # "ok" => result.pgc = pgc
        /\ result.outcome = "ok" => "RNDSIZE" \in DOMAIN pgc.config
    BY StripOutcome
  <2>3. pgc # DefaultPgc BY <1>5 DEF Strip
  <2>4. "RNDSIZE" \in DOMAIN pgc.config => AsGarbled(garblings, pgc)
    BY <2>3 DEF ServerMade, Made, MadeFrom
  <2>5. AsGarbled(garblings, pgc) => result.pgc.globalKey = pgc.globalKey
    <3> SUFFICES ASSUME AsGarbled(garblings, pgc) PROVE result.pgc.globalKey = pgc.globalKey
      OBVIOUS
    <3>1. DOMAIN pgc = PgcFields BY <1>2 DEF AsGarbled
    <3> QED BY <3>1, StripKeepsKey
  <2> HIDE DEF result
  <2>6. ServerAfter("StripCircuit", digits, result) BY <2>1 DEF result
  <2> QED BY <1>1, <2>2, <2>4, <2>5, <2>6 DEF ServerAfter
<1>6. ASSUME UNCHANGED server PROVE published' = published /\ pgc' = pgc BY <1>6 DEF server
<1>7. ASSUME NEW id \in DOMAIN published, NEW text \in Texts, RequestPackmsg(id, text)
      PROVE  UNCHANGED server
  BY <1>7 DEF RequestPackmsg, server
<1>8. ASSUME NEW id \in DOMAIN published, ReadPgc(id)
      PROVE  UNCHANGED server
  BY <1>8 DEF ReadPgc, server
<1>9. CASE NewClient \/ ReadDamagedPgc \/ UNCHANGED vars
  BY <1>6, <1>9 DEF NewClient, ReadDamagedPgc, vars, server
<1>10. ASSUME NEW inputs \in InputChoices, EvalWithInputs(inputs) \/ EvalWithPackmsg(inputs)
       PROVE  UNCHANGED server
  BY <1>10 DEF EvalWithInputs, EvalWithPackmsg, ClientAfter
<1> QED BY <1>3, <1>4, <1>5, <1>6, <1>7, <1>8, <1>9, <1>10 DEF Next

LEMMA StrippedOnceStays ==
  ASSUME MadeInv, StrippedOnce, [Next]_vars
  PROVE  StrippedOnce'
<1>1. CASE Publish
  <2> DEFINE n == Len(published) + 1
  <2>1. /\ DOMAIN published' = DOMAIN published \cup {n}
        /\ \A id \in DOMAIN published : published'[id] = published[id]
        /\ published'[n] = NewEntry /\ pgc' = pgc
        /\ pgc # DefaultPgc
    BY <1>1, PublishAppends DEF MadeInv, IInv, Publish
  <2>2. /\ NewEntry.pgc.skcd = pgc.skcd /\ NewEntry.pgc.globalKey = pgc.globalKey
        /\ NewEntry.pgc.inputLabels = pgc.inputLabels
        /\ NewEntry.pgc.outputLabels = pgc.outputLabels
    <3>1. DOMAIN pgc = PgcFields
      BY <2>1 DEF MadeInv, ServerMade, Made, MadeFrom, AsGarbled, GarbleSkcdFromBuffer, PgcFields
    <3> QED BY <3>1 DEF NewEntry, WriteProtobuf, PgcFields
  <2> HIDE DEF n
  <2>3. IsStripped(NewEntry.pgc) = IsStripped(pgc) BY <2>2 DEF IsStripped
  <2>4. ASSUME NEW i \in DOMAIN published',
               IsStripped(published'[i].pgc), published'[i].pgc.globalKey = pgc.globalKey
        PROVE  IsStripped(pgc) /\ published'[i].pgc.inputLabels = pgc.inputLabels
    <3>1. CASE i \in DOMAIN published BY <2>1, <2>4, <3>1 DEF StrippedOnce
    <3>2. CASE i = n BY <2>1, <2>2, <2>3, <2>4, <3>2
    <3> QED BY <2>1, <3>1, <3>2
  <2>5. ASSUME NEW i \in DOMAIN published', NEW j \in DOMAIN published',
               IsStripped(published'[i].pgc), IsStripped(published'[j].pgc),
               published'[i].pgc.globalKey = published'[j].pgc.globalKey
        PROVE  published'[i].pgc.inputLabels = published'[j].pgc.inputLabels
    <3>1. CASE i \in DOMAIN published /\ j \in DOMAIN published
      BY <2>1, <2>5, <3>1 DEF StrippedOnce
    <3>2. CASE i = n \/ j = n
      <4>1. /\ published'[i].pgc.globalKey = pgc.globalKey
            /\ published'[j].pgc.globalKey = pgc.globalKey
        BY <2>1, <2>2, <2>5, <3>2
      <4> QED BY <2>4, <2>5, <4>1
    <3> QED BY <2>1, <3>1, <3>2
  <2> QED BY <2>1, <2>4, <2>5 DEF StrippedOnce
<1>2. CASE ~ Publish
  <2>1. /\ published' = published
        /\ \/ pgc' = pgc
           \/ pgc'.globalKey \notin DOMAIN garblings
           \/ AsGarbled(garblings, pgc) /\ pgc'.globalKey = pgc.globalKey
    BY <1>2, ServerSteps
  <2>2. \A i \in DOMAIN published :
          IsStripped(published[i].pgc) => published[i].pgc.globalKey \in DOMAIN garblings
    BY StrippedIsMade, MadeFacts
  <2>3. AsGarbled(garblings, pgc) => ~ IsStripped(pgc)
    <3> SUFFICES ASSUME AsGarbled(garblings, pgc) PROVE pgc.outputLabels # <<>>
      BY DEF IsStripped
    <3> QED BY GarblingIsTyped, GarbledIsWhole DEF MadeInv, IInv, AsGarbled
  <2>4. CASE pgc' = pgc BY <2>1, <2>4 DEF StrippedOnce, IsStripped
  <2>5. CASE pgc'.globalKey \notin DOMAIN garblings BY <2>1, <2>2, <2>5 DEF StrippedOnce
  <2>6. CASE AsGarbled(garblings, pgc) /\ pgc'.globalKey = pgc.globalKey
    BY <2>1, <2>3, <2>6 DEF StrippedOnce
  <2> QED BY <2>1, <2>4, <2>5, <2>6
<1> QED BY <1>1, <1>2

--------------------------------------------------------------------------------
(***************************************************************************)
(* A circuit that was read as it was garbled has all its labels, in their   *)
(* places, and those of its outputs to map back.                            *)
(***************************************************************************)
LEMMA WholeLabels ==
  ASSUME NEW c \in Skcds, NEW g, NEW p, p = GarbleSkcdFromBuffer(c, g),
         NEW object, object = ReadProtobuf(p, DefaultPgc)
  PROVE  /\ object.skcd = c /\ object.globalKey = g
         /\ object.inputLabels = p.inputLabels
         /\ object.outputLabels = p.outputLabels /\ Len(p.outputLabels) = 2 * Len(c.outputs)
         /\ NonXorCount(c) = 1 => object.tables[1] = g
<1>1. /\ object.skcd = p.skcd /\ object.globalKey = p.globalKey
      /\ object.inputLabels = <<>> \o p.inputLabels
      /\ object.outputLabels = <<>> \o p.outputLabels
      /\ object.tables = <<>> \o p.tables
  BY DEF ReadProtobuf, DefaultPgc
<1> DEFINE inLabels == p.inputLabels
           outLabels == p.outputLabels
           tables == p.tables
           n == 2 * (c.nbInputs + 1)
           m == 2 * Len(c.outputs)
           label(i) == Label(g, (i - 1) \div 2, (i - 1) % 2)
           outLabel(i) == Label(g, OutputWire(c, 1 + (i - 1) \div 2), (i - 1) % 2)
           S == { label(i) : i \in 1 .. n }
           T == { outLabel(i) : i \in 1 .. m }
<1>2. /\ p.skcd = c /\ p.globalKey = g
      /\ inLabels = [i \in 1 .. n |-> label(i)]
      /\ outLabels = [i \in 1 .. m |-> outLabel(i)]
      /\ tables = [i \in 1 .. NonXorCount(c) |-> g]
  BY DEF GarbleSkcdFromBuffer
<1>3. n \in Nat /\ m \in Nat
  <2>1. c.nbInputs \in Nat /\ Len(c.outputs) \in Nat BY SkcdFacts
  <2> QED BY <2>1
<1>4. inLabels \in [1 .. n -> S] /\ outLabels \in [1 .. m -> T]
  <2>1. \A i \in 1 .. n : label(i) \in S OBVIOUS
  <2>2. \A i \in 1 .. m : outLabel(i) \in T OBVIOUS
  <2> HIDE DEF inLabels, outLabels, label, outLabel, S, T, n, m
  <2> QED BY <1>2, <2>1, <2>2
<1>5. tables \in Seq({g}) /\ (NonXorCount(c) = 1 => tables[1] = g)
  <2>1. tables = [i \in 1 .. NonXorCount(c) |-> g] BY <1>2
  <2> HIDE DEF tables
  <2> QED BY <2>1, TablesOfGarbling
<1> HIDE DEF inLabels, outLabels, tables, n, S, T
<1>6. inLabels \in Seq(S) BY <1>3, <1>4, FunctionIsSeq
<1>7. outLabels \in Seq(T) /\ Len(outLabels) = m
  <2> HIDE DEF m
  <2> QED BY <1>3, <1>4, FunctionIsSeq
<1>8. <<>> \o inLabels = inLabels /\ <<>> \o outLabels = outLabels /\ <<>> \o tables = tables
  BY <1>5, <1>6, <1>7, ConcatEmptySeq
<1> QED BY <1>1, <1>2, <1>5, <1>7, <1>8 DEF inLabels, outLabels, tables

LEMMA GarbledOutputLabels ==
  ASSUME NEW c \in Skcds, NEW g, NEW o \in DOMAIN c.outputs, NEW b \in Bit
  PROVE  LabelOf(GarbleSkcdFromBuffer(c, g).outputLabels, o - 1, b)
           = Label(g, OutputWire(c, o), b)
<1> DEFINE k == 2 * (o - 1) + b + 1
<1>1. Len(c.outputs) \in Nat /\ o \in 1 .. Len(c.outputs) BY SkcdFacts
<1>2. o - 1 \in Nat /\ 1 + (o - 1) = o BY <1>1
<1>3. k \in 1 .. 2 * Len(c.outputs) BY <1>1 DEF Bit
<1>4. (k - 1) \div 2 = o - 1 /\ (k - 1) % 2 = b BY <1>2, PairPlace
<1> HIDE DEF k
<1>5. GarbleSkcdFromBuffer(c, g).outputLabels[k]
        = Label(g, OutputWire(c, 1 + (k - 1) \div 2), (k - 1) % 2)
  BY <1>3 DEF GarbleSkcdFromBuffer
<1>6. LabelOf(GarbleSkcdFromBuffer(c, g).outputLabels, o - 1, b)
        = GarbleSkcdFromBuffer(c, g).outputLabels[k]
  BY DEF LabelOf, k
<1> QED BY <1>2, <1>4, <1>5, <1>6

(* The labels of all outputs for the bits of the inputs, and what they map   *)
(* to.                                                                       *)
LabelsOfOutputs(c, g, bits) ==
  [o \in DOMAIN c.outputs |-> Label(g, OutputWire(c, o), OutputBit(c.outputs[o], bits))]

OutputBits(c, bits) == [o \in DOMAIN c.outputs |-> OutputBit(c.outputs[o], bits)]

LEMMA MapOutputsMaps ==
  ASSUME NEW c \in Skcds, NEW g, NEW outputLabels, NEW evaluated, NEW bits,
         Len(outputLabels) = 2 * Len(c.outputs),
         \A o \in DOMAIN c.outputs, b \in Bit :
           LabelOf(outputLabels, o - 1, b) = Label(g, OutputWire(c, o), b),
         evaluated = LabelsOfOutputs(c, g, bits), NEW ndebug \in BOOLEAN
  PROVE  MapOutputs(outputLabels, evaluated, ndebug) = Returned(OutputBits(c, bits))
<1> DEFINE n == Len(c.outputs)
           S == { evaluated[o] : o \in 1 .. n }
           is(o, b) == 2 * o <= Len(outputLabels) /\ evaluated[o] = LabelOf(outputLabels, o - 1, b)
<1>1. n \in Nat /\ DOMAIN c.outputs = 1 .. n BY SkcdFacts
<1>6. /\ DOMAIN evaluated = DOMAIN c.outputs
      /\ evaluated = [o \in DOMAIN c.outputs |-> evaluated[o]]
      /\ \A o \in DOMAIN c.outputs :
           evaluated[o] = Label(g, OutputWire(c, o), OutputBit(c.outputs[o], bits))
  BY DEF LabelsOfOutputs
<1>2. Len(evaluated) = n
  <2>1. evaluated \in [1 .. n -> S] BY <1>1, <1>6
  <2> HIDE DEF n, S
  <2> QED BY <1>1, <2>1, FunctionIsSeq
<1>3. ASSUME NEW o \in DOMAIN c.outputs
      PROVE  /\ is(o, 0) \/ is(o, 1)
             /\ OutputBit(c.outputs[o], bits) = IF is(o, 0) THEN 0 ELSE 1
  <2> DEFINE a == OutputBit(c.outputs[o], bits)
             wire == OutputWire(c, o)
  <2>1. a \in Bit BY OutputBitIsBit
  <2>2. evaluated[o] = Label(g, wire, a) BY <1>6
  <2>3. /\ LabelOf(outputLabels, o - 1, 0) = Label(g, wire, 0)
        /\ LabelOf(outputLabels, o - 1, 1) = Label(g, wire, 1)
    BY DEF Bit
  <2> HIDE DEF a, wire
  <2>4. Label(g, wire, 0) # Label(g, wire, 1)
    <3>1. Label(g, wire, 0).bit = 0 /\ Label(g, wire, 1).bit = 1 BY DEF Label
    <3> QED BY <3>1
  <2>7. 2 * o <= Len(outputLabels) BY <1>1
  <2>5. a = IF is(o, 0) THEN 0 ELSE 1
    <3>1. CASE a = 0 BY <2>2, <2>3, <2>7, <3>1
    <3>2. CASE a = 1 BY <2>2, <2>3, <2>4, <3>2
    <3> QED BY <2>1, <3>1, <3>2 DEF Bit
  <2>6. is(o, 0) \/ is(o, 1) BY <2>1, <2>2, <2>3, <2>7 DEF Bit
  <2> QED BY <2>5, <2>6 DEF a
<1>5. MapOutputs(outputLabels, evaluated, ndebug)
        = Returned([o \in DOMAIN evaluated |-> IF is(o, 0) THEN 0 ELSE 1])
  BY <1>2, <1>3, <1>6 DEF MapOutputs
<1> HIDE DEF is
<1> QED BY <1>3, <1>5, <1>6 DEF OutputBits

LEMMA WholeEvaluation ==
  ASSUME GarblingsInv, NEW g \in DOMAIN garblings, NEW c, garblings[g].skcd = c,
         NEW object, object = ReadProtobuf(GarbleSkcdFromBuffer(c, g), DefaultPgc),
         NEW inputs \in Seq(Bit), Len(inputs) = c.nbInputs, NEW ndebug \in BOOLEAN
  PROVE  EvaluateWithInputs(object, inputs, garblings, ndebug) = Returned(OutputBits(c, inputs))
<1> DEFINE p == GarbleSkcdFromBuffer(c, g)
           labels == ExtractLabels(object, inputs)
           evaluated == ParallelEvaluate(object, labels, garblings)
<1>1. c \in Skcds BY GarblingIsTyped
<1>2. c.nbInputs \in Nat BY <1>1, SkcdFacts
<1>3. /\ object.skcd = c /\ object.globalKey = g /\ object.inputLabels = p.inputLabels
      /\ object.outputLabels = p.outputLabels /\ Len(p.outputLabels) = 2 * Len(c.outputs)
      /\ NonXorCount(c) = 1 => object.tables[1] = g
  BY <1>1, WholeLabels
<1>4. DOMAIN labels = 1 .. c.nbInputs BY DEF ExtractLabels
<1>5. ASSUME NEW i \in 1 .. c.nbInputs PROVE labels[i] = Label(g, i - 1, inputs[i])
  <2> DEFINE b == inputs[i]
  <2>1. b \in Bit BY ElementOfSeq
  <2>2. i - 1 \in 0 .. c.nbInputs BY <1>2
  <2>3. labels[i] = LabelOf(p.inputLabels, i - 1, b) BY <1>3 DEF ExtractLabels
  <2> HIDE DEF b, labels
  <2>4. LabelOf(GarbleSkcdFromBuffer(c, g).inputLabels, i - 1, b) = Label(g, i - 1, b)
    BY <1>2, <2>1, <2>2, GarbledInputLabels
  <2> QED BY <2>3, <2>4 DEF b
<1> HIDE DEF labels
<1>6. OwnLabels(garblings, object, c, g, labels, inputs)
  BY <1>3, <1>4, <1>5 DEF OwnLabels
<1>7. \A o \in DOMAIN c.outputs :
        evaluated[o] = Label(g, OutputWire(c, o), OutputBit(c.outputs[o], inputs))
  BY <1>1, <1>6, OwnLabelsEvaluate
<1>8. evaluated = LabelsOfOutputs(c, g, inputs)
  <2>1. evaluated = [o \in DOMAIN c.outputs |-> evaluated[o]] BY <1>3 DEF ParallelEvaluate
  <2> HIDE DEF evaluated
  <2> QED BY <1>7, <2>1 DEF LabelsOfOutputs
<1>9. \A o \in DOMAIN c.outputs, b \in Bit :
        LabelOf(p.outputLabels, o - 1, b) = Label(g, OutputWire(c, o), b)
  BY <1>1, GarbledOutputLabels
<1>10. MapOutputs(p.outputLabels, evaluated, ndebug) = Returned(OutputBits(c, inputs))
  <2> DEFINE out == p.outputLabels
  <2>1. /\ Len(out) = 2 * Len(c.outputs)
        /\ \A o \in DOMAIN c.outputs, b \in Bit :
             LabelOf(out, o - 1, b) = Label(g, OutputWire(c, o), b)
    BY <1>3, <1>9
  <2> HIDE DEF out, evaluated
  <2>2. MapOutputs(out, evaluated, ndebug) = Returned(OutputBits(c, inputs))
    BY <1>1, <1>8, <2>1, MapOutputsMaps
  <2> QED BY <2>2 DEF out
<1> HIDE DEF p, evaluated
<1> QED BY <1>3, <1>10 DEF EvaluateWithInputs, evaluated, labels

--------------------------------------------------------------------------------
(* What the last call was, after a step. *)
LEMMA CallMade ==
  ASSUME [Next]_vars
  PROVE  \/ UNCHANGED vars
         \/ \E inputs \in InputChoices : EvalWithInputs(inputs) \/ EvalWithPackmsg(inputs)
         \/ last'.call \notin {"EvaluateWithInputs", "EvaluateWithPackmsg"}
<1>1. ASSUME NEW skcd \in Skcds, NEW lsbs \in LsbChoices, GarbleSkcd(skcd, lsbs)
      PROVE  last'.call \notin {"EvaluateWithInputs", "EvaluateWithPackmsg"}
  BY <1>1 DEF GarbleSkcd, ServerAfter, Called
<1>2. ASSUME NEW skcd \in Skcds, NEW digits \in DigitChoices, NEW lsbs \in LsbChoices,
             GarbleAndStrip(skcd, digits, lsbs)
      PROVE  last'.call \notin {"EvaluateWithInputs", "EvaluateWithPackmsg"}
  BY <1>2 DEF GarbleAndStrip, ServerAfter, Called
<1>3. ASSUME NEW digits \in DigitChoices, NEW ndebug \in BOOLEAN, NEW readable \in BOOLEAN,
             Strip(digits, ndebug, readable)
      PROVE  last'.call \notin {"EvaluateWithInputs", "EvaluateWithPackmsg"}
  BY <1>3 DEF Strip, ServerAfter, Called
<1>4. CASE Publish BY <1>4 DEF Publish, Called
<1>5. ASSUME NEW id \in DOMAIN published, NEW text \in Texts, RequestPackmsg(id, text)
      PROVE  last'.call \notin {"EvaluateWithInputs", "EvaluateWithPackmsg"}
  BY <1>5 DEF RequestPackmsg, Called
<1>6. CASE NewClient BY <1>6 DEF NewClient, Called
<1>7. ASSUME NEW id \in DOMAIN published, ReadPgc(id)
      PROVE  last'.call \notin {"EvaluateWithInputs", "EvaluateWithPackmsg"}
  BY <1>7 DEF ReadPgc, Called
<1>8. CASE ReadDamagedPgc BY <1>8 DEF ReadDamagedPgc, Called
<1> QED BY <1>1, <1>2, <1>3, <1>4, <1>5, <1>6, <1>7, <1>8 DEF Next

LEMMA EntryIsWhole ==
  ASSUME MadeInv, NEW id \in DOMAIN published, ~ IsStripped(published[id].pgc)
  PROVE  WholeEntry(published[id])
<1>1. WholeEntry(published[id]) \/ MadeEntry(published[id]) BY DEF MadeInv, EntriesMade
<1>2. ~ MadeEntry(published[id]) BY MadeIsStripped DEF MadeEntry, MadeInv, IInv
<1> QED BY <1>1, <1>2

LEMMA WholeCircuitShows ==
  ASSUME MadeInv, FreshlyRead, NEW inputs \in InputChoices, EvalWithInputs(inputs)
  PROVE  WholeCircuitEvaluates'
<1>0. PICK ndebug \in BOOLEAN :
        ClientAfter("EvaluateWithInputs", inputs,
                    EvaluateWithInputs(client, inputs, garblings, ndebug))
  BY DEF EvalWithInputs
<1> DEFINE result == EvaluateWithInputs(client, inputs, garblings, ndebug)
<1>1. /\ Len(inputs) = client.skcd.nbInputs /\ published' = published
      /\ shown'.reads = reads /\ shown'.inputs = inputs /\ shown'.outputs = result.outputs
  BY <1>0 DEF EvalWithInputs, ClientAfter, server
<1>2. inputs \in Seq(Bit) BY PackmsgAssumption
<1>3. ASSUME NEW id \in DOMAIN published, reads = <<id>>, ~ IsStripped(published[id].pgc)
      PROVE  LET outputs == published[id].pgc.skcd.outputs
             IN  result.outputs = [o \in DOMAIN outputs |-> OutputBit(outputs[o], inputs)]
  <2> DEFINE p == published[id].pgc
             g == p.globalKey
             c == garblings[g].skcd
  <2>1. /\ g \in DOMAIN garblings /\ p = GarbleSkcdFromBuffer(c, g)
    BY <1>3, EntryIsWhole DEF WholeEntry, AsGarbled
  <2>2. p.skcd = c BY <2>1 DEF GarbleSkcdFromBuffer
  <2>3. client = ReadProtobuf(p, DefaultPgc) BY <1>3 DEF FreshlyRead
  <2>4. client.skcd = c BY <2>2, <2>3 DEF ReadProtobuf
  <2> HIDE DEF p, g
  <2>5. result = Returned(OutputBits(c, inputs))
    BY <1>1, <1>2, <2>1, <2>3, <2>4, WholeEvaluation DEF MadeInv, IInv
  <2> HIDE DEF c
  <2> QED BY <2>2, <2>5 DEF Returned, OutputBits, p
<1> HIDE DEF result
<1> QED BY <1>1, <1>3 DEF WholeCircuitEvaluates

LEMMA WholeCircuitStays ==
  ASSUME MadeInv, FreshlyRead, WholeCircuitEvaluates, [Next]_vars
  PROVE  WholeCircuitEvaluates'
<1>1. CASE UNCHANGED vars BY <1>1 DEF vars, server, WholeCircuitEvaluates
<1>2. ASSUME NEW inputs \in InputChoices, EvalWithInputs(inputs)
      PROVE  WholeCircuitEvaluates'
  BY <1>2, WholeCircuitShows
<1>3. CASE last'.call # "EvaluateWithInputs" BY <1>3 DEF WholeCircuitEvaluates
<1>4. ASSUME NEW inputs \in InputChoices, EvalWithPackmsg(inputs)
      PROVE  last'.call # "EvaluateWithInputs"
  BY <1>4 DEF EvalWithPackmsg, ClientAfter
<1> QED BY <1>1, <1>2, <1>3, <1>4, CallMade

(***************************************************************************)
(* WholeCircuitEvaluates, for any circuits and number of calls: what was    *)
(* garbled, written and read into a new object evaluates to the bits of the *)
(* circuit, and MapOutputs knows every label.                               *)
(***************************************************************************)
THEOREM WholeCircuitsAlwaysEvaluate == Spec => []WholeCircuitEvaluates
<1> DEFINE Inv == MadeInv /\ FreshlyRead /\ WholeCircuitEvaluates
<1>1. Init => Inv
  <2> SUFFICES ASSUME Init PROVE FreshlyRead /\ WholeCircuitEvaluates BY InitMadeInv
  <2>1. published = <<>> BY DEF Init
  <2> QED BY <2>1 DEF FreshlyRead, WholeCircuitEvaluates
<1>2. Inv /\ [Next]_vars => Inv'
  BY MadeInductive, FreshlyReadStays, WholeCircuitStays
<1>3. Inv => WholeCircuitEvaluates OBVIOUS
<1> HIDE DEF Inv
<1> QED BY <1>1, <1>2, <1>3, PTL DEF Spec

--------------------------------------------------------------------------------
(***************************************************************************)
(* An evaluation with any packet of an object that stripped circuits were   *)
(* read into.  Where a label is in its place, it is one of the first that   *)
(* was read, of a random input, or one of the packet.                       *)
(***************************************************************************)
LEMMA LabelOfClient ==
  ASSUME NEW c \in Skcds, IsDisplay(c.config), NEW g, NEW switched, NEW first,
         SwappedLabels(first.inputLabels, c, g, switched),
         NEW object, LabelsRead(object, first), object.skcd.nbInputs \in Nat,
         NEW i \in 0 .. object.skcd.nbInputs - 1, NEW b \in Bit,
         NEW label, label = LabelOf(object.inputLabels, i, b),
         label.garbling # 0, label.wire = i
  PROVE  /\ label.garbling = g /\ label = LabelOf(first.inputLabels, i, b)
         /\ i \in RandomInputs(c.config) \/ i = c.nbInputs
<1> DEFINE k == 2 * i + b + 1
           kept == first.inputLabels
<1>1. PICK n \in Nat \ {0} :
        Len(object.inputLabels) = 2 * n /\ object.skcd.nbInputs + 1 <= n
  BY DEF LabelsRead
<1>2. k \in 1 .. Len(object.inputLabels) BY <1>1 DEF Bit
<1>3. i \in Nat /\ (k - 1) \div 2 = i BY PairPlace
<1>4. c.nbInputs \in Nat /\ Len(kept) = 2 * (c.nbInputs + 1) BY SkcdFacts DEF SwappedLabels
<1> HIDE DEF k, kept
<1>5. label = object.inputLabels[k] BY DEF LabelOf, k
<1>6. k \in 1 .. Len(kept) /\ label = kept[k] BY <1>2, <1>3, <1>5 DEF LabelsRead, Foreign, kept
<1>7. label = LabelOf(kept, i, b) BY <1>6 DEF LabelOf, k
<1>8. i <= c.nbInputs BY <1>3, <1>4, <1>6 DEF Bit, k
<1>9. CASE i = c.nbInputs
  <2>1. label = Label(g, i, b) BY <1>7, <1>9 DEF SwappedLabels, kept
  <2>2. label.garbling = g BY <2>1 DEF Label
  <2> QED BY <1>7, <1>9, <2>2 DEF kept
<1>10. CASE i # c.nbInputs
  <2>1. i \in 0 .. c.nbInputs - 1 BY <1>3, <1>4, <1>8, <1>10
  <2>2. /\ label = IF i \in switched THEN Label(g, i, 1 - b)
                   ELSE IF i \in RandomInputs(c.config) THEN Label(g, i, b)
                   ELSE Zero
        /\ switched \subseteq RandomInputs(c.config)
    BY <1>7, <2>1 DEF SwappedLabels, kept
  <2>3. Zero.garbling = 0 BY DEF Zero, Label
  <2>4. i \in RandomInputs(c.config) BY <2>2, <2>3
  <2>5. label.garbling = g BY <2>2, <2>4 DEF Label
  <2> QED BY <1>7, <2>4, <2>5 DEF kept
<1> QED BY <1>9, <1>10

(* An object that the circuit of entry other was read into first, evaluated  *)
(* with the packet of entry for inputs, as circuit c.                        *)
Mixed(entry, other, object, c, inputs) ==
  /\ MadeEntry(entry) /\ MadeEntry(other) /\ Fits(entry)
  /\ entry.pgc.globalKey = other.pgc.globalKey => entry.pgc.inputLabels = other.pgc.inputLabels
  /\ LabelsRead(object, other.pgc)
  /\ c \in Skcds /\ object.skcd = c
  /\ inputs \in Seq(Bit) /\ Len(inputs) = c.nbInputs

Patched(entry, object, inputs) ==
  PatchInputs(entry.prePackmsg.labels, ExtractLabels(object, inputs))

(* Garbling h is of the circuit, and label is what it takes for input i. *)
InPlace(label, h, c, i) ==
  /\ h \in DOMAIN garblings /\ garblings[h].skcd = c
  /\ label.garbling = h /\ label.wire = i

(* It is one of the first circuit, of a random input, or one of the packet.  *)
IsMixed(entry, other, c, inputs, label, h, i) ==
  \/ /\ i \in RandomInputs(c.config) /\ h = other.pgc.globalKey
     /\ label = LabelOf(other.pgc.inputLabels, i, inputs[i + 1])
  \/ /\ i \notin RandomInputs(c.config) /\ h = entry.pgc.globalKey
     /\ entry.prePackmsg.labels # <<>> /\ entry.pgc.skcd = c
     /\ label = entry.prePackmsg.labels[i + 1]

LEMMA MixedLabel ==
  ASSUME MadeInv, NEW entry, NEW other, NEW object, NEW c, NEW inputs,
         Mixed(entry, other, object, c, inputs), NEW h, NEW i \in 0 .. c.nbInputs - 1,
         NEW label, label = Patched(entry, object, inputs)[i + 1], InPlace(label, h, c, i)
  PROVE  IsMixed(entry, other, c, inputs, label, h, i)
<1> DEFINE labels == entry.prePackmsg.labels
           extracted == ExtractLabels(object, inputs)
           b == inputs[i + 1]
<1>1. /\ c \in Skcds /\ object.skcd = c /\ inputs \in Seq(Bit) /\ Len(inputs) = c.nbInputs
      /\ MadeEntry(entry) /\ MadeEntry(other) /\ Fits(entry) /\ LabelsRead(object, other.pgc)
  BY DEF Mixed
<1>2. c.nbInputs \in Nat /\ i + 1 \in 1 .. c.nbInputs /\ (i + 1) - 1 = i BY <1>1, SkcdFacts
<1>3. b \in Bit BY <1>1, <1>2, ElementOfSeq
<1>4. DOMAIN extracted = 1 .. c.nbInputs /\ extracted[i + 1] = LabelOf(object.inputLabels, i, b)
  BY <1>1, <1>2 DEF ExtractLabels
<1>5. h # 0 BY LenProperties DEF InPlace, MadeInv, IInv, GarblingsInv
<1> HIDE DEF b, extracted
<1>6. CASE i + 1 \in DOMAIN labels /\ BothHalvesSet(labels[i + 1])
  <2> DEFINE e == entry.pgc.skcd
             g == entry.pgc.globalKey
             lsbs == garblings[g].lsbs
  <2>1. label = labels[i + 1] BY <1>2, <1>4, <1>6 DEF Patched, PatchInputs, extracted
  <2>2. labels # <<>> BY <1>6
  <2>3. /\ e \in Skcds /\ IsDisplay(e.config) /\ garblings[g].skcd = e
        /\ MadeFrom(entry.pgc, entry.prePackmsg, entry.digits, e, g, lsbs)
        /\ FitsDisplay(e, entry.digits)
    BY <1>1, MadeFacts DEF Fits
  <2> HIDE DEF e, g, lsbs
  <2>4. PacketFor(entry, e, g, lsbs) BY <2>2, <2>3 DEF PacketFor
  <2>5. DOMAIN labels = 1 .. e.nbInputs
    <3>1. 1 \in 1 .. e.nbInputs BY <2>3, DisplayFacts, SkcdFacts
    <3> HIDE DEF labels
    <3>2. labels = entry.prePackmsg.labels BY DEF labels
    <3> QED BY <2>3, <2>4, <3>1, <3>2, PacketLabels
  <2>6. /\ i \in RandomInputs(e.config) => labels[i + 1] = Zero
        /\ i \notin RandomInputs(e.config) => labels[i + 1] = Label(g, i, labels[i + 1].bit)
    <3>1. i + 1 \in 1 .. e.nbInputs BY <1>6, <2>5
    <3> DEFINE place == i + 1
    <3>2. place - 1 = i BY <1>2
    <3>3. labels = entry.prePackmsg.labels BY DEF labels
    <3> HIDE DEF labels, place
    <3>4. /\ place - 1 \in RandomInputs(e.config) => labels[place] = Zero
          /\ place - 1 \notin RandomInputs(e.config) =>
               labels[place] = Label(g, place - 1, labels[place].bit)
      BY <2>3, <2>4, <3>1, <3>3, PacketLabels DEF place
    <3> QED BY <3>2, <3>4 DEF place
  <2>7. i \notin RandomInputs(e.config) BY <1>6, <2>6 DEF BothHalvesSet
  <2>8. label.garbling = g BY <2>1, <2>6, <2>7 DEF Label
  <2>9. h = g /\ e = c BY <2>3, <2>8 DEF InPlace
  <2> QED BY <2>1, <2>2, <2>7, <2>9 DEF e, g, IsMixed
<1>7. CASE ~ (i + 1 \in DOMAIN labels /\ BothHalvesSet(labels[i + 1]))
  <2> DEFINE d == other.pgc.skcd
             g == other.pgc.globalKey
  <2>1. label = LabelOf(object.inputLabels, i, b)
    BY <1>2, <1>4, <1>7 DEF Patched, PatchInputs, extracted
  <2>2. /\ d \in Skcds /\ IsDisplay(d.config) /\ garblings[g].skcd = d
        /\ \E switched : SwappedLabels(other.pgc.inputLabels, d, g, switched)
    BY <1>1, MadeFacts
  <2> HIDE DEF d, g
  <2>3. /\ label.garbling = g /\ label = LabelOf(other.pgc.inputLabels, i, b)
        /\ i \in RandomInputs(d.config) \/ i = d.nbInputs
    <3>1. label.garbling # 0 /\ label.wire = i BY <1>5 DEF InPlace
    <3>2. PICK switched : SwappedLabels(other.pgc.inputLabels, d, g, switched) BY <2>2
    <3>3. object.skcd.nbInputs \in Nat /\ i \in 0 .. object.skcd.nbInputs - 1 BY <1>1, <1>2
    <3> DEFINE first == other.pgc
    <3>4. SwappedLabels(first.inputLabels, d, g, switched) /\ LabelsRead(object, first)
      BY <1>1, <3>2
    <3> HIDE DEF first
    <3>5. /\ label.garbling = g /\ label = LabelOf(first.inputLabels, i, b)
          /\ i \in RandomInputs(d.config) \/ i = d.nbInputs
      BY <1>3, <2>1, <2>2, <3>1, <3>3, <3>4, LabelOfClient
    <3> QED BY <3>5 DEF first
  <2>4. h = g /\ d = c BY <2>2, <2>3 DEF InPlace
  <2>5. i # c.nbInputs BY <1>2
  <2> QED BY <2>3, <2>4, <2>5 DEF b, g, IsMixed
<1> QED BY <1>6, <1>7

(* It stands for the bit of the frame, if the garbling is that of the packet. *)
IsFrameBit(entry, inputs, i, label) ==
  label.bit = Burned!FrameInputs(BurnedBy(entry), inputs)[i + 1]

LEMMA MixedBit ==
  ASSUME MadeInv, NEW entry, NEW other, NEW object, NEW c, NEW inputs,
         Mixed(entry, other, object, c, inputs),
         entry.prePackmsg.labels # <<>>, entry.pgc.skcd = c,
         NEW h, h = entry.pgc.globalKey, NEW i \in 0 .. c.nbInputs - 1,
         NEW label, label = Patched(entry, object, inputs)[i + 1], InPlace(label, h, c, i)
  PROVE  IsFrameBit(entry, inputs, i, label)
<1> DEFINE labels == entry.prePackmsg.labels
           place == i + 1
           lsbs == garblings[h].lsbs
           frame == Burned!FrameInputs(BurnedBy(entry), inputs)
<1>1. /\ c \in Skcds /\ MadeEntry(entry) /\ Fits(entry)
      /\ inputs \in Seq(Bit) /\ Len(inputs) = c.nbInputs
      /\ h = other.pgc.globalKey => entry.pgc.inputLabels = other.pgc.inputLabels
  BY DEF Mixed
<1>2. /\ IsDisplay(c.config) /\ PacketFor(entry, c, h, lsbs)
      /\ \E switched : SwappedLabels(entry.pgc.inputLabels, c, h, switched)
  BY <1>1, MadeFacts DEF PacketFor, Fits
<1>3. PICK switched : SwappedLabels(entry.pgc.inputLabels, c, h, switched) BY <1>2
<1>4. /\ c.nbInputs \in Nat /\ place \in 1 .. c.nbInputs /\ place - 1 = i
      /\ c.config["BITMAP_NB_SEGMENTS"] \in Nat
      /\ RandomInputs(c.config) = c.config["BITMAP_NB_SEGMENTS"] .. c.nbInputs - 2
  BY <1>1, <1>2, SkcdFacts, DisplayFacts
<1> HIDE DEF lsbs, place, frame
<1>5. frame[place] = FrameBit(entry, c, switched, inputs, place)
  <2>1. Shuffled(entry, c, h, lsbs, switched) BY <1>2, <1>3 DEF Shuffled
  <2>2. frame = [k \in 1 .. c.nbInputs |-> FrameBit(entry, c, switched, inputs, k)]
    BY <1>1, <2>1, FrameOfEntry DEF frame
  <2> QED BY <1>4, <2>2
<1>6. \/ /\ i \in RandomInputs(c.config) /\ h = other.pgc.globalKey
         /\ label = LabelOf(other.pgc.inputLabels, i, inputs[place])
      \/ /\ i \notin RandomInputs(c.config)
         /\ label = entry.prePackmsg.labels[place]
  <2>1. IsMixed(entry, other, c, inputs, label, h, i) BY MixedLabel
  <2> QED BY <2>1 DEF place, IsMixed
<1>7. CASE i \in RandomInputs(c.config)
  <2> DEFINE b == inputs[place]
  <2>1. b \in Bit BY <1>1, <1>4, ElementOfSeq
  <2>2. label = LabelOf(entry.pgc.inputLabels, i, b) BY <1>1, <1>6, <1>7
  <2> HIDE DEF b
  <2>3. label = IF i \in switched THEN Label(h, i, 1 - b) ELSE Label(h, i, b)
    BY <1>3, <1>7, <2>1, <2>2 DEF SwappedLabels
  <2>4. ~ (place <= c.config["BITMAP_NB_SEGMENTS"]) /\ place # c.nbInputs BY <1>4, <1>7
  <2>5. frame[place] = IF i \in switched THEN 1 - b ELSE b BY <1>4, <1>5, <2>4 DEF FrameBit, b
  <2>6. label.bit = frame[place] BY <2>3, <2>5 DEF Label
  <2> QED BY <2>6 DEF place, frame, IsFrameBit
<1>8. CASE i \notin RandomInputs(c.config)
  <2>1. place <= c.config["BITMAP_NB_SEGMENTS"] \/ place = c.nbInputs BY <1>4, <1>8
  <2>2. place = c.nbInputs => labels[place].bit = 0
    <3>1. labels = entry.prePackmsg.labels OBVIOUS
    <3> HIDE DEF labels
    <3> QED BY <1>1, <1>2, <1>4, <3>1, PacketLabels
  <2>3. frame[place] = labels[place].bit BY <1>5, <2>1, <2>2 DEF FrameBit
  <2>4. label.bit = frame[place] BY <1>6, <1>8, <2>3
  <2> QED BY <2>4 DEF place, frame, IsFrameBit
<1> QED BY <1>7, <1>8

(* The label of an output is garbage, or that of the frame's bit.            *)
IsOfFrame(entry, c, inputs, o, label) ==
  LET h == entry.pgc.globalKey
      frame == Burned!FrameInputs(BurnedBy(entry), inputs)
  IN  /\ entry.pgc.skcd = c /\ entry.prePackmsg.labels # <<>>
      /\ label = Label(h, OutputWire(c, o), OutputBit(c.outputs[o], frame))

LEMMA MixedOutput ==
  ASSUME MadeInv, NEW entry, NEW other, NEW object, NEW c, NEW inputs,
         Mixed(entry, other, object, c, inputs), NEW o \in DOMAIN c.outputs,
         ~ (Reads(c.outputs[o]) \subseteq RandomInputs(c.config)),
         NEW label, label = ParallelEvaluate(object, Patched(entry, object, inputs), garblings)[o]
  PROVE  label = Garbage \/ IsOfFrame(entry, c, inputs, o, label)
<1> DEFINE output == c.outputs[o]
           patched == Patched(entry, object, inputs)
           source == Source(object, patched, output, garblings)
           frame == Burned!FrameInputs(BurnedBy(entry), inputs)
           bits == [i \in DOMAIN patched |-> patched[i].bit]
<1>1. c \in Skcds /\ object.skcd = c /\ inputs \in Seq(Bit) /\ Len(inputs) = c.nbInputs
  BY DEF Mixed
<1>2. c.nbInputs \in Nat BY <1>1, SkcdFacts
<1>3. output \in SUBSET SUBSET (0 .. c.nbInputs - 1)
  <2> DEFINE S == SUBSET SUBSET (0 .. c.nbInputs - 1)
  <2>1. c.outputs \in Seq(S) /\ o \in 1 .. Len(c.outputs) BY <1>1, SkcdFacts
  <2> HIDE DEF S
  <2>2. c.outputs[o] \in S BY <2>1, ElementOfSeq
  <2> QED BY <2>2 DEF S
<1>4. Reads(output) \subseteq 0 .. c.nbInputs - 1 BY <1>3 DEF Reads
<1>5. PICK j \in Reads(output) : j \notin RandomInputs(c.config) OBVIOUS
<1>6. DOMAIN patched = 1 .. c.nbInputs BY <1>1 DEF Patched, PatchInputs, ExtractLabels
<1> HIDE DEF output, patched, frame
<1>7. ASSUME NEW h \in source, NEW i \in Reads(output)
      PROVE  /\ i \in 0 .. c.nbInputs - 1 /\ InPlace(patched[i + 1], h, c, i)
             /\ IsMixed(entry, other, c, inputs, patched[i + 1], h, i)
  <2>1. InPlace(patched[i + 1], h, c, i) BY <1>1 DEF Source, InPlace
  <2>2. i \in 0 .. c.nbInputs - 1 BY <1>4
  <2> DEFINE l == patched[i + 1]
  <2>3. l = Patched(entry, object, inputs)[i + 1] BY DEF patched
  <2> HIDE DEF l
  <2>4. InPlace(l, h, c, i) BY <2>1 DEF l
  <2>5. IsMixed(entry, other, c, inputs, l, h, i) BY <2>2, <2>3, <2>4, MixedLabel
  <2> QED BY <2>1, <2>2, <2>5 DEF l
<1>8. ASSUME NEW h \in source
      PROVE  h = entry.pgc.globalKey /\ entry.prePackmsg.labels # <<>> /\ entry.pgc.skcd = c
  BY <1>5, <1>7 DEF IsMixed
<1>9. ASSUME NEW h \in source, NEW i \in Reads(output)
      PROVE  bits[i + 1] = frame[i + 1]
  <2> DEFINE l == patched[i + 1]
  <2>1. i \in 0 .. c.nbInputs - 1 /\ InPlace(l, h, c, i) BY <1>7
  <2>2. l = Patched(entry, object, inputs)[i + 1] BY DEF patched
  <2>3. h = entry.pgc.globalKey /\ entry.prePackmsg.labels # <<>> /\ entry.pgc.skcd = c BY <1>8
  <2> HIDE DEF l, source
  <2>4. IsFrameBit(entry, inputs, i, l)
    BY <2>1, <2>2, <2>3, MixedBit
  <2>5. i + 1 \in DOMAIN patched BY <1>2, <1>6, <2>1
  <2>6. bits[i + 1] = l.bit BY <2>5 DEF l
  <2> QED BY <2>4, <2>6 DEF frame, IsFrameBit
<1>10. label = IF source = {}
                 THEN Garbage
                 ELSE Label(CHOOSE h \in source : TRUE, OutputWire(c, o), OutputBit(output, bits))
  BY <1>1 DEF ParallelEvaluate, output, patched
<1> HIDE DEF bits, source
<1>11. CASE source = {} BY <1>10, <1>11
<1>12. CASE source # {}
  <2>1. PICK h \in source : TRUE BY <1>12
  <2>2. \A k \in source : k = h BY <1>8
  <2>3. source = {h} BY <2>1, <2>2
  <2>4. (CHOOSE k \in {h} : TRUE) = h OBVIOUS
  <2>5. OutputBit(output, bits) = OutputBit(output, frame)
    <3>1. ASSUME NEW product \in output
          PROVE  (\A i \in product : bits[i + 1] = 1) <=> (\A i \in product : frame[i + 1] = 1)
      <4>1. product \subseteq Reads(output) BY DEF Reads
      <4>2. \A i \in product : bits[i + 1] = frame[i + 1] BY <1>9, <2>1, <4>1
      <4> QED BY <4>2
    <3>2. { product \in output : \A i \in product : bits[i + 1] = 1 }
            = { product \in output : \A i \in product : frame[i + 1] = 1 }
      BY <3>1
    <3> QED BY <3>2 DEF OutputBit
  <2>6. label = Label(h, OutputWire(c, o), OutputBit(output, frame))
    BY <1>10, <1>12, <2>3, <2>4, <2>5
  <2> QED BY <1>8, <2>1, <2>6 DEF IsOfFrame, output, frame
<1> QED BY <1>11, <1>12

(* What is shown of it, under the mask of the text.                          *)
LEMMA MixedPixel ==
  ASSUME MadeInv, NEW entry, NEW other, NEW object, NEW c, NEW inputs,
         Mixed(entry, other, object, c, inputs), NEW o \in DOMAIN c.outputs,
         ~ (Reads(c.outputs[o]) \subseteq RandomInputs(c.config)),
         NEW text \in Texts, NEW packet, OwnPacketOf(packet, entry, text), NEW lowBits,
         lowBits = LowBits(ParallelEvaluate(object, Patched(entry, object, inputs), garblings),
                           garblings)
  PROVE  ApplyXormask(packet.xormask, lowBits)[o]
           \in {AnyBit, Burned!Frame(BurnedBy(entry), text, inputs)[o]}
<1> DEFINE evaluated == ParallelEvaluate(object, Patched(entry, object, inputs), garblings)
           label == evaluated[o]
           g == entry.pgc.globalKey
           lsbs == garblings[g].lsbs
           mark == Watermark[text]
           frame == Burned!FrameInputs(BurnedBy(entry), inputs)
           words == packet.xormask
           n == Len(c.outputs)
<1>1. /\ c \in Skcds /\ object.skcd = c /\ MadeEntry(entry) /\ Fits(entry)
  BY DEF Mixed
<1>2. n \in Nat /\ DOMAIN c.outputs = 1 .. n BY <1>1, SkcdFacts
<1>3. DOMAIN evaluated = 1 .. n BY <1>1, <1>2 DEF ParallelEvaluate
<1>4. label = Garbage \/ IsOfFrame(entry, c, inputs, o, label)
  <2> HIDE DEF n, frame
  <2> QED BY MixedOutput
<1> HIDE DEF evaluated, label, n
<1>5. /\ lowBits = [k \in 1 .. n |-> lowBits[k]]
      /\ lowBits[o] = IF label = Garbage THEN AnyBit
                      ELSE XorBit(label.bit, garblings[label.garbling].lsbs[o])
  <2>1. lowBits = LowBits(evaluated, garblings) BY DEF evaluated
  <2> QED BY <1>2, <1>3, <2>1 DEF LowBits, label
<1>6. Len(lowBits) = n
  <2> DEFINE S == { lowBits[k] : k \in 1 .. n }
  <2>1. lowBits \in [1 .. n -> S] BY <1>5
  <2> HIDE DEF S
  <2> QED BY <1>2, <2>1, FunctionIsSeq
<1>7. ApplyXormask(words, lowBits)[o] = XorBit(lowBits[o], MaskBit(words, o - 1))
  BY <1>2, <1>6 DEF ApplyXormask
<1>8. CASE label = Garbage
  <2>1. lowBits[o] = AnyBit BY <1>5, <1>8
  <2> QED BY <1>7, <2>1 DEF XorBit
<1>9. CASE label # Garbage
  <2>1. /\ entry.pgc.skcd = c /\ entry.prePackmsg.labels # <<>>
        /\ label = Label(g, OutputWire(c, o), OutputBit(c.outputs[o], frame))
    BY <1>4, <1>9 DEF IsOfFrame
  <2>2. /\ g \in DOMAIN garblings /\ garblings[g].skcd = c
        /\ MadeFrom(entry.pgc, entry.prePackmsg, entry.digits, c, g, lsbs)
        /\ \E switched : SwappedLabels(entry.pgc.inputLabels, c, g, switched)
    BY <1>1, <2>1, MadeFacts
  <2>3. lsbs \in Seq(Bit) /\ Len(lsbs) = n
    BY <2>2, GarblingIsTyped DEF MadeInv, IInv, n
  <2>4. IsDisplay(c.config) /\ entry.prePackmsg.xormask = lsbs BY <2>2 DEF MadeFrom
  <2>5. mark \in Seq(Bit) /\ Len(mark) = n BY <1>1, <2>4, PackmsgAssumption DEF n
  <2>6. words = pack_bits64(XorBits(lsbs, mark)) BY <2>4 DEF OwnPacketOf
  <2>7. BurnedBy(entry).skcd = c
    <3>1. PICK switched : SwappedLabels(entry.pgc.inputLabels, c, g, switched) BY <2>2
    <3> HIDE DEF lsbs, g
    <3>2. Shuffled(entry, c, g, lsbs, switched)
      BY <1>1, <2>1, <2>2, <3>1 DEF Shuffled, PacketFor, Fits
    <3> QED BY <1>1, <3>2, FrameOfEntry
  <2> DEFINE a == OutputBit(c.outputs[o], frame)
  <2>8. a \in Bit BY <1>1, OutputBitIsBit
  <2> HIDE DEF g, frame
  <2>9. lowBits[o] = XorBit(a, lsbs[o])
    <3>1. label.bit = a /\ label.garbling = g BY <2>1 DEF Label
    <3> QED BY <1>5, <1>9, <3>1
  <2> HIDE DEF lsbs, words, mark, a
  <2>10. XorBit(lowBits[o], MaskBit(words, o - 1)) = (a + mark[o]) % 2
    <3> DEFINE mask == XorBits(lsbs, mark)
    <3>1. /\ mask \in Seq(Bit) /\ Len(mask) = n
          /\ mask[o] = XorBit(lsbs[o], mark[o]) /\ lsbs[o] \in Bit /\ mark[o] \in Bit
      BY <1>2, <2>3, <2>5, MaskOfText
    <3> HIDE DEF mask
    <3>2. ApplyXormask(pack_bits64(mask), lowBits)[o] = XorBit(lowBits[o], mask[o])
      BY <1>2, <1>6, <3>1, PackedMaskIsApplied
    <3>3. ApplyXormask(words, lowBits)[o] = XorBit(lowBits[o], mask[o])
      BY <2>6, <3>2 DEF mask
    <3> DEFINE l == lsbs[o]
               w == mark[o]
    <3>4. /\ l \in Bit /\ w \in Bit /\ mask[o] = XorBit(l, w) /\ lowBits[o] = XorBit(a, l)
      BY <2>9, <3>1
    <3> HIDE DEF l, w
    <3>5. XorBit(XorBit(a, l), XorBit(l, w)) = (a + w) % 2 BY <2>8, <3>4, MaskIsUndone
    <3> QED BY <1>7, <3>3, <3>4, <3>5 DEF w
  <2>11. Burned!Frame(BurnedBy(entry), text, inputs)[o] = (a + mark[o]) % 2
    <3> DEFINE b == BurnedBy(entry)
    <3>1. b.skcd = c /\ Burned!FrameInputs(b, inputs) = frame BY <2>7 DEF frame
    <3> HIDE DEF b
    <3>2. \A bits : Burned!OutputBit(c.outputs[o], bits) = OutputBit(c.outputs[o], bits)
      BY DEF Burned!OutputBit, OutputBit, Burned!Cardinality, Cardinality
    <3>3. Burned!Frame(b, text, inputs)[o] = (a + mark[o]) % 2
      BY <3>1, <3>2 DEF Burned!Frame, mark, a
    <3> QED BY <3>3 DEF b
  <2> QED BY <1>7, <2>10, <2>11 DEF words
<1> QED BY <1>8, <1>9

LEMMA NoOtherMessageShows ==
  ASSUME MadeInv, LabelsOfFirst, StrippedOnce, NEW inputs \in InputChoices,
         EvalWithPackmsg(inputs)
  PROVE  NoOtherMessage'
<1> DEFINE entry == published[packmsg.id]
           other == published[reads[1]]
           c == client.skcd
           lowBits == LowBits(ParallelEvaluate(client, Patched(entry, client, inputs), garblings),
                              garblings)
<1>0. PICK survives \in BOOLEAN :
        ClientAfter("EvaluateWithPackmsg", inputs,
                    EvaluateWithPackmsg(client, inputs, packmsg, garblings, survives))
  BY DEF EvalWithPackmsg
<1> DEFINE result == EvaluateWithPackmsg(client, inputs, packmsg, garblings, survives)
<1>1. /\ reads # <<>> /\ Len(inputs) = client.skcd.nbInputs /\ packmsg # NoPackmsg
      /\ published' = published
      /\ shown' = [id |-> packmsg.id, reads |-> reads, inputs |-> inputs,
                   outputs |-> result.outputs,
                   text |-> IF packmsg.id = 0 THEN "none" ELSE packmsg.text]
  BY <1>0 DEF EvalWithPackmsg, ClientAfter, server
<1>2. inputs \in Seq(Bit) BY PackmsgAssumption
<1>3. /\ packmsg.id \in DOMAIN published /\ packmsg.text \in Texts
      /\ IsStripped(entry.pgc) /\ OwnPacketOf(packmsg, entry, packmsg.text)
  BY <1>1 DEF MadeInv, PackmsgInv, OwnPacketOf
<1>4. packmsg.id # 0 BY <1>3, LenProperties DEF MadeInv, IInv, PublishedInv
<1>5. SUFFICES ASSUME Fits(entry), \A i \in DOMAIN reads : IsStripped(published[reads[i]].pgc),
                      NEW o \in DOMAIN result.outputs,
                      ~ (Reads(c.outputs[o]) \subseteq RandomInputs(c.config))
               PROVE  result.outputs[o] \in
                        {AnyBit, Burned!Frame(BurnedBy(entry), packmsg.text, inputs)[o]}
  <2>1. ASSUME \A i \in DOMAIN reads : IsStripped(published[reads[i]].pgc)
        PROVE  ShownSkcd' = c
    BY <1>1, <2>1 DEF LabelsOfFirst, ShownSkcd
  <2> HIDE DEF result
  <2> QED BY <1>1, <1>4, <2>1 DEF NoOtherMessage, NeedsPacket, Fits
<1>6. LabelsRead(client, other.pgc) /\ c = published[reads[Len(reads)]].pgc.skcd
  BY <1>1, <1>5 DEF LabelsOfFirst
<1>7. Mixed(entry, other, client, c, inputs)
  <2>1. /\ reads[1] \in DOMAIN published /\ IsStripped(other.pgc)
        /\ reads[Len(reads)] \in DOMAIN published /\ IsStripped(published[reads[Len(reads)]].pgc)
    BY <1>1, <1>5, ReadsArePublished DEF MadeInv
  <2>2. MadeEntry(entry) /\ MadeEntry(other) BY <1>3, <2>1, StrippedIsMade
  <2>3. entry.pgc.globalKey = other.pgc.globalKey =>
          entry.pgc.inputLabels = other.pgc.inputLabels
    BY <1>3, <2>1 DEF StrippedOnce
  <2>4. c \in Skcds
    <3>1. MadeEntry(published[reads[Len(reads)]]) BY <2>1, StrippedIsMade
    <3>2. published[reads[Len(reads)]].pgc.skcd \in Skcds BY <3>1, MadeFacts
    <3> QED BY <1>6, <3>2
  <2> QED BY <1>1, <1>2, <1>5, <1>6, <2>2, <2>3, <2>4 DEF Mixed
<1>8. result \in {Lost, Returned(ApplyXormask(packmsg.xormask, lowBits))}
  <2>1. packmsg.garbledValues = entry.prePackmsg.labels BY <1>3 DEF OwnPacketOf
  <2> QED BY <2>1 DEF EvaluateWithPackmsg, Patched
<1> HIDE DEF result
<1>9. result.outputs = ApplyXormask(packmsg.xormask, lowBits)
  <2>1. result # Lost
    <3> SUFFICES ASSUME result = Lost PROVE FALSE OBVIOUS
    <3>1. result.outputs = <<>> BY DEF Lost
    <3> QED BY <1>5, <3>1
  <2> QED BY <1>8, <2>1 DEF Returned
<1> DEFINE packet == packmsg
           text == packmsg.text
<1>10. o \in DOMAIN c.outputs
  <2>1. c \in Skcds BY <1>7 DEF Mixed
  <2> DEFINE n == Len(c.outputs)
             S == { lowBits[k] : k \in 1 .. n }
  <2>2. n \in Nat /\ DOMAIN c.outputs = 1 .. n BY <2>1, SkcdFacts
  <2>3. lowBits = [k \in DOMAIN c.outputs |-> lowBits[k]] BY DEF LowBits, ParallelEvaluate
  <2> HIDE DEF lowBits, n
  <2>4. lowBits \in [1 .. n -> S] BY <2>2, <2>3
  <2> HIDE DEF S
  <2>5. Len(lowBits) = n BY <2>2, <2>4, FunctionIsSeq
  <2>6. o \in 1 .. Len(lowBits) BY <1>5, <1>9 DEF ApplyXormask
  <2> QED BY <2>2, <2>5, <2>6
<1> HIDE DEF entry, other, c, lowBits, packet, text
<1>11. ApplyXormask(packet.xormask, lowBits)[o]
         \in {AnyBit, Burned!Frame(BurnedBy(entry), text, inputs)[o]}
  <2>1. text \in Texts /\ OwnPacketOf(packet, entry, text) BY <1>3 DEF packet, text
  <2> QED BY <1>5, <1>7, <1>10, <2>1, MixedPixel DEF lowBits
<1> QED BY <1>9, <1>11 DEF packet, text

LEMMA NoOtherMessageStays ==
  ASSUME MadeInv, LabelsOfFirst, StrippedOnce, NoOtherMessage, [Next]_vars
  PROVE  NoOtherMessage'
<1>1. CASE UNCHANGED vars
  <2>1. UNCHANGED <<published, last, shown>> BY <1>1 DEF vars, server
  <2> QED BY <2>1 DEF NoOtherMessage, NeedsPacket, ShownSkcd
<1>2. ASSUME NEW inputs \in InputChoices, EvalWithPackmsg(inputs)
      PROVE  NoOtherMessage'
  BY <1>2, NoOtherMessageShows
<1>3. CASE last'.call # "EvaluateWithPackmsg" BY <1>3 DEF NoOtherMessage
<1>4. ASSUME NEW inputs \in InputChoices, EvalWithInputs(inputs)
      PROVE  last'.call # "EvaluateWithPackmsg"
  BY <1>4 DEF EvalWithInputs, ClientAfter
<1> QED BY <1>1, <1>2, <1>3, <1>4, CallMade

(***************************************************************************)
(* NoOtherMessage, for any circuits, digits, texts, inputs, labels with a   *)
(* zero half and number of calls, in either build: with whatever packet of  *)
(* digits that fit and after whatever stripped circuits, with whatever      *)
(* digits, were read into the object, a pixel that needs the packet shows   *)
(* noise or what the packet's circuit and text have there.                  *)
(***************************************************************************)
THEOREM NoOtherMessageIsShown == Spec => []NoOtherMessage
<1> DEFINE Inv == MadeInv /\ LabelsOfFirst /\ StrippedOnce /\ NoOtherMessage
<1>1. Init => Inv
  <2> SUFFICES ASSUME Init PROVE LabelsOfFirst /\ StrippedOnce /\ NoOtherMessage
    BY InitMadeInv
  <2>1. published = <<>> /\ reads = <<>> /\ last.call = "main" BY DEF Init
  <2>2. DOMAIN published = {} BY <2>1
  <2> QED BY <2>1, <2>2 DEF LabelsOfFirst, StrippedOnce, NoOtherMessage
<1>2. Inv /\ [Next]_vars => Inv'
  BY MadeInductive, LabelsOfFirstStay, StrippedOnceStays, NoOtherMessageStays
<1>3. Inv => NoOtherMessage OBVIOUS
<1> HIDE DEF Inv
<1> QED BY <1>1, <1>2, <1>3, PTL DEF Spec

--------------------------------------------------------------------------------
(***************************************************************************)
(* TypeOK.  What MadeInv does not say of it: the configs, which a strip     *)
(* cuts down and a read adds to, the mask of a PrePackmsg whose circuit is  *)
(* gone, the key of an object with several reads, and the bounds.           *)
(***************************************************************************)
ServerTyped ==
  /\ garblings \in Seq([skcd : Skcds, lsbs : LsbChoices])
  /\ IsConfig(pgc.config) /\ IsConfig(prePackmsg.config)
  /\ prePackmsg.xormask \in Seq(Bit)
  /\ strippedWith \in DigitChoices \cup {<<>>}

PublishedTyped ==
  /\ Len(published) <= MaxPublished
  /\ \A id \in DOMAIN published : IsConfig(published[id].pgc.config)

ClientTyped ==
  /\ client.globalKey \in 0 .. Len(garblings) /\ client.skcd \in Skcds \cup {NoSkcd}
  /\ IsConfig(client.config) /\ Len(reads) <= MaxReads

OutcomeTyped == last.outcome \in {"ok", "throw", "lost"}

Typed == ServerTyped /\ PublishedTyped /\ ClientTyped /\ OutcomeTyped

LEMMA WordsAreTyped ==
  ASSUME NEW bits \in Seq(Bit)
  PROVE  pack_bits64(bits) \in Seq([0 .. WordBits - 1 -> Bit])
<1> DEFINE n == NbWords(Len(bits))
           W == [0 .. WordBits - 1 -> Bit]
           word(w) == [k \in 0 .. WordBits - 1 |->
                         LET i == WordBits * (w - 1) + k + 1
                         IN  IF i \in DOMAIN bits THEN bits[i] ELSE 0]
<1>1. n \in Nat
  <2>1. Len(bits) \in Nat /\ WordBits \in Nat \ {0} BY LenProperties, PackmsgBitsAssumption
  <2> QED BY <2>1 DEF NbWords
<1>2. \A i \in DOMAIN bits : bits[i] \in Bit BY LenProperties, ElementOfSeq
<1>3. 0 \in Bit BY DEF Bit
<1>4. \A w : word(w) \in W BY <1>2, <1>3
<1>5. pack_bits64(bits) = [w \in 1 .. n |-> word(w)] BY DEF pack_bits64
<1> HIDE DEF n, W, word
<1>6. pack_bits64(bits) \in [1 .. n -> W] BY <1>4, <1>5
<1> QED BY <1>1, <1>6, FunctionIsSeq DEF W

LEMMA StripIsTyped ==
  ASSUME NEW p, DOMAIN p = PgcFields, IsConfig(p.config), NEW pre, IsConfig(pre.config),
         NEW digits, NEW lsbs, NEW switched, NEW ndebug, NEW readable, NEW result,
         result = StripCircuit(p, pre, digits, lsbs, switched, ndebug, readable)
  PROVE  IsConfig(result.pgc.config) /\ IsConfig(result.prePackmsg.config)
<1> DEFINE s == StripParallelGarbledCircuit(p, switched)
<1>1. CASE result.outcome # "ok" BY <1>1, StripOutcome
<1>2. CASE result.outcome = "ok"
  <2>1. s.config = p.config /\ DOMAIN s = PgcFields
    BY DEF StripParallelGarbledCircuit, PgcFields
  <2>2. /\ result.pgc = [s EXCEPT !.config = [key \in DOMAIN @ \cap {"WIDTH", "HEIGHT"} |-> @[key]]]
        /\ result.prePackmsg.config = p.config
    BY <1>2 DEF StripCircuit, WithoutChange
  <2> HIDE DEF s
  <2>3. result.pgc.config = [key \in DOMAIN p.config \cap {"WIDTH", "HEIGHT"} |-> p.config[key]]
    BY <2>1, <2>2 DEF PgcFields
  <2> QED BY <2>2, <2>3 DEF IsConfig
<1> QED BY <1>1, <1>2

(* The mask of a circuit that was garbled. *)
LEMMA StripMasks ==
  ASSUME NEW c \in Skcds, NEW g, NEW lsbs \in Seq(Bit), Len(lsbs) = Len(c.outputs),
         NEW pre, pre.xormask \in Seq(Bit), NEW digits, NEW switched, NEW ndebug, NEW readable,
         NEW result,
         result = StripCircuit(GarbleSkcdFromBuffer(c, g), pre, digits, lsbs, switched, ndebug,
                               readable)
  PROVE  result.prePackmsg.xormask \in Seq(Bit)
<1>1. CASE result.outcome # "ok" BY <1>1, StripOutcome
<1>2. CASE result.outcome = "ok"
  <2>1. result.prePackmsg.xormask = PrepareXormask(GarbleSkcdFromBuffer(c, g), lsbs)
    BY <1>2 DEF StripCircuit, WithoutChange
  <2> QED BY <2>1, XormaskIsLsbs
<1> QED BY <1>1, <1>2

LEMMA GarbledIsTyped ==
  ASSUME NEW c \in Skcds, NEW g
  PROVE  /\ DOMAIN GarbleSkcdFromBuffer(c, g) = PgcFields
         /\ IsConfig(GarbleSkcdFromBuffer(c, g).config)
  BY GarbledLabelsAssumption DEF GarbleSkcdFromBuffer, PgcFields, IsSkcd

LEMMA EmptyIsTyped ==
  /\ IsConfig(DefaultPgc.config) /\ IsConfig(DefaultPrePackmsg.config)
  /\ DefaultPrePackmsg.xormask \in Seq(Bit)
  BY DEF DefaultPgc, DefaultPrePackmsg, IsConfig, EmptyConfig

LEMMA GarblesTyped ==
  ASSUME ServerTyped, NEW skcd \in Skcds, NEW lsbs \in LsbChoices, Garbles(skcd, lsbs)
  PROVE  /\ garblings' \in Seq([skcd : Skcds, lsbs : LsbChoices])
         /\ Len(garblings') = Len(garblings) + 1 /\ Len(garblings) \in Nat
<1> DEFINE E == [skcd : Skcds, lsbs : LsbChoices]
           entry == [skcd |-> skcd, lsbs |-> lsbs]
<1>1. garblings \in Seq(E) /\ entry \in E /\ garblings' = Append(garblings, entry)
  BY DEF ServerTyped, Garbles
<1> HIDE DEF E, entry
<1>2. /\ garblings' \in Seq(E) /\ Len(garblings') = Len(garblings) + 1
      /\ Len(garblings) \in Nat
  BY <1>1, AppendProperties, LenProperties
<1> QED BY <1>2 DEF E

(* A call of the server. *)
LEMMA ServerIsTyped ==
  ASSUME Typed, NEW call, NEW digits \in DigitChoices \cup {<<>>}, NEW result,
         ServerAfter(call, digits, result), result.outcome \in {"ok", "throw", "lost"},
         garblings' \in Seq([skcd : Skcds, lsbs : LsbChoices]),
         Len(garblings) <= Len(garblings'), Len(garblings) \in Nat, Len(garblings') \in Nat,
         IsConfig(result.pgc.config), IsConfig(result.prePackmsg.config),
         result.prePackmsg.xormask \in Seq(Bit)
  PROVE  Typed'
<1>1. ServerTyped' BY EmptyIsTyped DEF Typed, ServerTyped, ServerAfter
<1>2. PublishedTyped' BY DEF Typed, PublishedTyped, ServerAfter
<1>3. ClientTyped' BY DEF Typed, ClientTyped, ServerAfter
<1>4. OutcomeTyped' BY DEF OutcomeTyped, ServerAfter, Called
<1> QED BY <1>1, <1>2, <1>3, <1>4 DEF Typed

LEMMA GarbleSkcdTyped ==
  ASSUME Typed, NEW skcd \in Skcds, NEW lsbs \in LsbChoices, GarbleSkcd(skcd, lsbs)
  PROVE  Typed'
<1> DEFINE p == GarbleSkcdFromBuffer(skcd, Len(garblings'))
           result == WithoutChange("ok", p, prePackmsg)
<1>1. Garbles(skcd, lsbs) /\ ServerAfter("GarbleSkcdFromBuffer", <<>>, result) BY DEF GarbleSkcd
<1>2. /\ garblings' \in Seq([skcd : Skcds, lsbs : LsbChoices])
      /\ Len(garblings') = Len(garblings) + 1 /\ Len(garblings) \in Nat
  BY <1>1, GarblesTyped DEF Typed
<1>3. IsConfig(p.config) BY GarbledIsTyped
<1> HIDE DEF p
<1>4. result.outcome = "ok" /\ result.pgc = p /\ result.prePackmsg = prePackmsg
  BY DEF WithoutChange
<1> HIDE DEF result
<1>5. /\ IsConfig(result.pgc.config) /\ IsConfig(result.prePackmsg.config)
      /\ result.prePackmsg.xormask \in Seq(Bit)
  BY <1>3, <1>4 DEF Typed, ServerTyped
<1>6. Len(garblings) <= Len(garblings') /\ Len(garblings') \in Nat BY <1>2
<1> QED BY <1>1, <1>2, <1>4, <1>5, <1>6, ServerIsTyped

LEMMA GarbleAndStripTyped ==
  ASSUME Typed, NEW skcd \in Skcds, NEW digits \in DigitChoices, NEW lsbs \in LsbChoices,
         GarbleAndStrip(skcd, digits, lsbs)
  PROVE  Typed'
<1> DEFINE g == Len(garblings')
           p == GarbleSkcdFromBuffer(skcd, g)
<1>1. PICK switched \in Switches(skcd.config) :
        ServerAfter("GarbleAndStrippedSkcdFromBuffer", digits,
                    GarbleAndStrippedSkcdFromBuffer(skcd, g, prePackmsg, digits, lsbs, switched))
  BY DEF GarbleAndStrip
<1>2. Garbles(skcd, lsbs) BY DEF GarbleAndStrip
<1>3. /\ garblings' \in Seq([skcd : Skcds, lsbs : LsbChoices])
      /\ Len(garblings') = Len(garblings) + 1 /\ Len(garblings) \in Nat
  BY <1>2, GarblesTyped DEF Typed
<1>4. lsbs \in Seq(Bit) /\ Len(lsbs) = Len(skcd.outputs)
  BY <1>2, PackmsgAssumption DEF Garbles
<1> HIDE DEF g
<1> DEFINE result == GarbleAndStrippedSkcdFromBuffer(skcd, g, prePackmsg, digits, lsbs, switched)
<1>5. /\ result.outcome \in {"ok", "throw", "lost"}
      /\ result.outcome # "ok" => result.pgc = p /\ result.prePackmsg = prePackmsg
      /\ result.outcome = "ok" =>
           \E ndebug, readable \in BOOLEAN :
             result = StripCircuit(p, prePackmsg, digits, lsbs, switched, ndebug, readable)
  BY GarbleAndStripOutcome
<1>6. DOMAIN p = PgcFields /\ IsConfig(p.config) BY GarbledIsTyped
<1> HIDE DEF result
<1>7. /\ IsConfig(result.pgc.config) /\ IsConfig(result.prePackmsg.config)
      /\ result.prePackmsg.xormask \in Seq(Bit)
  <2>1. IsConfig(prePackmsg.config) /\ prePackmsg.xormask \in Seq(Bit)
    BY DEF Typed, ServerTyped
  <2>2. CASE result.outcome # "ok" BY <1>5, <1>6, <2>1, <2>2
  <2>3. CASE result.outcome = "ok"
    <3>1. PICK ndebug \in BOOLEAN, readable \in BOOLEAN :
            result = StripCircuit(p, prePackmsg, digits, lsbs, switched, ndebug, readable)
      BY <1>5, <2>3
    <3>2. result.prePackmsg.xormask \in Seq(Bit) BY <1>4, <2>1, <3>1, StripMasks
    <3> HIDE DEF p
    <3>3. IsConfig(result.pgc.config) /\ IsConfig(result.prePackmsg.config)
      BY <1>6, <2>1, <3>1, StripIsTyped
    <3> QED BY <3>2, <3>3
  <2> QED BY <2>2, <2>3
<1>8. ServerAfter("GarbleAndStrippedSkcdFromBuffer", digits, result) BY <1>1 DEF result
<1>9. Len(garblings) <= Len(garblings') /\ Len(garblings') \in Nat BY <1>3
<1> QED BY <1>3, <1>5, <1>7, <1>8, <1>9, ServerIsTyped

LEMMA StripTyped ==
  ASSUME MadeInv, Typed, NEW digits \in DigitChoices, NEW ndebug \in BOOLEAN,
         NEW readable \in BOOLEAN, Strip(digits, ndebug, readable)
  PROVE  Typed'
<1> DEFINE g == pgc.globalKey
           lsbs == garblings[g].lsbs
<1>1. PICK switched \in Switches(pgc.config) :
        ServerAfter("StripCircuit", digits,
                    StripCircuit(pgc, prePackmsg, digits, lsbs, switched, ndebug, readable))
  BY DEF Strip
<1>2. pgc # DefaultPgc /\ garblings' = garblings BY DEF Strip
<1> DEFINE result == StripCircuit(pgc, prePackmsg, digits, lsbs, switched, ndebug, readable)
<1>3. /\ result.outcome \in {"ok", "throw", "lost"}
      /\ result.outcome # "ok" => result.pgc = pgc /\ result.prePackmsg = prePackmsg
      /\ result.outcome = "ok" => "RNDSIZE" \in DOMAIN pgc.config
  BY StripOutcome
<1>4. IsConfig(pgc.config) /\ IsConfig(prePackmsg.config) /\ prePackmsg.xormask \in Seq(Bit)
  BY DEF Typed, ServerTyped
<1>5. DOMAIN pgc = PgcFields
  BY <1>2 DEF MadeInv, ServerMade, Made, MadeFrom, AsGarbled, GarbleSkcdFromBuffer, PgcFields
<1>6. result.prePackmsg.xormask \in Seq(Bit)
  <2>1. CASE result.outcome # "ok" BY <1>3, <1>4, <2>1
  <2>2. CASE result.outcome = "ok"
    <3> DEFINE c == garblings[g].skcd
    <3>1. AsGarbled(garblings, pgc)
      BY <1>2, <1>3, <2>2 DEF MadeInv, ServerMade, Made, MadeFrom
    <3>2. g \in DOMAIN garblings /\ pgc = GarbleSkcdFromBuffer(c, g) BY <3>1 DEF AsGarbled
    <3>3. c \in Skcds /\ lsbs \in Seq(Bit) /\ Len(lsbs) = Len(c.outputs)
      BY <3>2, GarblingIsTyped DEF MadeInv, IInv
    <3>4. result = StripCircuit(GarbleSkcdFromBuffer(c, g), prePackmsg, digits, lsbs,
                                switched, ndebug, readable)
      BY <3>2
    <3> HIDE DEF c, g, lsbs, result
    <3> QED BY <1>4, <3>3, <3>4, StripMasks
  <2> QED BY <2>1, <2>2
<1>7. IsConfig(result.pgc.config) /\ IsConfig(result.prePackmsg.config)
  <2> HIDE DEF lsbs
  <2> QED BY <1>4, <1>5, StripIsTyped
<1> HIDE DEF result
<1>8. ServerAfter("StripCircuit", digits, result) BY <1>1 DEF result
<1>9. /\ garblings' \in Seq([skcd : Skcds, lsbs : LsbChoices])
      /\ Len(garblings) <= Len(garblings') /\ Len(garblings) \in Nat /\ Len(garblings') \in Nat
  BY <1>2, LenProperties DEF Typed, ServerTyped
<1> QED BY <1>3, <1>6, <1>7, <1>8, <1>9, ServerIsTyped

LEMMA PublishTyped ==
  ASSUME MadeInv, Typed, Publish
  PROVE  Typed'
<1>1. /\ DOMAIN published' = DOMAIN published \cup {Len(published) + 1}
      /\ \A id \in DOMAIN published : published'[id] = published[id]
      /\ published'[Len(published) + 1] = NewEntry
  BY PublishAppends DEF MadeInv, IInv
<1>2. pgc # DefaultPgc /\ Len(published) < MaxPublished BY DEF Publish
<1>3. NewEntry.pgc.config = pgc.config
  <2>1. DOMAIN pgc = PgcFields
    BY <1>2 DEF MadeInv, ServerMade, Made, MadeFrom, AsGarbled, GarbleSkcdFromBuffer, PgcFields
  <2> QED BY <2>1 DEF NewEntry, WriteProtobuf, PgcFields
<1>4. Len(published') <= MaxPublished
  <2>1. PICK S : published \in Seq(S) BY DEF MadeInv, IInv, PublishedInv
  <2>2. PICK entry : published' = Append(published, entry) BY DEF Publish
  <2>3. published \in Seq(S \cup {entry}) BY <2>1, SeqMonotonic
  <2>4. Len(published') = Len(published) + 1 /\ Len(published) \in Nat
    BY <2>2, <2>3, AppendProperties, LenProperties
  <2> QED BY <1>2, <2>4, BoundsAssumption
<1>5. PublishedTyped' BY <1>1, <1>3, <1>4 DEF Typed, PublishedTyped, ServerTyped
<1>6. ServerTyped' /\ ClientTyped' BY DEF Publish, Typed, ServerTyped, ClientTyped
<1>7. OutcomeTyped' BY DEF Publish, OutcomeTyped, Called
<1> QED BY <1>5, <1>6, <1>7 DEF Typed

LEMMA ReadPgcTyped ==
  ASSUME MadeInv, Typed, NEW id \in DOMAIN published, ReadPgc(id)
  PROVE  Typed'
<1>1. /\ client' = ReadProtobuf(published[id].pgc, client) /\ reads' = Append(reads, id)
      /\ Len(reads) < MaxReads /\ UNCHANGED server
  BY DEF ReadPgc
<1> DEFINE p == published[id].pgc
<1>2. p.globalKey \in DOMAIN garblings /\ p.skcd \in Skcds
  <2>1. CASE WholeEntry(published[id]) BY <2>1 DEF WholeEntry, AsGarbled
  <2>2. CASE MadeEntry(published[id]) BY <2>2, MadeFacts
  <2> QED BY <2>1, <2>2 DEF MadeInv, EntriesMade
<1>3. IsConfig(p.config) BY DEF Typed, PublishedTyped
<1>4. /\ client'.globalKey = p.globalKey /\ client'.skcd = p.skcd
      /\ client'.config = Inserted(client.config, p.config)
  BY <1>1 DEF ReadProtobuf
<1>5. IsConfig(client'.config) BY <1>3, <1>4 DEF Typed, ClientTyped, IsConfig, Inserted
<1>6. client'.globalKey \in 0 .. Len(garblings)
  BY <1>2, <1>4, LenProperties DEF Typed, ServerTyped
<1>7. Len(reads') <= MaxReads
  BY <1>1, AppendProperties, LenProperties, BoundsAssumption DEF MadeInv, ClientInv
<1>8. ClientTyped' BY <1>1, <1>2, <1>4, <1>5, <1>6, <1>7 DEF ClientTyped, server
<1>9. ServerTyped' /\ PublishedTyped' BY <1>1 DEF Typed, ServerTyped, PublishedTyped, server
<1>10. OutcomeTyped' BY DEF ReadPgc, OutcomeTyped, Called
<1> QED BY <1>8, <1>9, <1>10 DEF Typed

LEMMA EvalTyped ==
  ASSUME Typed, NEW call, NEW inputs, NEW result, ClientAfter(call, inputs, result),
         result.outcome \in {"ok", "lost"}
  PROVE  Typed'
<1>1. ServerTyped' /\ PublishedTyped'
  BY DEF ClientAfter, server, Typed, ServerTyped, PublishedTyped
<1>2. ClientTyped'
  <2>1. Len(garblings) \in Nat BY LenProperties DEF Typed, ServerTyped
  <2>2. (client' = DefaultPgc /\ reads' = <<>>) \/ UNCHANGED <<client, reads>> BY DEF ClientAfter
  <2>3. garblings' = garblings BY DEF ClientAfter, server
  <2>4. CASE client'= DefaultPgc /\ reads' = <<>>
    BY <2>1, <2>3, <2>4, EmptyIsTyped, BoundsAssumption DEF ClientTyped, DefaultPgc
  <2>5. CASE UNCHANGED <<client, reads>> BY <2>3, <2>5 DEF Typed, ClientTyped
  <2> QED BY <2>2, <2>4, <2>5
<1>3. OutcomeTyped' BY DEF OutcomeTyped, ClientAfter
<1> QED BY <1>1, <1>2, <1>3 DEF Typed

LEMMA TypedStays ==
  ASSUME MadeInv, Typed, [Next]_vars
  PROVE  Typed'
<1>1. ASSUME NEW skcd \in Skcds, NEW lsbs \in LsbChoices, GarbleSkcd(skcd, lsbs)
      PROVE  Typed'
  BY <1>1, GarbleSkcdTyped
<1>2. ASSUME NEW skcd \in Skcds, NEW digits \in DigitChoices, NEW lsbs \in LsbChoices,
             GarbleAndStrip(skcd, digits, lsbs)
      PROVE  Typed'
  BY <1>2, GarbleAndStripTyped
<1>3. ASSUME NEW digits \in DigitChoices, NEW ndebug \in BOOLEAN, NEW readable \in BOOLEAN,
             Strip(digits, ndebug, readable)
      PROVE  Typed'
  BY <1>3, StripTyped
<1>4. CASE Publish BY <1>4, PublishTyped
<1>5. ASSUME UNCHANGED server, UNCHANGED <<client, reads>>, OutcomeTyped' PROVE Typed'
  BY <1>5 DEF server, Typed, ServerTyped, PublishedTyped, ClientTyped
<1>6. ASSUME NEW id \in DOMAIN published, NEW text \in Texts, RequestPackmsg(id, text)
      PROVE  Typed'
  <2>1. OutcomeTyped' BY <1>6 DEF RequestPackmsg, Called, OutcomeTyped
  <2>2. UNCHANGED server /\ UNCHANGED <<client, reads>> BY <1>6 DEF RequestPackmsg, server
  <2> QED BY <1>5, <2>1, <2>2
<1>7. CASE NewClient
  <2>1. /\ client' = DefaultPgc /\ reads' = <<>>
        /\ UNCHANGED <<garblings, pgc, prePackmsg, strippedWith, published>> /\ OutcomeTyped'
    BY <1>7 DEF NewClient, server, Called, OutcomeTyped
  <2>2. Len(garblings) \in Nat BY LenProperties DEF Typed, ServerTyped
  <2>3. ClientTyped' BY <2>1, <2>2, EmptyIsTyped, BoundsAssumption DEF ClientTyped, DefaultPgc
  <2> QED BY <2>1, <2>3 DEF Typed, ServerTyped, PublishedTyped
<1>8. ASSUME NEW id \in DOMAIN published, ReadPgc(id)
      PROVE  Typed'
  BY <1>8, ReadPgcTyped
<1>9. CASE ReadDamagedPgc BY <1>5, <1>9 DEF ReadDamagedPgc, server, Called, OutcomeTyped
<1>10. ASSUME NEW inputs \in InputChoices, EvalWithInputs(inputs) \/ EvalWithPackmsg(inputs)
       PROVE  Typed'
  <2>1. \A build \in BOOLEAN :
          /\ EvaluateWithInputs(client, inputs, garblings, build).outcome \in {"ok", "lost"}
          /\ EvaluateWithPackmsg(client, inputs, packmsg, garblings, build).outcome
               \in {"ok", "lost"}
    BY DEF EvaluateWithInputs, MapOutputs, EvaluateWithPackmsg, Returned, Lost
  <2> QED BY <1>10, <2>1, EvalTyped DEF EvalWithInputs, EvalWithPackmsg
<1>11. CASE UNCHANGED vars BY <1>5, <1>11 DEF vars, server, Typed, OutcomeTyped
<1> QED
  BY <1>1, <1>2, <1>3, <1>4, <1>6, <1>7, <1>8, <1>9, <1>10, <1>11 DEF Next

LEMMA TypedIsTypeOK ==
  ASSUME MadeInv, Typed
  PROVE  TypeOK
<1> USE DEF Typed
<1>1. Len(garblings) \in Nat /\ DOMAIN garblings = 1 .. Len(garblings)
  BY LenProperties DEF ServerTyped
<1>2. pgc.globalKey \in 0 .. Len(garblings) /\ pgc.skcd \in Skcds \cup {NoSkcd}
  <2>1. CASE pgc = DefaultPgc BY <1>1, <2>1 DEF DefaultPgc
  <2>2. CASE AsGarbled(garblings, pgc)
    BY <1>1, <2>2, GarblingIsTyped DEF AsGarbled, GarbleSkcdFromBuffer, MadeInv, IInv
  <2>3. CASE Made(garblings, pgc, prePackmsg, strippedWith)
    BY <1>1, <2>3, GarblingIsTyped DEF Made, MadeFrom, MadeInv, IInv
  <2> QED BY <2>1, <2>2, <2>3 DEF MadeInv, ServerMade
<1>3. /\ packmsg.xormask \in Seq([0 .. WordBits - 1 -> Bit])
      /\ packmsg.id \in {0} \cup DOMAIN published
  <2>1. CASE packmsg = NoPackmsg BY <2>1 DEF NoPackmsg
  <2>2. CASE packmsg # NoPackmsg
    <3> DEFINE entry == published[packmsg.id]
               mark == Watermark[packmsg.text]
    <3>1. /\ packmsg.id \in DOMAIN published /\ packmsg.text \in Texts
          /\ IsStripped(entry.pgc)
          /\ packmsg.xormask = pack_bits64(XorBits(entry.prePackmsg.xormask, mark))
      BY <2>2 DEF MadeInv, PackmsgInv
    <3>2. MadeEntry(entry) BY <3>1, StrippedIsMade
    <3> DEFINE g == entry.pgc.globalKey
               c == entry.pgc.skcd
               lsbs == garblings[g].lsbs
    <3>3. /\ g \in DOMAIN garblings /\ garblings[g].skcd = c /\ c \in Skcds
          /\ MadeFrom(entry.pgc, entry.prePackmsg, entry.digits, c, g, lsbs)
      BY <3>2, MadeFacts
    <3>4. lsbs \in Seq(Bit) /\ Len(lsbs) = Len(c.outputs)
      BY <3>3, GarblingIsTyped DEF MadeInv, IInv
    <3>5. entry.prePackmsg.xormask = lsbs /\ IsDisplay(c.config) BY <3>3 DEF MadeFrom
    <3>6. mark \in Seq(Bit) /\ Len(mark) = Len(lsbs) BY <3>1, <3>3, <3>4, <3>5, PackmsgAssumption
    <3>7. packmsg.xormask = pack_bits64(XorBits(lsbs, mark)) BY <3>1, <3>5
    <3> HIDE DEF lsbs, mark
    <3>8. XorBits(lsbs, mark) \in Seq(Bit) BY <3>4, <3>6, MaskOfText
    <3>9. packmsg.xormask \in Seq([0 .. WordBits - 1 -> Bit]) BY <3>7, <3>8, WordsAreTyped
    <3> QED BY <3>1, <3>9
  <2> QED BY <2>1, <2>2
<1> QED BY <1>2, <1>3 DEF TypeOK, ServerTyped, PublishedTyped, ClientTyped, OutcomeTyped

(***************************************************************************)
(* TypeOK, for any circuits, digits, texts, inputs, size of words and       *)
(* bounds: the config of an object keeps its keys, whatever is stripped of  *)
(* it and read into it, and a mask has bits only.                           *)
(***************************************************************************)
THEOREM TypesOK == Spec => []TypeOK
<1> DEFINE Inv == MadeInv /\ Typed
<1>1. Init => Inv
  <2> SUFFICES ASSUME Init PROVE Typed BY InitMadeInv
  <2>1. ServerTyped BY EmptyIsTyped DEF Init, ServerTyped
  <2>2. PublishedTyped BY BoundsAssumption DEF Init, PublishedTyped
  <2>3. ClientTyped BY EmptyIsTyped, BoundsAssumption DEF Init, ClientTyped, DefaultPgc
  <2>4. OutcomeTyped BY DEF Init, OutcomeTyped
  <2> QED BY <2>1, <2>2, <2>3, <2>4 DEF Typed
<1>2. Inv /\ [Next]_vars => Inv' BY MadeInductive, TypedStays
<1>3. Inv => TypeOK BY TypedIsTypeOK
<1> HIDE DEF Inv
<1> QED BY <1>1, <1>2, <1>3, PTL DEF Spec

================================================================================
