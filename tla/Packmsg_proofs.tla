----------------------------- MODULE Packmsg_proofs -----------------------------
(***************************************************************************)
(* For any circuits, digits, texts, size of words and number of calls:      *)
(*   - a mask that is packed into words is applied bit by bit,              *)
(*   - a call that throws leaves what it must,                              *)
(*   - a PrePackmsg and the stripped circuit next to it are of one strip    *)
(*     and share out its labels.                                            *)
(***************************************************************************)
EXTENDS Packmsg, SequenceTheorems, TLAPS

LEMMA FunctionIsSeq ==
  ASSUME NEW S, NEW n \in Nat, NEW f \in [1 .. n -> S]
  PROVE  f \in Seq(S) /\ Len(f) = n
<1>1. f \in Seq(S) BY SeqDef
<1>2. DOMAIN f = 1 .. Len(f) /\ Len(f) \in Nat BY <1>1, LenProperties
<1> QED BY <1>1, <1>2

--------------------------------------------------------------------------------
(* The pair of labels of i, in a vector of pairs. *)
LEMMA PairPlace ==
  ASSUME NEW i \in Nat, NEW b \in Bit
  PROVE  /\ 2 * i + b + 1 \in Nat
         /\ ((2 * i + b + 1) - 1) \div 2 = i
         /\ ((2 * i + b + 1) - 1) % 2 = b
  BY DEF Bit

LEMMA SegmentBit ==
  ASSUME NEW d \in 1 .. 10, NEW s \in 1 .. 7
  PROVE  kMapDigitTo7Segs[d][s] \in Bit
  BY DEF kMapDigitTo7Segs, Bit

(* The segments of digits 0 to 9, seven for each. *)
LEMMA SegmentsAreBits ==
  ASSUME NEW digits \in Seq(0 .. 9)
  PROVE  /\ DigitsTo7Segments(digits) \in Seq(Bit)
         /\ Len(DigitsTo7Segments(digits)) = 7 * Len(digits)
<1> DEFINE n == 7 * Len(digits)
<1>1. Len(digits) \in Nat /\ n \in Nat BY LenProperties
<1>2. ASSUME NEW i \in 1 .. n
      PROVE  DigitsTo7Segments(digits)[i] \in Bit
  <2>1. /\ 1 + ((i - 1) \div 7) \in 1 .. Len(digits)
        /\ 1 + ((i - 1) % 7) \in 1 .. 7
    BY <1>1
  <2>2. digits[1 + ((i - 1) \div 7)] + 1 \in 1 .. 10 BY <2>1, ElementOfSeq
  <2>3. DigitsTo7Segments(digits)[i]
          = kMapDigitTo7Segs[digits[1 + ((i - 1) \div 7)] + 1][1 + ((i - 1) % 7)]
    BY DEF DigitsTo7Segments
  <2> QED BY <2>1, <2>2, <2>3, SegmentBit
<1>3. DigitsTo7Segments(digits) \in [1 .. n -> Bit] BY <1>2 DEF DigitsTo7Segments
<1> QED BY <1>1, <1>3, FunctionIsSeq

(* The input bits of digits 0 to 9: as many as there are inputs, all bits,   *)
(* those of the segments first and 0 last.                                   *)
LEMMA InputBitsAreBits ==
  ASSUME NEW digits \in Seq(0 .. 9), NEW rndsize \in Nat
  PROVE  /\ InputBits(digits, rndsize) \in Seq(Bit)
         /\ Len(InputBits(digits, rndsize)) = 7 * Len(digits) + rndsize + 1
         /\ \A i \in 1 .. 7 * Len(digits) :
              InputBits(digits, rndsize)[i] = DigitsTo7Segments(digits)[i]
         /\ InputBits(digits, rndsize)[7 * Len(digits) + rndsize + 1] = 0
<1> DEFINE n == 7 * Len(digits)
           segments == DigitsTo7Segments(digits)
           zeros == Zeros(rndsize)
<1>1. n \in Nat BY LenProperties
<1>2. segments \in Seq(Bit) /\ Len(segments) = n BY SegmentsAreBits
<1>3. zeros \in Seq(Bit) /\ Len(zeros) = rndsize
  <2>1. zeros \in [1 .. rndsize -> Bit] BY DEF Zeros, Bit
  <2> QED BY <2>1, FunctionIsSeq
<1>4. <<0>> \in Seq(Bit) /\ Len(<<0>>) = 1 /\ <<0>>[1] = 0 BY DEF Bit
<1> HIDE DEF n, segments, zeros
<1>5. /\ segments \o zeros \in Seq(Bit) /\ Len(segments \o zeros) = n + rndsize
      /\ \A i \in 1 .. n : (segments \o zeros)[i] = segments[i]
  <2>1. /\ segments \o zeros \in Seq(Bit) /\ Len(segments \o zeros) = n + rndsize
        /\ \A i \in 1 .. n + rndsize :
             (segments \o zeros)[i] = IF i <= n THEN segments[i] ELSE zeros[i - n]
    BY <1>2, <1>3, ConcatProperties
  <2>2. \A i \in 1 .. n : i \in 1 .. n + rndsize /\ i <= n BY <1>1
  <2> QED BY <2>1, <2>2
<1> DEFINE both == segments \o zeros
<1> HIDE DEF both
<1>6. /\ both \o <<0>> \in Seq(Bit) /\ Len(both \o <<0>>) = n + rndsize + 1
      /\ \A i \in 1 .. n : (both \o <<0>>)[i] = both[i]
      /\ (both \o <<0>>)[n + rndsize + 1] = 0
  <2>1. /\ both \o <<0>> \in Seq(Bit) /\ Len(both \o <<0>>) = Len(both) + 1
        /\ \A i \in 1 .. Len(both) + 1 :
             (both \o <<0>>)[i] = IF i <= Len(both) THEN both[i] ELSE <<0>>[i - Len(both)]
    BY <1>4, <1>5, ConcatProperties DEF both
  <2>2. Len(both) = n + rndsize BY <1>5 DEF both
  <2>3. n + rndsize + 1 \in 1 .. n + rndsize + 1 /\ ~ (n + rndsize + 1 <= n + rndsize)
        /\ (n + rndsize + 1) - (n + rndsize) = 1
    BY <1>1
  <2>4. (both \o <<0>>)[n + rndsize + 1] = 0 BY <1>4, <2>1, <2>2, <2>3
  <2>5. \A i \in 1 .. n : i \in 1 .. n + rndsize + 1 /\ i <= n + rndsize BY <1>1
  <2>6. \A i \in 1 .. n : (both \o <<0>>)[i] = both[i] BY <2>1, <2>2, <2>5
  <2> QED BY <2>1, <2>2, <2>4, <2>6
<1>7. InputBits(digits, rndsize) = both \o <<0>> BY DEF InputBits, both, segments, zeros
<1> QED BY <1>5, <1>6, <1>7 DEF n, both, segments

--------------------------------------------------------------------------------
(* A stripped circuit with its PrePackmsg: Matches, of any garblings, and    *)
(* what it says of one input.                                                *)
LabelShared(inputLabels, label, g, i) ==
  LET kept == { LabelOf(inputLabels, i - 1, b) : b \in Bit }
      made == { Label(g, i - 1, b) : b \in Bit }
  IN  \/ kept = {Zero} /\ label \in made
      \/ label = Zero /\ kept = made

SharesOut(gs, p, pre, digits) ==
  /\ pre.xormask = gs[p.globalKey].lsbs
  /\ pre.config = p.skcd.config
  /\ digits # <<>> /\ FitsDisplay(p.skcd, digits) =>
       /\ DOMAIN pre.labels = 1 .. p.skcd.nbInputs
       /\ \A i \in 1 .. p.skcd.nbInputs :
            LabelShared(p.inputLabels, pre.labels[i], p.globalKey, i)

PgcFields == {"skcd", "globalKey", "inputLabels", "outputLabels", "tables", "config"}

AsStripped(gs, p, pre, digits) ==
  /\ DOMAIN p = PgcFields /\ p.outputLabels = <<>> /\ "RNDSIZE" \notin DOMAIN p.config
  /\ p.globalKey \in DOMAIN gs /\ SharesOut(gs, p, pre, digits)

(* The labels of a garbled circuit, pair by pair. *)
LEMMA GarbledInputLabels ==
  ASSUME NEW c, NEW g, c.nbInputs \in Nat, NEW i \in 0 .. c.nbInputs, NEW b \in Bit
  PROVE  LabelOf(GarbleSkcdFromBuffer(c, g).inputLabels, i, b) = Label(g, i, b)
<1>1. 2 * i + b + 1 \in 1 .. 2 * (c.nbInputs + 1) BY DEF Bit
<1> QED BY <1>1, PairPlace DEF GarbleSkcdFromBuffer, LabelOf

(* The labels of a stripped circuit: those of a random input, perhaps in the *)
(* other order, or zero.                                                     *)
LEMMA StrippedInputLabels ==
  ASSUME NEW c, NEW g, c.nbInputs \in Nat, NEW switched,
         switched \subseteq RandomInputs(c.config), NEW i \in 0 .. c.nbInputs - 1, NEW b \in Bit
  PROVE  LET p == GarbleSkcdFromBuffer(c, g)
         IN  LabelOf(StripParallelGarbledCircuit(p, switched).inputLabels, i, b)
               = IF i \in switched THEN Label(g, i, 1 - b)
                 ELSE IF i \in RandomInputs(c.config) THEN Label(g, i, b)
                 ELSE Zero
<1> DEFINE p == GarbleSkcdFromBuffer(c, g)
           l == 2 * i + b + 1
<1>1. l \in 1 .. 2 * (c.nbInputs + 1) BY DEF Bit
<1>2. p.skcd = c /\ p.config = c.config /\ DOMAIN p = PgcFields
      /\ DOMAIN p.inputLabels = 1 .. 2 * (c.nbInputs + 1)
  BY DEF GarbleSkcdFromBuffer, PgcFields
<1>3. /\ LabelOf(p.inputLabels, i, b) = Label(g, i, b)
      /\ LabelOf(p.inputLabels, i, 1 - b) = Label(g, i, 1 - b)
  BY GarbledInputLabels DEF Bit
<1> HIDE DEF p
<1>4. StripParallelGarbledCircuit(p, switched).inputLabels[l]
        = CASE i >= p.skcd.nbInputs -> LabelOf(p.inputLabels, i, b)
            [] i \in switched -> LabelOf(p.inputLabels, i, 1 - b)
            [] i \in RandomInputs(p.config) \ switched -> LabelOf(p.inputLabels, i, b)
            [] OTHER -> Zero
  <2>1. (l - 1) \div 2 = i /\ (l - 1) % 2 = b BY PairPlace
  <2> HIDE DEF l
  <2> QED BY <1>1, <1>2, <2>1 DEF StripParallelGarbledCircuit, PgcFields
<1>5. LabelOf(StripParallelGarbledCircuit(p, switched).inputLabels, i, b)
        = StripParallelGarbledCircuit(p, switched).inputLabels[l]
  BY DEF LabelOf
<1>6. ~ (i >= p.skcd.nbInputs) BY <1>2
<1>7. CASE i \in switched BY <1>2, <1>3, <1>4, <1>5, <1>6, <1>7 DEF p
<1>8. CASE i \notin switched BY <1>2, <1>3, <1>4, <1>5, <1>6, <1>8 DEF p
<1> QED BY <1>7, <1>8

(* Those of the wire after the inputs stay. *)
LEMMA SpareLabels ==
  ASSUME NEW c, NEW g, c.nbInputs \in Nat, NEW switched,
         c.nbInputs \notin switched, NEW b \in Bit
  PROVE  LabelOf(StripParallelGarbledCircuit(GarbleSkcdFromBuffer(c, g), switched).inputLabels,
                 c.nbInputs, b) = Label(g, c.nbInputs, b)
<1> DEFINE p == GarbleSkcdFromBuffer(c, g)
           n == c.nbInputs
           l == 2 * n + b + 1
<1>1. l \in 1 .. 2 * (n + 1) BY DEF Bit
<1>2. p.skcd = c /\ DOMAIN p = PgcFields /\ DOMAIN p.inputLabels = 1 .. 2 * (n + 1)
  BY DEF GarbleSkcdFromBuffer, PgcFields
<1>3. LabelOf(p.inputLabels, n, b) = Label(g, n, b) BY GarbledInputLabels
<1> HIDE DEF p
<1>4. (l - 1) \div 2 = n /\ (l - 1) % 2 = b BY PairPlace
<1> HIDE DEF l
<1>5. StripParallelGarbledCircuit(p, switched).inputLabels[l] = LabelOf(p.inputLabels, n, b)
  <2>1. StripParallelGarbledCircuit(p, switched).inputLabels[l]
          = CASE n >= p.skcd.nbInputs -> LabelOf(p.inputLabels, n, b)
              [] n \in switched -> LabelOf(p.inputLabels, n, 1 - b)
              [] n \in RandomInputs(p.config) \ switched -> LabelOf(p.inputLabels, n, b)
              [] OTHER -> Zero
    <3> HIDE DEF n
    <3> QED BY <1>1, <1>2, <1>4 DEF StripParallelGarbledCircuit, PgcFields
  <2>2. n >= p.skcd.nbInputs BY <1>2
  <2>3. n \notin switched OBVIOUS
  <2> HIDE DEF n
  <2> QED BY <2>1, <2>2, <2>3
<1>6. LabelOf(StripParallelGarbledCircuit(p, switched).inputLabels, n, b)
        = StripParallelGarbledCircuit(p, switched).inputLabels[l]
  BY DEF LabelOf, l
<1> QED BY <1>3, <1>5, <1>6 DEF p, n

(* The mask of a garbled circuit are the lowest bits of its labels for 0. *)
LEMMA XormaskIsLsbs ==
  ASSUME NEW c, NEW g, NEW lsbs \in Seq(Bit), Len(lsbs) = Len(c.outputs)
  PROVE  PrepareXormask(GarbleSkcdFromBuffer(c, g), lsbs) = lsbs
<1>1. /\ Len(lsbs) \in Nat /\ lsbs = [o \in 1 .. Len(lsbs) |-> lsbs[o]]
      /\ \A o \in 1 .. Len(lsbs) : lsbs[o] \in Bit
  BY LenProperties
<1>2. ASSUME NEW o \in 1 .. Len(lsbs)
      PROVE  /\ GarbleSkcdFromBuffer(c, g).outputLabels[2 * o - 1].bit = 0
             /\ XorBit(0, lsbs[o]) = lsbs[o]
  <2>1. (2 * o - 1) - 1 = 2 * (o - 1) /\ (2 * (o - 1)) % 2 = 0 BY <1>1
  <2>2. 2 * o - 1 \in 1 .. 2 * Len(c.outputs) BY <1>1
  <2>3. GarbleSkcdFromBuffer(c, g).outputLabels[2 * o - 1].bit = ((2 * o - 1) - 1) % 2
    BY <2>2 DEF GarbleSkcdFromBuffer, Label
  <2>4. XorBit(0, lsbs[o]) = lsbs[o]
    <3>1. lsbs[o] \in {0, 1} BY <1>1 DEF Bit
    <3>2. CASE lsbs[o] = 0 BY <3>2 DEF XorBit, AnyBit
    <3>3. CASE lsbs[o] = 1 BY <3>3 DEF XorBit, AnyBit
    <3> QED BY <3>1, <3>2, <3>3
  <2> QED BY <2>1, <2>3, <2>4
<1>3. GarbleSkcdFromBuffer(c, g).skcd = c BY DEF GarbleSkcdFromBuffer
<1> QED BY <1>1, <1>2, <1>3 DEF PrepareXormask

(***************************************************************************)
(* The labels that PrepareInputLabels takes for digits that fit: none of a  *)
(* random input, one of every other.                                        *)
(***************************************************************************)
LEMMA PreparedLabels ==
  ASSUME NEW c \in Skcds, IsDisplay(c.config), NEW g, NEW digits \in Seq(0 .. 9),
         digits # <<>>, FitsDisplay(c, digits), NEW i \in 1 .. c.nbInputs
  PROVE  LET labels == PrepareInputLabels(GarbleSkcdFromBuffer(c, g), digits)
             bits == InputBits(digits, c.config["RNDSIZE"])
         IN  /\ DOMAIN labels = 1 .. c.nbInputs /\ bits[i] \in Bit
             /\ labels[i] = IF i - 1 \in RandomInputs(c.config) THEN Zero
                            ELSE Label(g, i - 1, bits[i])
<1> DEFINE p == GarbleSkcdFromBuffer(c, g)
           segments == c.config["BITMAP_NB_SEGMENTS"]
           rndsize == c.config["RNDSIZE"]
           bits == InputBits(digits, rndsize)
<1>1. /\ c.nbInputs \in Nat /\ segments \in Nat /\ rndsize \in Nat
      /\ c.nbInputs = segments + rndsize + 1
  BY GarbledLabelsAssumption DEF IsSkcd, IsConfig, IsDisplay, ConfigKeys
<1>2. p.config = c.config BY DEF GarbleSkcdFromBuffer
<1>3. 7 * Len(digits) = segments BY DEF FitsDisplay
<1>4. p.skcd = c BY DEF GarbleSkcdFromBuffer
<1>5. bits \in Seq(Bit) /\ Len(bits) = c.nbInputs
  BY <1>1, <1>3, InputBitsAreBits
<1> HIDE DEF bits
<1>6. bits[i] \in Bit BY <1>5, ElementOfSeq
<1>7. ExtractLabels(p, bits)[i] = Label(g, i - 1, bits[i])
  <2>1. ExtractLabels(p, bits)[i] = LabelOf(p.inputLabels, i - 1, bits[i])
    BY <1>5 DEF ExtractLabels
  <2>2. i - 1 \in 0 .. c.nbInputs BY <1>1
  <2> QED BY <1>1, <1>6, <2>1, <2>2, GarbledInputLabels
<1>8. ~ (i > p.skcd.nbInputs + 1) BY <1>1, <1>4
<1>9. i \in 7 * Len(digits) + 1 .. 7 * Len(digits) + rndsize
        <=> i - 1 \in RandomInputs(c.config)
  BY <1>1, <1>3, SMTT(30) DEF RandomInputs
<1>10. PrepareInputLabels(p, digits)[i]
         = IF i \in 7 * Len(digits) + 1 .. 7 * Len(digits) + rndsize
             THEN Zero
             ELSE ExtractLabels(p, bits)[i]
  BY <1>2, <1>5, <1>8 DEF PrepareInputLabels, bits
<1>11. DOMAIN PrepareInputLabels(p, digits) = 1 .. c.nbInputs
  BY <1>2, <1>5 DEF PrepareInputLabels, bits
<1> QED BY <1>6, <1>7, <1>9, <1>10, <1>11 DEF bits

(***************************************************************************)
(* StripCircuit of a circuit as it was garbled: what it leaves in the two   *)
(* objects, whichever digits and random inputs.                             *)
(***************************************************************************)
LEMMA StripSharesOut ==
  ASSUME NEW gs, NEW g \in DOMAIN gs, NEW c \in Skcds, gs[g].skcd = c,
         gs[g].lsbs \in Seq(Bit), Len(gs[g].lsbs) = Len(c.outputs),
         NEW pre, NEW digits \in Seq(Nat), NEW switched \in Switches(c.config),
         NEW ndebug \in BOOLEAN, NEW readable \in BOOLEAN, NEW result,
         result = StripCircuit(GarbleSkcdFromBuffer(c, g), pre, digits, gs[g].lsbs,
                               switched, ndebug, readable),
         result.outcome = "ok"
  PROVE  AsStripped(gs, result.pgc, result.prePackmsg, digits)
<1> DEFINE p == GarbleSkcdFromBuffer(c, g)
           s == StripParallelGarbledCircuit(p, switched)
<1>1. p.config = c.config /\ p.skcd = c /\ p.globalKey = g /\ DOMAIN p = PgcFields
  BY DEF GarbleSkcdFromBuffer, PgcFields
<1>2. ~ StripThrows(p, digits, ndebug) /\ ~ StripEnds(p, digits, ndebug, readable)
  BY DEF StripCircuit, WithoutChange
<1>3. IsDisplay(c.config)
  BY <1>1, <1>2, GarbledLabelsAssumption DEF IsSkcd, StripThrows, IsDisplay
<1>4. switched \subseteq RandomInputs(c.config) BY <1>3 DEF Switches
<1>5. c.nbInputs \in Nat BY GarbledLabelsAssumption DEF IsSkcd
<1>6. /\ result.prePackmsg = [labels  |-> PrepareInputLabels(p, digits),
                              xormask |-> PrepareXormask(p, gs[g].lsbs),
                              config  |-> p.config]
      /\ result.pgc = [s EXCEPT !.config = [key \in DOMAIN @ \cap {"WIDTH", "HEIGHT"} |-> @[key]]]
  BY <1>2 DEF StripCircuit
<1>7. /\ DOMAIN s = PgcFields /\ s.globalKey = g /\ s.skcd = c /\ s.outputLabels = <<>>
      /\ s.config = c.config
  <2> HIDE DEF p
  <2> QED BY <1>1 DEF StripParallelGarbledCircuit, PgcFields
<1>8. /\ DOMAIN result.pgc = PgcFields /\ result.pgc.globalKey = g
      /\ result.pgc.skcd = c /\ result.pgc.outputLabels = <<>>
      /\ result.pgc.inputLabels = s.inputLabels
      /\ "RNDSIZE" \notin DOMAIN result.pgc.config
  <2> HIDE DEF s
  <2> QED BY <1>6, <1>7 DEF PgcFields
<1>9. /\ result.prePackmsg.xormask = gs[g].lsbs
      /\ result.prePackmsg.config = c.config
      /\ result.prePackmsg.labels = PrepareInputLabels(p, digits)
  <2>1. PrepareXormask(p, gs[g].lsbs) = gs[g].lsbs BY XormaskIsLsbs
  <2> QED BY <1>1, <1>6, <2>1
<1>10. digits \in Seq(0 .. 9)
  <2>1. \A k \in DOMAIN digits : digits[k] <= 9
    BY <1>2 DEF StripThrows, StripEnds, StripAsserts
  <2>2. Len(digits) \in Nat /\ digits \in [1 .. Len(digits) -> Nat] BY LenProperties
  <2>3. ASSUME NEW k \in 1 .. Len(digits) PROVE digits[k] \in 0 .. 9
    <3>1. digits[k] \in Nat /\ digits[k] <= 9 BY <2>1, <2>2
    <3>2. \A n \in Nat : n <= 9 => n \in 0 .. 9 OBVIOUS
    <3> QED BY <3>1, <3>2, Zenon
  <2>4. digits \in [1 .. Len(digits) -> 0 .. 9] BY <2>2, <2>3
  <2> QED BY <2>2, <2>4, FunctionIsSeq
<1>11. ASSUME NEW i \in 1 .. c.nbInputs, digits # <<>>, FitsDisplay(c, digits)
       PROVE  /\ DOMAIN PrepareInputLabels(p, digits) = 1 .. c.nbInputs
              /\ LabelShared(s.inputLabels, PrepareInputLabels(p, digits)[i], g, i)
  <2> DEFINE kept == { LabelOf(s.inputLabels, i - 1, b) : b \in Bit }
             made == { Label(g, i - 1, b) : b \in Bit }
             label == PrepareInputLabels(p, digits)[i]
  <2> SUFFICES \/ kept = {Zero} /\ label \in made
               \/ label = Zero /\ kept = made
    <3>1. DOMAIN PrepareInputLabels(p, digits) = 1 .. c.nbInputs
      BY <1>3, <1>10, <1>11, PreparedLabels
    <3> HIDE DEF p, s
    <3> QED BY <3>1 DEF LabelShared
  <2>1. i - 1 \in 0 .. c.nbInputs - 1 BY <1>5
  <2>2. /\ LabelOf(s.inputLabels, i - 1, 0)
             = IF i - 1 \in switched THEN Label(g, i - 1, 1)
               ELSE IF i - 1 \in RandomInputs(c.config) THEN Label(g, i - 1, 0) ELSE Zero
        /\ LabelOf(s.inputLabels, i - 1, 1)
             = IF i - 1 \in switched THEN Label(g, i - 1, 0)
               ELSE IF i - 1 \in RandomInputs(c.config) THEN Label(g, i - 1, 1) ELSE Zero
    BY <1>4, <1>5, <2>1, StrippedInputLabels DEF Bit
  <2>3. IF i - 1 \in RandomInputs(c.config) THEN label = Zero ELSE label \in made
    BY <1>3, <1>10, <1>11, PreparedLabels
  <2>4. /\ kept = {LabelOf(s.inputLabels, i - 1, 0), LabelOf(s.inputLabels, i - 1, 1)}
        /\ made = {Label(g, i - 1, 0), Label(g, i - 1, 1)}
    BY DEF Bit
  <2> HIDE DEF kept, made, label
  <2>5. CASE i - 1 \in RandomInputs(c.config)
    <3>1. \/ /\ LabelOf(s.inputLabels, i - 1, 0) = Label(g, i - 1, 1)
             /\ LabelOf(s.inputLabels, i - 1, 1) = Label(g, i - 1, 0)
          \/ /\ LabelOf(s.inputLabels, i - 1, 0) = Label(g, i - 1, 0)
             /\ LabelOf(s.inputLabels, i - 1, 1) = Label(g, i - 1, 1)
      BY <2>2, <2>5
    <3>2. kept = made BY <3>1, <2>4
    <3> QED BY <2>3, <2>5, <3>2
  <2>6. CASE i - 1 \notin RandomInputs(c.config)
    <3>1. /\ LabelOf(s.inputLabels, i - 1, 0) = Zero
          /\ LabelOf(s.inputLabels, i - 1, 1) = Zero
      BY <1>4, <2>2, <2>6
    <3>2. kept = {Zero} BY <3>1, <2>4
    <3> QED BY <2>3, <2>6, <3>2
  <2> QED BY <2>5, <2>6
<1> HIDE DEF p, s
<1>12. 1 \in 1 .. c.nbInputs
  <2> DEFINE segments == c.config["BITMAP_NB_SEGMENTS"]
             rndsize == c.config["RNDSIZE"]
  <2>1. segments \in Nat /\ rndsize \in Nat /\ c.nbInputs = segments + rndsize + 1
    BY <1>3, GarbledLabelsAssumption DEF IsSkcd, IsConfig, IsDisplay, ConfigKeys
  <2> HIDE DEF segments, rndsize
  <2> QED BY <2>1
<1>13. SharesOut(gs, result.pgc, result.prePackmsg, digits)
  BY <1>8, <1>9, <1>11, <1>12 DEF SharesOut, FitsDisplay
<1> QED BY <1>8, <1>13 DEF AsStripped

(* What StripCircuit returns, ended or not. *)
LEMMA StripOutcome ==
  ASSUME NEW p, NEW pre, NEW digits, NEW lsbs, NEW switched, NEW ndebug, NEW readable, NEW result,
         result = StripCircuit(p, pre, digits, lsbs, switched, ndebug, readable)
  PROVE  /\ result.outcome \in {"ok", "throw", "lost"}
         /\ result.outcome # "ok" => result.pgc = p /\ result.prePackmsg = pre
         /\ result.outcome = "ok" => "RNDSIZE" \in DOMAIN p.config
  BY DEF StripCircuit, WithoutChange, StripThrows

(* GarbleAndStrippedSkcdFromBuffer throws, or strips what it has garbled. *)
LEMMA GarbleAndStripOutcome ==
  ASSUME NEW c, NEW g, NEW pre, NEW digits, NEW lsbs, NEW switched, NEW result,
         result = GarbleAndStrippedSkcdFromBuffer(c, g, pre, digits, lsbs, switched)
  PROVE  /\ result.outcome \in {"ok", "throw", "lost"}
         /\ result.outcome # "ok" =>
              result.pgc = GarbleSkcdFromBuffer(c, g) /\ result.prePackmsg = pre
         /\ result.outcome = "ok" =>
              \E ndebug, readable \in BOOLEAN :
                result = StripCircuit(GarbleSkcdFromBuffer(c, g), pre, digits, lsbs, switched,
                                      ndebug, readable)
<1> DEFINE p == GarbleSkcdFromBuffer(c, g)
<1>1. CASE AcceptsDigits(p, digits)
  <2>1. PICK ndebug \in BOOLEAN, readable \in BOOLEAN :
          result = StripCircuit(p, pre, digits, lsbs, switched, ndebug, readable)
    <3>1. result = StripCircuit(p, pre, digits, lsbs, switched, FALSE, FALSE)
      BY <1>1 DEF GarbleAndStrippedSkcdFromBuffer
    <3> WITNESS FALSE \in BOOLEAN, FALSE \in BOOLEAN
    <3> QED BY <3>1
  <2> HIDE DEF p
  <2> QED BY <2>1, StripOutcome DEF p
<1>2. CASE ~ AcceptsDigits(p, digits)
  <2>1. result = WithoutChange("throw", p, pre)
    BY <1>2 DEF GarbleAndStrippedSkcdFromBuffer
  <2> QED BY <2>1 DEF WithoutChange
<1> QED BY <1>1, <1>2

--------------------------------------------------------------------------------
(***************************************************************************)
(* A call that throws leaves what it must.  Of the server's calls only      *)
(* GarbleAndStrippedSkcdFromBuffer changes an object before it throws.      *)
(***************************************************************************)
LEMMA ThrowLeaves ==
  ASSUME Next, last'.outcome = "throw"
  PROVE  /\ UNCHANGED <<prePackmsg, published, client, packmsg>>
         /\ last'.call # "GarbleAndStrippedSkcdFromBuffer" => UNCHANGED <<garblings, pgc>>
<1>1. ASSUME NEW skcd \in Skcds, NEW lsbs \in LsbChoices, GarbleSkcd(skcd, lsbs)
      PROVE  FALSE
  BY <1>1 DEF GarbleSkcd, ServerAfter, WithoutChange, Called
<1>2. ASSUME NEW skcd \in Skcds, NEW digits \in DigitChoices, NEW lsbs \in LsbChoices,
             GarbleAndStrip(skcd, digits, lsbs)
      PROVE  /\ UNCHANGED <<prePackmsg, published, client, packmsg>>
             /\ last'.call = "GarbleAndStrippedSkcdFromBuffer"
  <2>1. PICK switched \in Switches(skcd.config) :
          ServerAfter("GarbleAndStrippedSkcdFromBuffer", digits,
                      GarbleAndStrippedSkcdFromBuffer(skcd, Len(garblings'), prePackmsg,
                                                      digits, lsbs, switched))
    BY <1>2 DEF GarbleAndStrip
  <2> DEFINE result == GarbleAndStrippedSkcdFromBuffer(skcd, Len(garblings'), prePackmsg,
                                                       digits, lsbs, switched)
  <2>2. result.outcome # "ok" => result.prePackmsg = prePackmsg
    BY GarbleAndStripOutcome
  <2> HIDE DEF result
  <2>3. ServerAfter("GarbleAndStrippedSkcdFromBuffer", digits, result) BY <2>1 DEF result
  <2>4. result.outcome = "throw" BY <2>3 DEF ServerAfter, Called
  <2> QED BY <2>2, <2>3, <2>4 DEF ServerAfter, Called
<1>3. ASSUME NEW digits \in DigitChoices, NEW ndebug \in BOOLEAN, NEW readable \in BOOLEAN,
             Strip(digits, ndebug, readable)
      PROVE  UNCHANGED <<garblings, pgc, prePackmsg, published, client, packmsg>>
  <2>1. PICK switched \in Switches(pgc.config) :
          ServerAfter("StripCircuit", digits,
                      StripCircuit(pgc, prePackmsg, digits, garblings[pgc.globalKey].lsbs,
                                   switched, ndebug, readable))
    BY <1>3 DEF Strip
  <2> DEFINE result == StripCircuit(pgc, prePackmsg, digits, garblings[pgc.globalKey].lsbs,
                                    switched, ndebug, readable)
  <2>2. result.outcome # "ok" => result.pgc = pgc /\ result.prePackmsg = prePackmsg
    BY StripOutcome
  <2> HIDE DEF result
  <2>3. ServerAfter("StripCircuit", digits, result) BY <2>1 DEF result
  <2>4. result.outcome = "throw" BY <2>3 DEF ServerAfter, Called
  <2> QED BY <1>3, <2>2, <2>3, <2>4 DEF ServerAfter, Called, Strip
<1>4. CASE Publish BY <1>4 DEF Publish, Called
<1>5. ASSUME NEW id \in DOMAIN published, NEW text \in Texts, RequestPackmsg(id, text)
      PROVE  UNCHANGED <<garblings, pgc, prePackmsg, published, client, packmsg>>
  BY <1>5 DEF RequestPackmsg, Called, server
<1>6. CASE NewClient BY <1>6 DEF NewClient, Called
<1>7. ASSUME NEW id \in DOMAIN published, ReadPgc(id)
      PROVE  FALSE
  BY <1>7 DEF ReadPgc, Called
<1>8. CASE ReadDamagedPgc BY <1>8 DEF ReadDamagedPgc, server
<1>9. ASSUME NEW inputs \in InputChoices, EvalWithInputs(inputs) \/ EvalWithPackmsg(inputs)
      PROVE  FALSE
  <2>1. /\ \A ndebug : EvaluateWithInputs(client, inputs, garblings, ndebug).outcome # "throw"
        /\ \A survives :
             EvaluateWithPackmsg(client, inputs, packmsg, garblings, survives).outcome # "throw"
    BY DEF EvaluateWithInputs, EvaluateWithPackmsg, MapOutputs, Returned, Lost
  <2> QED BY <1>9, <2>1 DEF EvalWithInputs, EvalWithPackmsg, ClientAfter
<1> QED BY <1>1, <1>2, <1>3, <1>4, <1>5, <1>6, <1>7, <1>8, <1>9 DEF Next

(* ThrowsLeaveObjects, for every circuit and every sequence of calls. *)
THEOREM ThrowsAlwaysLeaveObjects == Spec => ThrowsLeaveObjects
<1>1. [Next]_vars =>
        [last'.outcome = "throw" =>
           /\ UNCHANGED <<prePackmsg, published, client, packmsg>>
           /\ last'.call # "GarbleAndStrippedSkcdFromBuffer" =>
                UNCHANGED <<garblings, pgc>>]_vars
  BY ThrowLeaves
<1> QED BY <1>1, PTL DEF Spec, ThrowsLeaveObjects

--------------------------------------------------------------------------------
(***************************************************************************)
(* The invariant: the circuit of the server is empty, as Garble made it, or *)
(* stripped, and then is of one garbling with the PrePackmsg, and shares    *)
(* out its labels with it if the digits fit; so do the published pairs.     *)
(***************************************************************************)
GarblingsInv ==
  /\ garblings \in Seq([skcd : Skcds, lsbs : Seq(Bit)])
  /\ \A g \in DOMAIN garblings :
       Len(garblings[g].lsbs) = Len(garblings[g].skcd.outputs)

AsGarbled(gs, p) ==
  /\ p.globalKey \in DOMAIN gs
  /\ p = GarbleSkcdFromBuffer(gs[p.globalKey].skcd, p.globalKey)

ServerInv ==
  \/ pgc = DefaultPgc
  \/ AsGarbled(garblings, pgc)
  \/ AsStripped(garblings, pgc, prePackmsg, strippedWith)

PublishedInv ==
  /\ \E S : published \in Seq(S)
  /\ \A id \in DOMAIN published :
       IsStripped(published[id].pgc) =>
         AsStripped(garblings, published[id].pgc, published[id].prePackmsg,
                    published[id].digits)

IInv == GarblingsInv /\ ServerInv /\ PublishedInv

(* Garblings are only added. *)
Grown(before, after) ==
  DOMAIN before \subseteq DOMAIN after /\ \A g \in DOMAIN before : after[g] = before[g]

LEMMA GrownKeepsStripped ==
  ASSUME NEW before, NEW after, Grown(before, after), NEW p, NEW pre, NEW digits,
         AsStripped(before, p, pre, digits)
  PROVE  AsStripped(after, p, pre, digits)
  BY DEF Grown, AsStripped, SharesOut

LEMMA GarblesAppends ==
  ASSUME GarblingsInv, NEW skcd \in Skcds, NEW lsbs \in LsbChoices, Garbles(skcd, lsbs)
  PROVE  /\ GarblingsInv' /\ Grown(garblings, garblings')
         /\ Len(garblings') \in DOMAIN garblings'
         /\ garblings'[Len(garblings')] = [skcd |-> skcd, lsbs |-> lsbs]
<1> DEFINE entry == [skcd |-> skcd, lsbs |-> lsbs]
           E == [skcd : Skcds, lsbs : Seq(Bit)]
<1>1. entry \in E BY PackmsgAssumption
<1>2. garblings \in Seq(E) /\ garblings' = Append(garblings, entry)
  BY DEF GarblingsInv, Garbles
<1> HIDE DEF entry, E
<1>3. /\ garblings' \in Seq(E) /\ Len(garblings') = Len(garblings) + 1
      /\ Len(garblings) \in Nat
      /\ \A g \in 1 .. Len(garblings) : garblings'[g] = garblings[g]
      /\ garblings'[Len(garblings) + 1] = entry
  BY <1>1, <1>2, AppendProperties, LenProperties
<1>4. /\ DOMAIN garblings = 1 .. Len(garblings)
      /\ DOMAIN garblings' = 1 .. Len(garblings) + 1
  BY <1>2, <1>3, LenProperties
<1>5. Grown(garblings, garblings') BY <1>3, <1>4 DEF Grown
<1>6. ASSUME NEW g \in DOMAIN garblings'
      PROVE  Len(garblings'[g].lsbs) = Len(garblings'[g].skcd.outputs)
  <2>1. CASE g \in 1 .. Len(garblings) BY <1>3, <1>4, <2>1 DEF GarblingsInv
  <2>2. CASE g = Len(garblings) + 1 BY <1>3, <2>2 DEF entry, Garbles
  <2> QED BY <1>3, <1>4, <2>1, <2>2
<1>7. GarblingsInv' BY <1>3, <1>6 DEF GarblingsInv, E
<1> QED BY <1>3, <1>4, <1>5, <1>7 DEF entry

LEMMA GarblingIsTyped ==
  ASSUME GarblingsInv, NEW g \in DOMAIN garblings
  PROVE  /\ garblings[g].skcd \in Skcds /\ garblings[g].lsbs \in Seq(Bit)
         /\ Len(garblings[g].lsbs) = Len(garblings[g].skcd.outputs)
<1> DEFINE E == [skcd : Skcds, lsbs : Seq(Bit)]
<1>1. garblings \in Seq(E) BY DEF GarblingsInv
<1> HIDE DEF E
<1>2. garblings[g] \in E BY <1>1, LenProperties, ElementOfSeq
<1> QED BY <1>2 DEF E, GarblingsInv

(* A garbled circuit is no stripped one: it has outputs, and their labels. *)
LEMMA GarbledIsWhole ==
  ASSUME NEW c \in Skcds, NEW g
  PROVE  GarbleSkcdFromBuffer(c, g).outputLabels # <<>>
<1>1. Len(c.outputs) \in Nat \ {0} BY GarbledLabelsAssumption, EmptySeq DEF IsSkcd
<1>2. DOMAIN GarbleSkcdFromBuffer(c, g).outputLabels = 1 .. 2 * Len(c.outputs)
  BY DEF GarbleSkcdFromBuffer
<1>3. 1 \in 1 .. 2 * Len(c.outputs) BY <1>1
<1> QED BY <1>2, <1>3

LEMMA ServerIsStripped ==
  ASSUME GarblingsInv, ServerInv, IsStripped(pgc)
  PROVE  AsStripped(garblings, pgc, prePackmsg, strippedWith)
<1>1. pgc # DefaultPgc BY DEF IsStripped, DefaultPgc
<1>2. ~ AsGarbled(garblings, pgc)
  <2> SUFFICES ASSUME AsGarbled(garblings, pgc) PROVE FALSE OBVIOUS
  <2>1. garblings[pgc.globalKey].skcd \in Skcds
    BY GarblingIsTyped DEF AsGarbled
  <2>2. pgc.outputLabels # <<>> BY <2>1, GarbledIsWhole DEF AsGarbled
  <2> QED BY <2>2 DEF IsStripped
<1> QED BY <1>1, <1>2 DEF ServerInv

LEMMA GarbleSkcdKeeps ==
  ASSUME GarblingsInv, NEW skcd \in Skcds, NEW lsbs \in LsbChoices, GarbleSkcd(skcd, lsbs)
  PROVE  ServerInv'
<1>1. /\ Len(garblings') \in DOMAIN garblings'
      /\ garblings'[Len(garblings')].skcd = skcd
  <2>1. Garbles(skcd, lsbs) BY DEF GarbleSkcd
  <2>2. /\ Len(garblings') \in DOMAIN garblings'
        /\ garblings'[Len(garblings')] = [skcd |-> skcd, lsbs |-> lsbs]
    BY <2>1, GarblesAppends
  <2> QED BY <2>2
<1>2. pgc' = GarbleSkcdFromBuffer(skcd, Len(garblings'))
  BY DEF GarbleSkcd, ServerAfter, WithoutChange
<1>3. pgc'.globalKey = Len(garblings') BY <1>2 DEF GarbleSkcdFromBuffer
<1> QED BY <1>1, <1>2, <1>3 DEF ServerInv, AsGarbled

LEMMA GarbleAndStripKeeps ==
  ASSUME GarblingsInv, NEW skcd \in Skcds, NEW digits \in DigitChoices,
         NEW lsbs \in LsbChoices, GarbleAndStrip(skcd, digits, lsbs)
  PROVE  ServerInv'
<1> DEFINE g == Len(garblings')
<1>1. /\ g \in DOMAIN garblings' /\ garblings'[g].skcd = skcd /\ garblings'[g].lsbs = lsbs
      /\ lsbs \in Seq(Bit) /\ Len(lsbs) = Len(skcd.outputs) /\ digits \in Seq(Nat)
  BY GarblesAppends, PackmsgAssumption DEF GarbleAndStrip, Garbles
<1>2. PICK switched \in Switches(skcd.config) :
        ServerAfter("GarbleAndStrippedSkcdFromBuffer", digits,
                    GarbleAndStrippedSkcdFromBuffer(skcd, g, prePackmsg, digits, lsbs, switched))
  BY DEF GarbleAndStrip
<1> DEFINE result == GarbleAndStrippedSkcdFromBuffer(skcd, g, prePackmsg, digits, lsbs, switched)
<1>3. /\ result.outcome \in {"ok", "throw", "lost"}
      /\ result.outcome # "ok" => result.pgc = GarbleSkcdFromBuffer(skcd, g)
      /\ result.outcome = "ok" =>
           \E ndebug, readable \in BOOLEAN :
             result = StripCircuit(GarbleSkcdFromBuffer(skcd, g), prePackmsg, digits, lsbs,
                                   switched, ndebug, readable)
  BY GarbleAndStripOutcome
<1> HIDE DEF result
<1>4. ServerAfter("GarbleAndStrippedSkcdFromBuffer", digits, result) BY <1>2 DEF result
<1> HIDE DEF g
<1>5. CASE result.outcome = "ok"
  <2>1. AsStripped(garblings', result.pgc, result.prePackmsg, digits)
    BY <1>1, <1>3, <1>5, StripSharesOut
  <2> QED BY <1>4, <1>5, <2>1 DEF ServerAfter, ServerInv
<1>6. CASE result.outcome = "throw"
  <2>1. pgc' = GarbleSkcdFromBuffer(skcd, g) BY <1>3, <1>4, <1>6 DEF ServerAfter
  <2>2. pgc'.globalKey = g BY <2>1 DEF GarbleSkcdFromBuffer
  <2> QED BY <1>1, <2>1, <2>2 DEF ServerInv, AsGarbled
<1>7. CASE result.outcome = "lost" BY <1>4, <1>7 DEF ServerAfter, ServerInv
<1> QED BY <1>3, <1>5, <1>6, <1>7

LEMMA StripKeeps ==
  ASSUME GarblingsInv, ServerInv, NEW digits \in DigitChoices, NEW ndebug \in BOOLEAN,
         NEW readable \in BOOLEAN, Strip(digits, ndebug, readable)
  PROVE  ServerInv'
<1> DEFINE g == pgc.globalKey
<1>1. PICK switched \in Switches(pgc.config) :
        ServerAfter("StripCircuit", digits,
                    StripCircuit(pgc, prePackmsg, digits, garblings[g].lsbs, switched, ndebug,
                                 readable))
  BY DEF Strip
<1> DEFINE result == StripCircuit(pgc, prePackmsg, digits, garblings[g].lsbs, switched, ndebug,
                                  readable)
<1>2. /\ result.outcome \in {"ok", "throw", "lost"}
      /\ result.outcome # "ok" => result.pgc = pgc /\ result.prePackmsg = prePackmsg
      /\ result.outcome = "ok" => "RNDSIZE" \in DOMAIN pgc.config
  BY StripOutcome
<1>3. result = StripCircuit(pgc, prePackmsg, digits, garblings[g].lsbs, switched, ndebug,
                            readable)
  OBVIOUS
<1> HIDE DEF result
<1>4. ServerAfter("StripCircuit", digits, result) /\ garblings' = garblings
  BY <1>1 DEF result, Strip
<1>5. CASE result.outcome = "ok"
  <2>1. AsGarbled(garblings, pgc)
    BY <1>2, <1>5 DEF Strip, ServerInv, AsStripped
  <2>2. /\ g \in DOMAIN garblings /\ pgc = GarbleSkcdFromBuffer(garblings[g].skcd, g)
        /\ pgc.config = garblings[g].skcd.config
    BY <2>1 DEF AsGarbled, GarbleSkcdFromBuffer
  <2>3. /\ garblings[g].skcd \in Skcds /\ garblings[g].lsbs \in Seq(Bit)
        /\ Len(garblings[g].lsbs) = Len(garblings[g].skcd.outputs)
    BY <2>2, GarblingIsTyped
  <2>4. digits \in Seq(Nat) BY PackmsgAssumption
  <2>5. AsStripped(garblings, result.pgc, result.prePackmsg, digits)
    <3> HIDE DEF g
    <3> QED BY <1>3, <1>5, <2>2, <2>3, <2>4, StripSharesOut
  <2> QED BY <1>4, <1>5, <2>5 DEF ServerAfter, ServerInv
<1>6. CASE result.outcome = "throw" BY <1>2, <1>4, <1>6 DEF ServerAfter, ServerInv
<1>7. CASE result.outcome = "lost" BY <1>4, <1>7 DEF ServerAfter, ServerInv
<1> QED BY <1>2, <1>5, <1>6, <1>7

(* What Publish adds is the pair of the server, but for tables that the      *)
(* message does not hold.                                                    *)
LEMMA PublishKeeps ==
  ASSUME IInv, Publish
  PROVE  PublishedInv'
<1> DEFINE pre == WriteProtobufPrePackmsg(IF IsStripped(pgc) THEN prePackmsg
                                          ELSE DefaultPrePackmsg)
           entry == [pgc |-> WriteProtobuf(pgc), prePackmsg |-> pre,
                     digits |-> IF IsStripped(pgc) THEN strippedWith ELSE <<>>]
<1>1. published' = Append(published, entry) /\ garblings' = garblings /\ pgc # DefaultPgc
  BY DEF Publish
<1>2. ASSUME IsStripped(entry.pgc)
      PROVE  AsStripped(garblings, entry.pgc, entry.prePackmsg, entry.digits)
  <2>1. DOMAIN pgc = PgcFields
    BY <1>1 DEF IInv, ServerInv, AsGarbled, AsStripped, GarbleSkcdFromBuffer, PgcFields
  <2>2. /\ DOMAIN WriteProtobuf(pgc) = PgcFields
        /\ WriteProtobuf(pgc).skcd = pgc.skcd
        /\ WriteProtobuf(pgc).globalKey = pgc.globalKey
        /\ WriteProtobuf(pgc).inputLabels = pgc.inputLabels
        /\ WriteProtobuf(pgc).outputLabels = pgc.outputLabels
        /\ WriteProtobuf(pgc).config = pgc.config
    BY <2>1 DEF WriteProtobuf, PgcFields
  <2>3. IsStripped(pgc) BY <1>2, <2>2 DEF IsStripped
  <2>4. AsStripped(garblings, pgc, prePackmsg, strippedWith) BY <2>3, ServerIsStripped DEF IInv
  <2>5. /\ pre.labels = prePackmsg.labels /\ pre.xormask = prePackmsg.xormask
        /\ pre.config = prePackmsg.config
    BY <2>3 DEF WriteProtobufPrePackmsg
  <2> HIDE DEF pre
  <2>6. AsStripped(garblings, WriteProtobuf(pgc), pre, strippedWith)
    BY <2>2, <2>4, <2>5 DEF AsStripped, SharesOut
  <2> QED BY <2>3, <2>6
<1> HIDE DEF entry
<1>3. PICK S : published \in Seq(S) BY DEF IInv, PublishedInv
<1>4. published \in Seq(S \cup {entry}) BY <1>3, SeqMonotonic
<1>5. /\ published' \in Seq(S \cup {entry}) /\ Len(published') = Len(published) + 1
      /\ Len(published) \in Nat
      /\ \A id \in 1 .. Len(published) : published'[id] = published[id]
      /\ published'[Len(published) + 1] = entry
  BY <1>1, <1>4, AppendProperties, LenProperties
<1>6. /\ DOMAIN published = 1 .. Len(published)
      /\ DOMAIN published' = 1 .. Len(published) + 1
  BY <1>4, <1>5, LenProperties
<1>7. ASSUME NEW id \in DOMAIN published', IsStripped(published'[id].pgc)
      PROVE  AsStripped(garblings', published'[id].pgc, published'[id].prePackmsg,
                        published'[id].digits)
  <2>1. CASE id \in 1 .. Len(published)
    BY <1>1, <1>5, <1>6, <1>7, <2>1 DEF IInv, PublishedInv
  <2>2. CASE id = Len(published) + 1 BY <1>1, <1>2, <1>5, <1>7, <2>2
  <2> QED BY <1>5, <1>6, <2>1, <2>2
<1> QED BY <1>5, <1>7 DEF PublishedInv

(* Nothing else changes what was published, and garblings are only added. *)
LEMMA PublishedStays ==
  ASSUME PublishedInv, published' = published,
         garblings' = garblings \/ Grown(garblings, garblings')
  PROVE  PublishedInv'
<1>1. Grown(garblings, garblings') BY DEF Grown
<1> QED BY <1>1, GrownKeepsStripped DEF PublishedInv

LEMMA Inductive ==
  ASSUME IInv, [Next]_vars
  PROVE  IInv'
<1> USE DEF IInv
<1>1. ASSUME NEW skcd \in Skcds, NEW lsbs \in LsbChoices, GarbleSkcd(skcd, lsbs)
      PROVE  IInv'
  <2>1. Garbles(skcd, lsbs) /\ published' = published BY <1>1 DEF GarbleSkcd, ServerAfter
  <2>2. GarblingsInv' /\ Grown(garblings, garblings') BY <2>1, GarblesAppends
  <2>3. ServerInv' BY <1>1, GarbleSkcdKeeps
  <2> QED BY <2>1, <2>2, <2>3, PublishedStays
<1>2. ASSUME NEW skcd \in Skcds, NEW digits \in DigitChoices, NEW lsbs \in LsbChoices,
             GarbleAndStrip(skcd, digits, lsbs)
      PROVE  IInv'
  <2>1. Garbles(skcd, lsbs) /\ published' = published
    BY <1>2 DEF GarbleAndStrip, ServerAfter
  <2>2. GarblingsInv' /\ Grown(garblings, garblings') BY <2>1, GarblesAppends
  <2>3. ServerInv' BY <1>2, GarbleAndStripKeeps
  <2> QED BY <2>1, <2>2, <2>3, PublishedStays
<1>3. ASSUME NEW digits \in DigitChoices, NEW ndebug \in BOOLEAN, NEW readable \in BOOLEAN,
             Strip(digits, ndebug, readable)
      PROVE  IInv'
  <2>1. garblings' = garblings /\ published' = published BY <1>3 DEF Strip, ServerAfter
  <2>2. GarblingsInv' BY <2>1 DEF GarblingsInv
  <2>3. ServerInv' BY <1>3, StripKeeps
  <2> QED BY <2>1, <2>2, <2>3, PublishedStays
<1>4. CASE Publish
  <2>1. UNCHANGED <<garblings, pgc, prePackmsg, strippedWith>> BY <1>4 DEF Publish
  <2>2. GarblingsInv' /\ ServerInv' BY <2>1 DEF GarblingsInv, ServerInv
  <2> QED BY <1>4, <2>2, PublishKeeps
<1>5. CASE UNCHANGED server
  <2>1. UNCHANGED <<garblings, pgc, prePackmsg, strippedWith, published>> BY <1>5 DEF server
  <2>2. GarblingsInv' /\ ServerInv' BY <2>1 DEF GarblingsInv, ServerInv
  <2> QED BY <2>1, <2>2, PublishedStays
<1> QED BY <1>1, <1>2, <1>3, <1>4, <1>5
     DEF Next, vars, server, RequestPackmsg, NewClient, ReadPgc, ReadDamagedPgc,
         EvalWithInputs, EvalWithPackmsg, ClientAfter

LEMMA InitIInv ==
  ASSUME Init
  PROVE  IInv
<1>1. garblings = <<>> /\ published = <<>> /\ pgc = DefaultPgc BY DEF Init
<1>2. \E S : published \in Seq(S)
  <2> WITNESS {0}
  <2> QED BY <1>1
<1> QED BY <1>1, <1>2 DEF IInv, GarblingsInv, ServerInv, PublishedInv

(***************************************************************************)
(* PairMatches, for every circuit, digits and sequence of calls, in either  *)
(* build: a stripped circuit and the PrePackmsg next to it are of one       *)
(* strip of one garbling, at the server and where they are published, even  *)
(* after a call that threw halfway or a circuit that was stripped twice;    *)
(* and they share out the labels of it if the digits of the strip fit the   *)
(* display, which StripCircuit asserts and no more.                         *)
(***************************************************************************)
THEOREM PairAlwaysMatches == Spec => []PairMatches
<1>1. IInv /\ [Next]_vars => IInv' BY Inductive
<1>2. IInv => PairMatches
  <2> SUFFICES ASSUME IInv PROVE PairMatches OBVIOUS
  <2>1. ASSUME NEW p, NEW pre, NEW digits, AsStripped(garblings, p, pre, digits)
        PROVE  Matches(p, pre, digits)
    BY <2>1 DEF AsStripped, SharesOut, LabelShared, Matches
  <2>2. IsStripped(pgc) => Matches(pgc, prePackmsg, strippedWith)
    BY <2>1, ServerIsStripped DEF IInv
  <2>3. \A id \in DOMAIN published :
          IsStripped(published[id].pgc) =>
            Matches(published[id].pgc, published[id].prePackmsg, published[id].digits)
    BY <2>1 DEF IInv, PublishedInv
  <2> QED BY <2>2, <2>3 DEF PairMatches
<1> QED BY <1>1, <1>2, InitIInv, PTL DEF Spec

--------------------------------------------------------------------------------
LEMMA ProductMonotonic ==
  ASSUME NEW w \in Nat, NEW a \in Nat, NEW b \in Nat
  PROVE  w * a \in Nat /\ (a <= b => w * a <= w * b)
  OBVIOUS

(***************************************************************************)
(* Packing a mask into words loses no bit, whatever the size of a word and  *)
(* the number of bits: ApplyXormask XORs each output with its own bit.      *)
(***************************************************************************)
THEOREM PackedMaskIsApplied ==
  ASSUME NEW bits \in Seq(Bit), NEW lowBits, Len(lowBits) = Len(bits),
         NEW i \in 1 .. Len(bits)
  PROVE  ApplyXormask(pack_bits64(bits), lowBits)[i] = XorBit(lowBits[i], bits[i])
<1> USE PackmsgBitsAssumption
<1> DEFINE n == Len(bits)
           j == (i - 1) \div WordBits
           k == (i - 1) % WordBits
<1>1. n \in Nat /\ DOMAIN bits = 1 .. n BY LenProperties
<1>2. j \in Nat /\ k \in 0 .. WordBits - 1 /\ i - 1 = WordBits * j + k
  BY <1>1
<1>3. j < NbWords(n)
  <2> DEFINE q == (n + WordBits - 1) \div WordBits
             r == (n + WordBits - 1) % WordBits
  <2>1. q \in Nat /\ r \in 0 .. WordBits - 1 /\ n + WordBits - 1 = WordBits * q + r
    BY <1>1
  <2> HIDE DEF q, r
  <2> SUFFICES ASSUME q <= j PROVE FALSE
    BY <1>2, <2>1 DEF NbWords, q
  <2>2. WordBits * q <= WordBits * j BY <1>2, <2>1, ProductMonotonic
  <2>3. WordBits * q \in Nat /\ WordBits * j \in Nat BY <1>2, <2>1, ProductMonotonic
  <2> QED BY <1>1, <1>2, <2>1, <2>2, <2>3
<1> DEFINE words == pack_bits64(bits)
<1>4. words \in [1 .. NbWords(n) -> [0 .. WordBits - 1 -> Bit \cup {0}]]
  BY <1>1, ElementOfSeq DEF pack_bits64, Bit
<1>5. NbWords(n) \in Nat BY <1>1 DEF NbWords
<1>6. Len(words) = NbWords(n) BY <1>4, <1>5, FunctionIsSeq
<1> HIDE DEF j, k
<1>7. words[j + 1][k] = bits[i]
  <2>1. j + 1 \in 1 .. NbWords(n) BY <1>2, <1>3, <1>5
  <2>2. words[j + 1][k]
          = LET x == WordBits * ((j + 1) - 1) + k + 1 IN IF x \in 1 .. n THEN bits[x] ELSE 0
    BY <1>1, <1>2, <2>1 DEF pack_bits64
  <2>3. (j + 1) - 1 = j BY <1>2
  <2>4. WordBits * j + k + 1 = i BY <1>2, ProductMonotonic
  <2> QED BY <1>1, <2>2, <2>3, <2>4
<1> HIDE DEF words
<1>8. MaskBit(words, i - 1) = bits[i] BY <1>3, <1>6, <1>7 DEF MaskBit, j, k
<1> QED BY <1>1, <1>8 DEF ApplyXormask, words

================================================================================
