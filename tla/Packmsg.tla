-------------------------------- MODULE Packmsg --------------------------------
(***************************************************************************)
(* A display circuit on its way from the server that garbles and strips it  *)
(* to the client that shows a message with it (packmsg/prepackmsg.h:58).    *)
(*                                                                          *)
(* The server keeps one ParallelGarbledCircuit and one PrePackmsg, and      *)
(* publishes what they hold: the serialized circuit, for clients, and the   *)
(* serialized PrePackmsg, stored next to it.  The client keeps the circuits *)
(* it read and the packet it asked for last, in any order and repeatedly.   *)
(* A process that ends is started again with new objects.                   *)
(***************************************************************************)
EXTENDS StrippedCircuit, EvaluatePackmsg, Serialization

CONSTANTS
  DigitChoices,      \* digits passed to the server, valid or not
  LsbChoices,        \* lowest bits of the labels for 0 of the outputs
  Texts,             \* messages asked for
  Watermark,         \* the bits of the image of each text, Watermark module
  InputChoices,      \* input bits that clients pass
  MaxGarblings,      \* bounds of the instance: calls of Garble,
  MaxPublished,      \*   published circuits,
  MaxReads           \*   reads into one object of the client

ASSUME BoundsAssumption == {MaxGarblings, MaxPublished, MaxReads} \subseteq Nat

ASSUME PackmsgAssumption ==
  /\ \A digits \in DigitChoices : digits \in Seq(Nat)
  /\ \A lsbs \in LsbChoices : lsbs \in Seq(Bit)
  /\ \A inputs \in InputChoices : inputs \in Seq(Bit)
  /\ \A text \in Texts, c \in Skcds :
       /\ Watermark[text] \in Seq(Bit)
       /\ IsDisplay(c.config) => Len(Watermark[text]) = Len(c.outputs)

VARIABLES
  garblings,         \* the circuit and the lowest bits of every Garble so far
  pgc, prePackmsg,   \* the objects of the server
  strippedWith,      \* history: the digits of the strip that returned last
  published,         \* serialized circuits with their prepackets and digits
  client,            \* the ParallelGarbledCircuit of the client
  reads,             \* history: the published circuits read into it
  packmsg,           \* the packet of the client, with a history of its request
  last,              \* the call made last and its outcome
  shown              \* the evaluation made last, when it was the last call

server == <<garblings, pgc, prePackmsg, strippedWith, published>>

vars == <<server, client, reads, packmsg, last, shown>>

NoPackmsg == [garbledValues |-> <<>>, xormask |-> <<>>, id |-> 0]

NotShown == [id |-> 0]

Called(call, outcome) ==
  /\ last' = [call |-> call, outcome |-> outcome]
  /\ shown' = NotShown

Init ==
  /\ garblings = <<>>
  /\ pgc = DefaultPgc
  /\ prePackmsg = DefaultPrePackmsg
  /\ strippedWith = <<>>
  /\ published = <<>>
  /\ client = DefaultPgc
  /\ reads = <<>>
  /\ packmsg = NoPackmsg
  /\ last = [call |-> "main", outcome |-> "ok"]
  /\ shown = NotShown

--------------------------------------------------------------------------------
(* Garble of a circuit that was read from a file, with new random numbers. *)
Garbles(skcd, lsbs) ==
  /\ Len(garblings) < MaxGarblings
  /\ Len(lsbs) = Len(skcd.outputs)
  /\ garblings' = Append(garblings, [skcd |-> skcd, lsbs |-> lsbs])

(* The random inputs that Bernoulli draws to be swapped. *)
Switches(config) ==
  IF IsDisplay(config)
    THEN SUBSET RandomInputs(config)
    ELSE {{}}

(* The server after a call: a process that was lost is started again. *)
ServerAfter(call, digits, result) ==
  /\ IF result.outcome = "lost"
       THEN pgc' = DefaultPgc /\ prePackmsg' = DefaultPrePackmsg
       ELSE pgc' = result.pgc /\ prePackmsg' = result.prePackmsg
  /\ strippedWith' = CASE result.outcome = "ok"    -> digits
                       [] result.outcome = "throw" -> strippedWith
                       [] result.outcome = "lost"  -> <<>>
  /\ Called(call, result.outcome)
  /\ UNCHANGED <<published, client, reads, packmsg>>

GarbleSkcd(skcd, lsbs) ==
  /\ Garbles(skcd, lsbs)
  /\ ServerAfter("GarbleSkcdFromBuffer", <<>>,
                 WithoutChange("ok", GarbleSkcdFromBuffer(skcd, Len(garblings')), prePackmsg))

GarbleAndStrip(skcd, digits, lsbs) ==
  /\ Garbles(skcd, lsbs)
  /\ \E switched \in Switches(skcd.config) :
       ServerAfter("GarbleAndStrippedSkcdFromBuffer", digits,
                   GarbleAndStrippedSkcdFromBuffer(skcd, Len(garblings'), prePackmsg,
                                                   digits, lsbs, switched))

Strip(digits, ndebug, readable) ==
  /\ pgc # DefaultPgc
  /\ \E switched \in Switches(pgc.config) :
       ServerAfter("StripCircuit", digits,
                   StripCircuit(pgc, prePackmsg, digits, garblings[pgc.globalKey].lsbs,
                                switched, ndebug, readable))
  /\ UNCHANGED garblings

(* Serialize and, for a stripped circuit, SerializePrepackmsg. *)
Publish ==
  /\ pgc # DefaultPgc
  /\ Len(published) < MaxPublished
  /\ published' = Append(published,
       [pgc        |-> WriteProtobuf(pgc),
        prePackmsg |-> WriteProtobufPrePackmsg(IF IsStripped(pgc) THEN prePackmsg
                                               ELSE DefaultPrePackmsg),
        digits     |-> IF IsStripped(pgc) THEN strippedWith ELSE <<>>])
  /\ Called("Serialize", "ok")
  /\ UNCHANGED <<garblings, pgc, prePackmsg, strippedWith, client, reads, packmsg>>

--------------------------------------------------------------------------------
(* PackmsgFromPrepacket of a text; the config of a PrePackmsg has the size   *)
(* of the image, or at() throws.                                             *)
PackmsgFromPrepacket(prepacket, text) ==
  [garbledValues |-> prepacket.labels,
   xormask       |-> pack_bits64(XorBits(prepacket.xormask, Watermark[text]))]

(* The client asks for the packet of a circuit and a text and gets it. *)
RequestPackmsg(id, text) ==
  LET prepacket == ReadProtobufPrePackmsg(published[id].prePackmsg)
      read == ReadProtobufPackmsg(WriteProtobufPackmsg(PackmsgFromPrepacket(prepacket, text)))
      throws == ~ ({"WIDTH", "HEIGHT"} \subseteq DOMAIN prepacket.config)
  IN  /\ packmsg' = IF throws THEN packmsg
                    ELSE [garbledValues |-> read.garbledValues, xormask |-> read.xormask,
                          id |-> id, text |-> text]
      /\ Called("PackmsgFromPrepacket", IF throws THEN "throw" ELSE "ok")
      /\ UNCHANGED <<server, client, reads>>

(* A new object, in the place of the one the client had. *)
NewClient ==
  /\ client' = DefaultPgc
  /\ reads' = <<>>
  /\ Called("ParallelGarbledCircuit", "ok")
  /\ UNCHANGED <<server, packmsg>>

(* DeserializeFromBuffer, or DeserializeFromFile. *)
ReadPgc(id) ==
  /\ Len(reads) < MaxReads
  /\ client' = ReadProtobuf(published[id].pgc, client)
  /\ reads' = Append(reads, id)
  /\ Called("DeserializeFromBuffer", "ok")
  /\ UNCHANGED <<server, packmsg>>

(* A buffer that does not parse throws before it is read. *)
ReadDamagedPgc ==
  /\ Called("DeserializeFromBuffer", "throw")
  /\ UNCHANGED <<server, client, reads, packmsg>>

(* The client after an evaluation. *)
ClientAfter(call, inputs, result) ==
  /\ IF result.outcome = "lost"
       THEN client' = DefaultPgc /\ reads' = <<>> /\ packmsg' = NoPackmsg
       ELSE UNCHANGED <<client, reads, packmsg>>
  /\ last' = [call |-> call, outcome |-> result.outcome]
  /\ shown' = [id |-> packmsg.id, reads |-> reads, inputs |-> inputs, outputs |-> result.outputs,
               text |-> IF packmsg.id = 0 THEN "none" ELSE packmsg.text]
  /\ UNCHANGED server

EvalWithInputs(inputs) ==
  /\ reads # <<>> /\ Len(inputs) = client.skcd.nbInputs
  /\ \E ndebug \in BOOLEAN :
       ClientAfter("EvaluateWithInputs", inputs,
                   EvaluateWithInputs(client, inputs, garblings, ndebug))

EvalWithPackmsg(inputs) ==
  /\ reads # <<>> /\ Len(inputs) = client.skcd.nbInputs
  /\ packmsg # NoPackmsg
  /\ \E survives \in BOOLEAN :
       ClientAfter("EvaluateWithPackmsg", inputs,
                   EvaluateWithPackmsg(client, inputs, packmsg, garblings, survives))

Next ==
  \/ \E skcd \in Skcds, lsbs \in LsbChoices : GarbleSkcd(skcd, lsbs)
  \/ \E skcd \in Skcds, digits \in DigitChoices, lsbs \in LsbChoices :
       GarbleAndStrip(skcd, digits, lsbs)
  \/ \E digits \in DigitChoices, ndebug, readable \in BOOLEAN : Strip(digits, ndebug, readable)
  \/ Publish
  \/ \E id \in DOMAIN published, text \in Texts : RequestPackmsg(id, text)
  \/ NewClient
  \/ \E id \in DOMAIN published : ReadPgc(id)
  \/ ReadDamagedPgc
  \/ \E inputs \in InputChoices : EvalWithInputs(inputs) \/ EvalWithPackmsg(inputs)

Spec == Init /\ [][Next]_vars

--------------------------------------------------------------------------------
TypeOK ==
  /\ garblings \in Seq([skcd : Skcds, lsbs : LsbChoices])
  /\ strippedWith \in DigitChoices \cup {<<>>}
  /\ {pgc.globalKey, client.globalKey} \subseteq 0 .. Len(garblings)
  /\ {pgc.skcd, client.skcd} \subseteq Skcds \cup {NoSkcd}
  /\ \A config \in {pgc.config, client.config, prePackmsg.config} : IsConfig(config)
  /\ Len(published) <= MaxPublished /\ Len(reads) <= MaxReads
  /\ prePackmsg.xormask \in Seq(Bit) /\ packmsg.xormask \in Seq([0 .. WordBits - 1 -> Bit])
  /\ packmsg.id \in {0} \cup DOMAIN published
  /\ last.outcome \in {"ok", "throw", "lost"}

(* A stripped circuit and the PrePackmsg of the same strip are of one        *)
(* garbling, and with digits that fit they share out its labels: every input *)
(* has them in exactly one of the two.                                       *)
Matches(p, pre, digits) ==
  LET g == p.globalKey
      kept(i) == { LabelOf(p.inputLabels, i - 1, b) : b \in Bit }
      made(i) == { Label(g, i - 1, b) : b \in Bit }
  IN  /\ pre.xormask = garblings[g].lsbs
      /\ pre.config = p.skcd.config
      /\ digits # <<>> /\ FitsDisplay(p.skcd, digits) =>
           /\ DOMAIN pre.labels = 1 .. p.skcd.nbInputs
           /\ \A i \in 1 .. p.skcd.nbInputs :
                \/ kept(i) = {Zero} /\ pre.labels[i] \in made(i)
                \/ kept(i) = made(i) /\ pre.labels[i] = Zero

(* Whatever calls were made before, with whatever outcome, in whichever      *)
(* build: the PrePackmsg next to a stripped circuit is of the same strip, at *)
(* the server and where they are published, and is the one it can be shown   *)
(* with if the digits of that strip fit the display.  That they fit is       *)
(* asserted only (packmsg_utils.cpp:530); GarbleAndStrippedSkcdFromBuffer    *)
(* refuses other digits, StripCircuit without assertions does not.           *)
PairMatches ==
  /\ IsStripped(pgc) => Matches(pgc, prePackmsg, strippedWith)
  /\ \A id \in DOMAIN published :
       IsStripped(published[id].pgc) =>
         Matches(published[id].pgc, published[id].prePackmsg, published[id].digits)

(* A call that throws "fails gracefully": a PrePackmsg that was filled       *)
(* before stays, and StripCircuit and the client's calls leave everything.   *)
(* (tests/test_stripped.cpp:66: "everything else SHOULD NOT have been        *)
(* modified")                                                                *)
ThrowsLeaveObjects ==
  [][last'.outcome = "throw" =>
       /\ UNCHANGED <<prePackmsg, published, client, packmsg>>
       /\ last'.call # "GarbleAndStrippedSkcdFromBuffer" => UNCHANGED <<garblings, pgc>>]_vars

(* A circuit that was read into a new object as it was garbled, be it that   *)
(* it is no display or that its digits were refused, can be evaluated: every *)
(* output maps to a bit, the right one.                                      *)
WholeCircuitEvaluates ==
  \A id \in DOMAIN published :
    /\ last.call = "EvaluateWithInputs" /\ shown.reads = <<id>>
    /\ ~ IsStripped(published[id].pgc)
    => LET outputs == published[id].pgc.skcd.outputs
       IN  shown.outputs = [o \in DOMAIN outputs |-> OutputBit(outputs[o], shown.inputs)]

--------------------------------------------------------------------------------
(***************************************************************************)
(* As BurnedCircuit.  What is burned can be read off the labels that were   *)
(* published, if the digits of the strip fit; else nothing is.  The         *)
(* evaluations that show it are those of an object that only this circuit   *)
(* was read into, with its packet, when no label of the digits has a zero   *)
(* half.                                                                    *)
(***************************************************************************)
Fits(entry) == FitsDisplay(entry.pgc.skcd, entry.digits)

BurnedBy(entry) ==
  LET p == entry.pgc
      labels == entry.prePackmsg.labels
  IN  IF ~ IsStripped(p) \/ ~ Fits(entry)
        THEN [skcd |-> p.skcd, segments |-> <<>>, shuffle |-> {}]
        ELSE [skcd     |-> p.skcd,
              segments |-> IF labels = <<>> THEN <<>>
                          ELSE [i \in 1 .. p.skcd.config["BITMAP_NB_SEGMENTS"] |-> labels[i].bit],
              shuffle  |-> { i \in RandomInputs(p.skcd.config) :
                               LabelOf(p.inputLabels, i, 0).bit = 1 }]

ShownLabels == published[shown.id].prePackmsg.labels

ShowsMessage ==
  /\ last.call = "EvaluateWithPackmsg"
  /\ Fits(published[shown.id])
  /\ \A i \in DOMAIN shown.reads : shown.reads[i] = shown.id
  /\ \A i \in DOMAIN ShownLabels : ShownLabels[i] \notin HalfZeroLabels

burnedBar == [id \in DOMAIN published |-> BurnedBy(published[id])]

imageBar ==
  IF ShowsMessage /\ ShownLabels # <<>>
    THEN [id |-> shown.id, text |-> shown.text, inputs |-> shown.inputs, bits |-> shown.outputs]
    ELSE NotShown

Burned == INSTANCE BurnedCircuit WITH burned <- burnedBar, image <- imageBar

(* The result is that of a circuit with the digits and the message burned    *)
(* into it: every evaluation of a circuit that was stripped with digits that *)
(* fit, however late, repeated or after which others, shows these digits and *)
(* the text that was asked for, whatever the client passes for the inputs of *)
(* the digits.                                                               *)
ShowsBurnedCircuit == Burned!Spec

(* The circuit that is evaluated is the one that was read last.  A pixel that *)
(* random inputs alone make needs no label of the packet.                     *)
ShownSkcd == published[shown.reads[Len(shown.reads)]].pgc.skcd

NeedsPacket(o) == ~ (Reads(ShownSkcd.outputs[o]) \subseteq RandomInputs(ShownSkcd.config))

(* With another circuit's packet, or an object that several stripped         *)
(* circuits were read into, one after the other, an evaluation shows noise   *)
(* and no other message: a pixel whose labels belong together, with one of   *)
(* the packet, is as the packet's circuit has it.  The digits of the packet  *)
(* fit; those that the circuits were stripped with need not.                 *)
NoOtherMessage ==
  /\ last.call = "EvaluateWithPackmsg"
  /\ Fits(published[shown.id])
  /\ \A i \in DOMAIN shown.reads : IsStripped(published[shown.reads[i]].pgc)
  => \A o \in DOMAIN shown.outputs : NeedsPacket(o) =>
       shown.outputs[o] \in
         {AnyBit, Burned!Frame(BurnedBy(published[shown.id]), shown.text, shown.inputs)[o]}

(* packmsg/packmsg_utils.cpp:478, "Handle a \"no otp\" message": a circuit   *)
(* with no digits shows its message as well.                                 *)
NoOtpMessageShown ==
  ShowsMessage /\ ShownLabels = <<>> =>
    shown.outputs = Burned!Frame(BurnedBy(published[shown.id]), shown.text, shown.inputs)

================================================================================
