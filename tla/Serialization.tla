----------------------------- MODULE Serialization -----------------------------
(***************************************************************************)
(* Circuits, prepackets and packets as Protobuf messages                    *)
(* (serialize_pgc/serialize.cpp, serialize_packmsg/serialize.cpp).          *)
(***************************************************************************)
EXTENDS GarbledLabels

(* WriteProtobuf: as many tables as the circuit counts gates that are not   *)
(* XOR; every other member as it is.                                        *)
WriteProtobuf(pgc) ==
  [pgc EXCEPT !.tables = SubSeq(pgc.tables, 1, NonXorCount(pgc.skcd))]

(* An entry whose key the config has already is not inserted. *)
Inserted(config, entries) ==
  [key \in DOMAIN config \cup DOMAIN entries |->
     IF key \in DOMAIN config THEN config[key] ELSE entries[key]]

(* Mutant: output labels, which a stripped circuit does not have, are not   *)
(* read.                                                                    *)
ReadStripped(message, pgc) ==
  [skcd         |-> message.skcd,
   globalKey    |-> message.globalKey,
   inputLabels  |-> pgc.inputLabels \o message.inputLabels,
   outputLabels |-> pgc.outputLabels,
   tables       |-> pgc.tables \o message.tables,
   config       |-> Inserted(pgc.config, message.config)]

(* ReadProtobuf into an object: counts, gates, outputs and key are assigned, *)
(* labels and tables are appended to what the object holds, and a config     *)
(* entry that is there already stays.                                        *)
ReadProtobuf(message, pgc) ==
  [skcd         |-> message.skcd,
   globalKey    |-> message.globalKey,
   inputLabels  |-> pgc.inputLabels \o message.inputLabels,
   outputLabels |-> pgc.outputLabels \o message.outputLabels,
   tables       |-> pgc.tables \o message.tables,
   config       |-> Inserted(pgc.config, message.config)]

--------------------------------------------------------------------------------
(* The messages of prepackets and packets hold all that these hold. *)
WriteProtobufPrePackmsg(prePackmsg) ==
  [labels  |-> prePackmsg.labels,
   xormask |-> prePackmsg.xormask,
   config  |-> prePackmsg.config]

ReadProtobufPrePackmsg(message) ==
  [labels  |-> message.labels,
   xormask |-> message.xormask,
   config  |-> message.config]

WriteProtobufPackmsg(packmsg) ==
  [garbledValues |-> packmsg.garbledValues, xormask |-> packmsg.xormask]

ReadProtobufPackmsg(message) ==
  [garbledValues |-> message.garbledValues, xormask |-> message.xormask]

================================================================================
