------------------------------- MODULE Commands -------------------------------
(***************************************************************************)
(* Packets and commands as bytes (src/src/serialization/).  Every packet   *)
(* that passes between the SDK and a hub is decoded and encoded again, so  *)
(* what the codec does to bytes it does to the SDK's traffic.              *)
(*                                                                         *)
(* A command is a layout, which fields it has and what get_bytes_len says  *)
(* of it, and the values of the fields.  Layouts are in tables by number,  *)
(* the number of a module's command being its packet id less the first of  *)
(* the module.                                                             *)
(***************************************************************************)
EXTENDS Integers, Sequences, SequencesExt

Byte == 0 .. 255
Word == 0 .. 65535

-----------------------------------------------------------------------------
(* Numbers.                                                                *)

ResponseBit == 32768

\* command_number.
CommandNumber(id) == id % ResponseBit

Signed8(b) == IF b < 128 THEN b ELSE b - 256

\* u16, i16 and i32 to_le_bytes, all by floor division.
Place == << 1, 256, 65536, 16777216 >>
ToLe(width, v) == [i \in 1 .. width |-> (v \div Place[i]) % 256]

FromLeU16(s) == s[1] + 256 * s[2]
FromLeI16(s) == s[1] + 256 * Signed8(s[2])
FromLeI32(s) == s[1] + 256 * s[2] + 65536 * s[3] + 16777216 * Signed8(s[4])

-----------------------------------------------------------------------------
(* Fields.  "counted" is a byte that counts the bytes after it, "all" is   *)
(* whatever there is; "coef" is an i32 of 1/65536ths, which the conversion *)
(* to f64 and back keeps (i32::MIN alone it cannot convert).               *)

Width == [u8 |-> 1, bool |-> 1, adcChannel |-> 1, adcMode |-> 1, runMode |-> 1,
          zeroPower |-> 1, speed |-> 1, u16 |-> 2, i16 |-> 2, i32 |-> 4, coef |-> 4]

\* Fields that must be of an enum: try_from, and a panic if it fails.
Enum == [adcChannel |-> 0 .. 14, adcMode |-> 0 .. 1, runMode |-> 0 .. 2, zeroPower |-> 0 .. 1]

\* Where the i-th field starts; only the last of a command is of no fixed width.
Start(fields, i) == 1 + FoldLeft(LAMBDA acc, k : acc + Width[k], 0, SubSeq(fields, 1, i - 1))

FieldFits(k, data, start) ==
  CASE k = "all"     -> TRUE
    [] k = "counted" -> start <= Len(data) /\ start + data[start] <= Len(data)
    [] OTHER         -> start + Width[k] - 1 <= Len(data)

FieldValue(k, data, start) ==
  CASE k = "all"             -> SubSeq(data, start, Len(data))
    [] k = "counted"         -> SubSeq(data, start + 1, start + data[start])
    [] k = "bool"            -> IF data[start] # 0 THEN 1 ELSE 0
    [] k = "speed"           -> IF data[start] \in 0 .. 3 THEN data[start] ELSE 255
    [] k = "u16"             -> FromLeU16(SubSeq(data, start, start + 1))
    [] k = "i16"             -> FromLeI16(SubSeq(data, start, start + 1))
    [] k \in {"i32", "coef"} -> FromLeI32(SubSeq(data, start, start + 3))
    [] OTHER                 -> data[start]

FieldBytes(k, v) ==
  CASE k = "all"     -> v
    [] k = "counted" -> << Len(v) % 256 >> \o v
    [] OTHER         -> ToLe(Width[k], v)

\* from_bytes of one command.  It panics for want of bytes or of an enum's value; bytes
\* that are left are not looked at.
Parses(fields, data) ==
  \A i \in DOMAIN fields :
    /\ FieldFits(fields[i], data, Start(fields, i))
    /\ fields[i] \in DOMAIN Enum => FieldValue(fields[i], data, Start(fields, i)) \in Enum[fields[i]]

Parse(fields, data) ==
  [i \in DOMAIN fields |-> FieldValue(fields[i], data, Start(fields, i))]

\* into of one command.
Unparse(fields, values) ==
  FlattenSeq([i \in DOMAIN fields |-> FieldBytes(fields[i], values[i])])

-----------------------------------------------------------------------------
(* Layouts: the fields of into and from_bytes, the length of get_bytes_len *)
(* (less what is counted).                                                 *)

Layout(fields, len) == [fields |-> fields, len |-> len]
Row(key, fields, len) == [key |-> key, layout |-> Layout(fields, len)]

Keys(table) == {row.key : row \in table}
LayoutIn(table, key) == (CHOOSE row \in table : row.key = key).layout

ACK            == 32513
NACK           == 32514
KeepAlive      == 32516
QueryInterface == 32519
QueryInterfaceResponse == QueryInterface + ResponseBit

AckLayouts  == {Row(ACK, << "bool" >>, 1)}
NackLayouts == {Row(NACK, << "u8" >>, 1)}

QueryLayouts ==
  { Row(KeepAlive, << >>, 0),
    Row(QueryInterface, << "all" >>, 0),
    Row(QueryInterfaceResponse, << "u16", "u16" >>, 4) }

StandardLayouts == AckLayouts \cup NackLayouts \cup QueryLayouts

IsStandard(key) == key \in Keys(StandardLayouts)
StandardLayout(key) == LayoutIn(StandardLayouts, key)

UnknownLayout == Layout(<< "all" >>, 0)

AdcLayouts ==
  { Row(7, << "adcChannel", "adcMode" >>, 2),
    Row(7 + ResponseBit, << "i16" >>, 2) }

\* Digital inputs, positions, status, velocities, analog inputs.
BulkLayouts ==
  { Row(0, << >>, 0),
    Row(ResponseBit, << "u8", "i32", "i32", "i32", "i32", "u8", "i16", "i16", "i16", "i16",
                        "i16", "i16", "i16", "i16" >>, 34) }

DriveLayouts ==
  { Row(15, << "u8", "i16" >>, 3),
    Row(33, << "u8", "u16" >>, 3),
    Row(10, << "u8", "bool" >>, 2) }

ChannelModeLayouts ==
  { Row(9, << "u8" >>, 1),
    Row(9 + ResponseBit, << "runMode", "zeroPower" >>, 2),
    Row(8, << "u8", "runMode", "zeroPower" >>, 3) }

I2cWriteLayouts ==
  { Row(38, << "u8", "u8", "counted" >>, 3),
    Row(37, << "u8", "u8", "u8" >>, 3) }

I2cReadLayouts ==
  { Row(41, << "u8" >>, 1),
    Row(52, << "u8", "u8", "u8", "u8" >>, 4),
    Row(41 + ResponseBit, << "u8", "counted" >>, 2) }

PidfLayouts == {Row(51, << "u8", "runMode", "coef", "coef", "coef", "coef", "u8" >>, 19)}

TargetLayouts ==
  { Row(17, << "u8", "i16" >>, 3),
    Row(19, << "u8", "i32", "u16" >>, 7) }

I2cStatusLayouts ==
  { Row(42, << "u8" >>, 1),
    Row(42 + ResponseBit, << "u8", "u8" >>, 2),
    Row(43, << "u8", "speed" >>, 2) }

\* LynxCommandData::to_command.
LynxLayouts ==
  AdcLayouts \cup BulkLayouts \cup DriveLayouts \cup ChannelModeLayouts \cup I2cWriteLayouts
    \cup I2cReadLayouts \cup PidfLayouts \cup TargetLayouts \cup I2cStatusLayouts

LynxLayout(key) ==
  IF key \in Keys(LynxLayouts) THEN LayoutIn(LynxLayouts, key) ELSE UnknownLayout

-----------------------------------------------------------------------------
(* Modules: [addr, first, count] as QueryInterfaceResponse gave them.      *)

\* The range is inclusive at both ends, and its end a u16.
IsModuleCommand(m, id) == id \in m.first .. (m.first + m.count) % 65536

IsModuleResponse(m, id) ==
  /\ ~ IsModuleCommand(m, id)
  /\ IsModuleCommand(m, CommandNumber(id))

\* Mutant: a response is looked up with the first module, whoever sent it.
OwnerFirst(hubs, p) ==
  IF hubs # << >> /\ (IsModuleCommand(hubs[1], p.id) \/ IsModuleResponse(hubs[1], p.id))
  THEN hubs[1].first ELSE -1

\* hubs: the modules of HUB_0 and HUB_1, as far as they are set, HUB_0 first.
Known(hubs, addr) == {i \in DOMAIN hubs : hubs[i].addr = addr}
ModuleAt(hubs, addr) ==
  hubs[CHOOSE i \in Known(hubs, addr) : \A j \in Known(hubs, addr) : i <= j]

\* A command to a module we know, or a response from one; the destination comes first.
Owner(hubs, p) ==
  CASE Known(hubs, p.dest) # {} /\ IsModuleCommand(ModuleAt(hubs, p.dest), p.id) ->
         ModuleAt(hubs, p.dest).first
    [] Known(hubs, p.dest) = {} /\ Known(hubs, p.src) # {}
         /\ IsModuleResponse(ModuleAt(hubs, p.src), p.id) -> ModuleAt(hubs, p.src).first
    [] OTHER -> -1

\* Ack, Nack and KeepAlive go by command number, the query and its response by id.
StandardKey(id) ==
  IF CommandNumber(id) \in {ACK, NACK, KeepAlive} THEN CommandNumber(id) ELSE id

\* Command::from_bytes, the choice of a command.
LayoutOf(hubs, p) ==
  LET first == Owner(hubs, p)
  IN CASE IsStandard(StandardKey(p.id))                  -> StandardLayout(StandardKey(p.id))
       [] ~ IsStandard(StandardKey(p.id)) /\ first # -1 -> LynxLayout(p.id - first)
       [] OTHER -> UnknownLayout

-----------------------------------------------------------------------------
(* Packets.                                                                *)

Overhead == 11

Checksum(bytes) == FoldLeft(LAMBDA acc, b : (acc + b) % 256, 0, bytes)

\* Command::get_bytes_len.
BytesLen(layout, values) ==
  layout.len + FoldLeft(LAMBDA acc, i : acc + (IF layout.fields[i] \in {"all", "counted"}
                                               THEN Len(values[i]) ELSE 0),
                        0, [i \in DOMAIN layout.fields |-> i])

\* into of Command.
Payload(p) ==
  IF BytesLen(p.layout, p.values) = 0 THEN << >> ELSE Unparse(p.layout.fields, p.values)

Header(p) ==
  << 68, 75 >> \o ToLe(2, p.len) \o << p.dest, p.src, p.msg, p.ref >> \o ToLe(2, p.id)

\* Packet::checksum.
PacketChecksum(p) == Checksum(Header(p) \o Payload(p))

\* Packet::encode (USB) puts the checksum the packet has, into (the serial line, and
\* Proxy::read) works it out anew.
Encode(p) == Header(p) \o Payload(p) \o << p.sum >>
IntoBytes(p) == Header(p) \o Payload(p) \o << PacketChecksum(p) >>

NewFull(layout, id, values, dest, src, ref, msg) ==
  LET p == [len |-> Overhead + BytesLen(layout, values), dest |-> dest, src |-> src,
            msg |-> msg, ref |-> ref, id |-> id, layout |-> layout, values |-> values, sum |-> 0]
  IN [p EXCEPT !.sum = PacketChecksum(p)]

\* Packet::from_data of a frame whose length and start bytes are right.  It gives no
\* packet if the checksum is wrong, and panics on a payload its command cannot have.
Valid(bytes) == Checksum(Front(bytes)) = Last(bytes)

Head10(bytes) == [dest |-> bytes[5], src |-> bytes[6], id |-> FromLeU16(SubSeq(bytes, 9, 10))]

PayloadOf(bytes) == SubSeq(bytes, 11, Len(bytes) - 1)

Decodes(hubs, bytes) == Parses(LayoutOf(hubs, Head10(bytes)).fields, PayloadOf(bytes))

FromData(hubs, bytes) ==
  LET head   == Head10(bytes)
      layout == LayoutOf(hubs, head)
  IN [len |-> FromLeU16(SubSeq(bytes, 3, 4)), dest |-> head.dest, src |-> head.src,
      msg |-> bytes[7], ref |-> bytes[8], id |-> head.id,
      layout |-> layout, values |-> Parse(layout.fields, PayloadOf(bytes)),
      sum |-> Last(bytes)]

\* Mutant: the checksum stays that of the number before.
RenumberStale(p, n) == [p EXCEPT !.msg = n, !.ref = n]

\* What the proxies do to a packet: other numbers, and the checksum that goes with them.
Renumber(p, n) ==
  LET q == [p EXCEPT !.msg = n, !.ref = n] IN [q EXCEPT !.sum = PacketChecksum(q)]

=============================================================================
