---------------------------- MODULE PacketCodec ----------------------------
(***************************************************************************)
(* pack and unpack of network.c: a packet is described by a list of        *)
(* MsgField and has two forms, the struct in memory, where every field has *)
(* its full size, and the wire, where an array or a string carries a count *)
(* and that many elements.  A field of type NESTED is an array whose       *)
(* element is a struct made of all the fields that follow it.              *)
(*                                                                         *)
(* One cell stands for one element (and for one count); memory is a        *)
(* function from positions to cells, zero before unpack (memzero).         *)
(*                                                                         *)
(* The loops of the code are functions on the number of rounds they have   *)
(* made.                                                                   *)
(***************************************************************************)
EXTENDS Naturals, Sequences

CONSTANTS
    Packets,   \* the packets: a format, and what it holds
    MaxBuffer, \* bound: units the out buffer may have left
    MaxExtra   \* bound: cells received behind the packet

VARIABLES
    format, value, structs, \* a packet and what its fields and its nested structs hold
    room,                   \* cells left in the out buffer
    packed,                 \* what pack has returned, {} before it was called
    received,               \* what is in the in buffer
    unpacked                \* what unpack has returned, {} before it was called

packet == <<format, value, structs>>

codec == <<packet, room, packed, received, unpacked>>

-----------------------------------------------------------------------------
(* Formats                                                                 *)

MsgField == [type : {"FIXED", "STRING", "ARRAY", "NESTED"}, param : Nat]

\* The place of the nested field, or the place behind the last field.
Nest(fields) ==
    CHOOSE i \in 1 .. Len(fields) + 1 :
        /\ i \in DOMAIN fields => fields[i].type = "NESTED"
        /\ \A j \in 1 .. i - 1 : fields[j].type # "NESTED"

IsNested(fields) == Nest(fields) \in DOMAIN fields

\* The fields of the packet itself, and those of a nested struct.
Plain(fields) == SubSeq(fields, 1, Nest(fields) - 1)
Nested(fields) == SubSeq(fields, Nest(fields) + 1, Len(fields))

\* What a field can hold: its elements.  The strings of the code end at the first 0.
Holds(f, x) ==
    /\ x \in Seq(Nat)
    /\ CASE f.type = "FIXED"  -> Len(x) = 1
         [] f.type = "STRING" -> Len(x) <= f.param /\ \A i \in DOMAIN x : x[i] # 0
         [] f.type = "ARRAY"  -> Len(x) <= f.param
         [] OTHER             -> FALSE

AllHold(fields, values) ==
    /\ values \in Seq(Seq(Nat)) /\ Len(values) = Len(fields)
    /\ \A i \in DOMAIN fields : Holds(fields[i], values[i])

\* A format has at most one nested field, with fields behind it: so do the
\* tables.
IsPacket(p) ==
    /\ p.format \in Seq(MsgField)
    /\ \A i \in DOMAIN p.format : p.format[i].type = "FIXED" \/ p.format[i].param > 0
    /\ AllHold(Plain(p.format), p.value)
    /\ p.structs \in Seq(Seq(Seq(Nat)))
    /\ IF IsNested(p.format)
       THEN /\ Len(p.structs) <= p.format[Nest(p.format)].param
            /\ Nested(p.format) # <<>>
            /\ \A i \in DOMAIN Nested(p.format) : Nested(p.format)[i].type # "NESTED"
            /\ \A j \in DOMAIN p.structs : AllHold(Nested(p.format), p.structs[j])
       ELSE p.structs = <<>>

ASSUME CodecAssumption ==
    /\ \A p \in Packets : IsPacket(p)
    /\ MaxBuffer \in Nat /\ MaxExtra \in Nat

-----------------------------------------------------------------------------
(* Reference: the two forms of a packet                                    *)

Zeros(n) == [i \in 1 .. n |-> 0]

\* The first i of some sequences, one behind the other.
Joined(seqs) ==
    LET first[i \in 0 .. Len(seqs)] == IF i = 0 THEN <<>> ELSE first[i - 1] \o seqs[i]
    IN  first

Join(seqs) == Joined(seqs)[Len(seqs)]

FieldSize(f) ==
    CASE f.type = "FIXED"  -> 1
      [] f.type = "STRING" -> f.param
      [] OTHER             -> 1 + f.param

\* A struct with nothing in it, as wide as its plain fields.
Blank(fields) == Join([i \in DOMAIN fields |-> Zeros(FieldSize(fields[i]))])

StructSize(fields) ==
    Len(Blank(Plain(fields)))
    + IF IsNested(fields)
      THEN 1 + fields[Nest(fields)].param * Len(Blank(Nested(fields)))
      ELSE 0

\* A field, and a struct without a nested one, in memory.
FieldLayout(f, x) ==
    CASE f.type = "FIXED"  -> x
      [] f.type = "STRING" -> x \o Zeros(f.param - Len(x))
      [] OTHER             -> <<Len(x)>> \o x \o Zeros(f.param - Len(x))

StructLayout(fields, values) ==
    Join([i \in DOMAIN fields |-> FieldLayout(fields[i], values[i])])

\* The same on the wire.
FieldWire(f, x) == IF f.type = "FIXED" THEN x ELSE <<Len(x)>> \o x

StructWire(fields, values) ==
    Join([i \in DOMAIN fields |-> FieldWire(fields[i], values[i])])

\* The packet in memory, and on the wire.
Layout(fields, values, nested) ==
    StructLayout(Plain(fields), values)
    \o IF IsNested(fields)
       THEN <<Len(nested)>>
            \o Join([j \in DOMAIN nested |-> StructLayout(Nested(fields), nested[j])])
            \o Zeros((fields[Nest(fields)].param - Len(nested)) * Len(Blank(Nested(fields))))
       ELSE <<>>

Wire(fields, values, nested) ==
    StructWire(Plain(fields), values)
    \o IF IsNested(fields)
       THEN <<Len(nested)>>
            \o Join([j \in DOMAIN nested |-> StructWire(Nested(fields), nested[j])])
       ELSE <<>>

-----------------------------------------------------------------------------
(* The code                                                                *)

Failed == [ok |-> FALSE]

\* What is behind the first n cells.
From(data, n) == SubSeq(data, n + 1, Len(data))

\* get_prefix_size: everything but a fixed field has a count.
PrefixSize(f) == IF f.type = "FIXED" THEN 0 ELSE 1

\* unicode16_len.
StringLength(s) ==
    IF \E i \in DOMAIN s : s[i] = 0
    THEN (CHOOSE i \in DOMAIN s : s[i] = 0 /\ \A j \in 1 .. i - 1 : s[j] # 0) - 1
    ELSE Len(s)

\* Elements to write for field f: a string is measured, an array or a nested
\* struct starts with its size.
PackedCount(f, data) ==
    CASE f.type = "FIXED"  -> 1
      [] f.type = "STRING" -> StringLength(SubSeq(data, 1, f.param))
      [] OTHER             -> data[1]

\* Mutant: the count is not counted.
FitsElements(f, count, space) == count <= space

\* The writable checks of pack.
Fits(f, count, space) == PrefixSize(f) + count <= space

\* field.size, which no table gives.
NestedSize == 0

\* The cells that hold the size of an array.
SizeCells(f) == IF f.type = "ARRAY" THEN 1 ELSE 0

\* Mutant: the string takes what the wire gave.
PackedStatic(f, count) == IF f.type = "FIXED" THEN 1 ELSE count

\* static_elem_count.
StaticCount(f, count) == IF f.type = "FIXED" THEN 1 ELSE f.param

\* A round of pack for a field that is not nested: done is what was read and written
\* before, or a failure.
PackField(data, space, f, done) ==
    LET at    == From(data, done.read)
        count == PackedCount(f, at)
        head  == IF PrefixSize(f) = 1 THEN <<count>> ELSE <<>>
    IN  IF ~done.ok \/ ~Fits(f, count, space - Len(done.wire)) THEN Failed
        ELSE [ok   |-> TRUE,
              read |-> done.read + SizeCells(f) + StaticCount(f, count),
              wire |-> done.wire \o head \o SubSeq(at, SizeCells(f) + 1, SizeCells(f) + count)]

PackStart == [ok |-> TRUE, read |-> 0, wire |-> <<>>]

\* The rounds of pack before a nested field.
PackLoop(data, space, fields) ==
    LET done[i \in 0 .. Len(fields)] ==
            IF i = 0 THEN PackStart
            ELSE PackField(data, space, fields[i], done[i - 1])
    IN  done

PackFields(data, space, fields) == PackLoop(data, space, fields)[Len(fields)]

\* A nested struct: pack calls itself for the fields behind.
PackStruct(data, space, fields, done) ==
    LET next == PackFields(From(data, done.read), space - Len(done.wire), fields)
    IN  IF ~done.ok \/ ~next.ok THEN Failed
        ELSE [ok |-> TRUE, read |-> done.read + NestedSize, wire |-> done.wire \o next.wire]

PackStructs(data, space, fields, count, start) ==
    LET done[j \in 0 .. count] ==
            IF j = 0 THEN start ELSE PackStruct(data, space, fields, done[j - 1])
    IN  done

\* pack: the cells written for the struct at the start of data into a buffer
\* with space cells, or a failure.
Pack(data, space, fields) ==
    LET done  == PackFields(data, space, Plain(fields))
        count == From(data, done.read)[1]
        start == [ok |-> TRUE, read |-> done.read + 1, wire |-> Append(done.wire, count)]
    IN  IF ~done.ok \/ ~IsNested(fields) THEN done
        ELSE IF space - Len(done.wire) < 1 THEN Failed
        ELSE PackStructs(data, space, Nested(fields), count, start)[count]

\* memcpy to position at + 1.
Put(mem, at, cells) ==
    [i \in DOMAIN mem \cup (at + 1 .. at + Len(cells)) |->
        IF i \in at + 1 .. at + Len(cells) THEN cells[i - at] ELSE mem[i]]

\* Mutant: the last element may be missing.
EnoughBut1(data, n) == Len(data) > n

\* The readable checks of unpack.
Enough(data, n) == Len(data) >= n

\* The size of an array, or the null behind a string, then the elements.
PutField(mem, at, f, elements) ==
    CASE f.type = "FIXED"  -> Put(mem, at, elements)
      [] f.type = "STRING" ->
           Put(Put(mem, at + (IF Len(elements) < f.param - 1 THEN Len(elements) ELSE f.param - 1),
                   <<0>>),
               at, elements)
      [] OTHER             -> Put(mem, at, <<Len(elements)>> \o elements)

\* A round of unpack for a field that is not nested.
UnpackField(data, f, done) ==
    LET at     == From(data, done.read)
        prefix == PrefixSize(f)
        count  == IF prefix = 1 THEN at[1] ELSE 1
    IN  IF ~done.ok \/ ~Enough(at, prefix) \/ ~Enough(at, prefix + count) THEN Failed
        ELSE [ok      |-> TRUE,
              read    |-> done.read + prefix + count,
              written |-> done.written + SizeCells(f) + StaticCount(f, count),
              mem     |-> PutField(done.mem, done.written, f,
                                   SubSeq(at, prefix + 1, prefix + count))]

UnpackStart(mem, at) == [ok |-> TRUE, read |-> 0, written |-> at, mem |-> mem]

\* The rounds of unpack before a nested field, for the struct at position at.
UnpackLoop(data, mem, at, fields) ==
    LET done[i \in 0 .. Len(fields)] ==
            IF i = 0 THEN UnpackStart(mem, at)
            ELSE UnpackField(data, fields[i], done[i - 1])
    IN  done

UnpackFields(data, mem, at, fields) == UnpackLoop(data, mem, at, fields)[Len(fields)]

\* A nested struct: written grows by what was read for it.
UnpackStruct(data, fields, done) ==
    LET next == UnpackFields(From(data, done.read), done.mem, done.written, fields)
    IN  IF ~done.ok \/ ~next.ok THEN Failed
        ELSE [ok      |-> TRUE,
              read    |-> done.read + next.read,
              written |-> done.written + next.read,
              mem     |-> next.mem]

UnpackStructs(data, fields, count, start) ==
    LET done[j \in 0 .. count] ==
            IF j = 0 THEN start ELSE UnpackStruct(data, fields, done[j - 1])
    IN  done

\* unpack into mem: the cells read and what is in memory then, or a failure.
Unpack(data, mem, fields) ==
    LET done  == UnpackFields(data, mem, 0, Plain(fields))
        at    == From(data, done.read)
        start == [ok      |-> TRUE,
                  read    |-> done.read + 1,
                  written |-> done.written + 1,
                  mem     |-> Put(done.mem, done.written, <<at[1]>>)]
    IN  IF ~done.ok \/ ~IsNested(fields) THEN done
        ELSE IF ~Enough(at, 1) THEN Failed
        ELSE UnpackStructs(data, Nested(fields), at[1], start)[at[1]]

-----------------------------------------------------------------------------
(* A packet is packed, its wire form arrives in pieces and is unpacked.    *)

CodecInit ==
    /\ \E p \in Packets : format = p.format /\ value = p.value /\ structs = p.structs
    /\ room = 0
    /\ packed = {} /\ received = <<>> /\ unpacked = {}

\* NetMsg_Pack into what is left of the out buffer.
PackPacket ==
    /\ received = <<>>
    /\ room' \in 0 .. MaxBuffer
    /\ packed' = {Pack(Layout(format, value, structs), room', format)}
    /\ UNCHANGED <<packet, received, unpacked>>

\* The packet, and the beginning of what is behind it.
Stream == Wire(format, value, structs) \o Zeros(MaxExtra)

\* Another cell of the packet, or of the one behind it.
ReceiveCell ==
    /\ packed = {}
    /\ Len(received) < Len(Stream)
    /\ received' = SubSeq(Stream, 1, Len(received) + 1)
    /\ unpacked' = {}
    /\ UNCHANGED <<packet, room, packed>>

\* NetMsg_Unpack into a zeroed struct.
UnpackPacket ==
    /\ received # <<>>
    /\ unpacked' = {Unpack(received, Zeros(StructSize(format)), format)}
    /\ UNCHANGED <<packet, room, packed, received>>

CodecNext == PackPacket \/ ReceiveCell \/ UnpackPacket

CodecSpec == CodecInit /\ [][CodecNext]_codec

-----------------------------------------------------------------------------
(* Properties                                                              *)

\* pack never writes behind the room of the buffer, nor does unpack read behind
\* what was received.
CodecTypeOK ==
    /\ IsPacket([format |-> format, value |-> value, structs |-> structs])
    /\ room \in 0 .. MaxBuffer
    /\ \A r \in packed : r.ok => Len(r.wire) <= room
    /\ \A r \in unpacked : r.ok => r.read <= Len(received)

\* A nested struct has another size in memory than on the wire.
NestedVariable ==
    IsNested(format) /\ \E i \in DOMAIN Nested(format) : Nested(format)[i].type # "FIXED"

\* What pack writes: the packet with the first struct in the place of each (field.size
\* is 0), if and only if that fits the buffer.
PackIsWire ==
    LET wire == Wire(format, value, [j \in DOMAIN structs |-> structs[1]]) IN
    \A r \in packed : IF Len(wire) <= room THEN r.ok /\ r.wire = wire ELSE r = Failed

\* NetConn_DispatchPackets takes a failure of unpack for "not yet complete" and
\* moves on by what it returns: unpack succeeds exactly when the whole packet
\* has arrived, and reads that packet and no more.
Framing ==
    LET size == Len(Wire(format, value, structs)) IN
    \A r \in unpacked : IF r.ok THEN r.read = size /\ Len(received) >= size
                        ELSE Len(received) < size

\* A whole packet is unpacked to the struct it was packed from, and nothing is
\* written beside it.
UnpackIsLayout ==
    Len(structs) <= 1 \/ ~NestedVariable =>
        \A r \in unpacked : r.ok => r.mem = Layout(format, value, structs)

-----------------------------------------------------------------------------
(* What the source says of itself and the code does not keep.              *)

\* network.c:1074: "We want to ensure last character is null": a string in
\* memory ends within its field.
LastCharacterIsNull ==
    \A r \in unpacked : r.ok =>
        \A i \in DOMAIN Plain(format) :
            format[i].type = "STRING" => r.mem[Len(Blank(SubSeq(format, 1, i)))] = 0

\* packets.h:26 of MsgField.size: "optional, but really usefull for stuff like
\* struct": without it pack still writes every struct of a nested field.
NestedStructsArePacked ==
    \A r \in packed : r.ok => r.wire = Wire(format, value, structs)

\* network.c:1122, "written += tmp;// field.size;": the structs of a nested field
\* are one struct size apart.
NestedStructsApart ==
    \A r \in unpacked : r.ok => r.mem = Layout(format, value, structs)

=============================================================================
