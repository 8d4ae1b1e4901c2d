---------------------------- MODULE MCPacketCodec ----------------------------
(* PacketCodec for TLC, on the forms that the messages of packets.c have:   *)
(* neighbours of one kind are taken for one field, and an array, a string   *)
(* or a nested field has room for two elements.                             *)
EXTENDS PacketCodec, PacketTables, SequencesExt

Kind(f) ==
    CASE f.type = "STRING_16"     -> [type |-> "STRING", param |-> 2]
      [] f.type \in Arrays        -> [type |-> "ARRAY", param |-> 2]
      [] f.type = "NESTED_STRUCT" -> [type |-> "NESTED", param |-> 2]
      [] OTHER                    -> [type |-> "FIXED", param |-> 0]

Form(fields) ==
    LET kinds == [i \in DOMAIN fields |-> Kind(fields[i])]
        first == {i \in DOMAIN kinds : i = 1 \/ kinds[i] # kinds[i - 1]}
    IN  [i \in 1 .. Cardinality(first) |->
            kinds[CHOOSE k \in first : Cardinality({j \in first : j <= k}) = i]]

Messages == UNION {{<<t, i>> : i \in DOMAIN t[1]} : t \in Tables}

FormOf(m) == Form(m[1][1][m[2]])

\* Everything that some plain fields can hold: two values of an element.
RECURSIVE AllValues(_)
AllValues(fields) ==
    IF fields = <<>> THEN {<<>>}
    ELSE {<<x>> \o rest :
            x \in CASE Head(fields).type = "FIXED"  -> {<<0>>, <<1>>}
                   [] Head(fields).type = "STRING" -> SeqOf({1, 2}, Head(fields).param)
                   [] OTHER                        -> SeqOf({0, 1}, Head(fields).param),
            rest \in AllValues(Tail(fields))}

PacketsOf(f) ==
    [format  : {f},
     value   : AllValues(Plain(f)),
     structs : IF IsNested(f) THEN SeqOf(AllValues(Nested(f)), f[Nest(f)].param) ELSE {<<>>}]

MCPackets == UNION {PacketsOf(FormOf(m)) : m \in Messages}

\* No array, string or nested field is without room.
ASSUME TablesAssumption ==
    \A m \in Messages : \A i \in DOMAIN m[1][1][m[2]] :
        Kind(m[1][1][m[2]][i]).type # "FIXED" => m[1][1][m[2]][i].param > 0

-----------------------------------------------------------------------------
(* Properties of the messages that have the form in hand                   *)

IllSized == {FormOf(m) : m \in {n \in Messages : ~WellSized(n[1], n[2])}}
TooLarge == {FormOf(m) : m \in {n \in Messages : ~FitsInBuffers(n[1], n[2])}}

\* packets.c gives the fields and, apart from them, MsgFormat.unpack_size: the two agree,
\* so that NetConn_DispatchPackets clears all that unpack writes, and SendPacket and the
\* handlers compare their structs with the size of the fields.
SizesAgree == format \notin IllSized

\* No message but the two of Oversized is larger than its buffers: unpack does not write
\* behind the PacketBuffer on the stack, and the wait for the rest of a message ends.
FitsBuffers == format \notin TooLarge

\* Both, of every message the tables have.
TablesAgree == SizesAgree /\ FitsBuffers

=============================================================================
