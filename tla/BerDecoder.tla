------------------------------ MODULE BerDecoder ------------------------------
(***************************************************************************)
(* Decoding a message: decode_response (codec.rs), decode_v3_message and   *)
(* decode_scoped_pdu (v3.rs) and decode_trap (trap.rs), each the list of   *)
(* reads its function makes of nested BerDecoders.                         *)
(*                                                                         *)
(* A BerDecoder is a slice and a position in it.  The innermost one is the *)
(* head of frames; a function that goes on with an outer one leaves it.    *)
(***************************************************************************)
EXTENDS Ber

CONSTANTS
    Messages,     \* what is encoded: see Response, TrapV1, V3, Scoped below
    Bytes,        \* what a byte of a message may be changed to
    Positions     \* where a message may be cut or changed

VARIABLES
    message,      \* the message encoded
    harm,         \* what became of it on the way
    frames,       \* the BerDecoders, innermost first
    todo,         \* the reads still to be made
    fields,       \* what was read so far
    status        \* "reading", or how the decoding ended

vars == <<message, harm, frames, todo, fields, status>>

-----------------------------------------------------------------------------
\* The reads of a decoder.
Enter(tags) == [op |-> "enter", tags |-> tags]

AnyTag == 0..255

Sequence == Enter({SEQUENCE})

Leave == [op |-> "leave"]

Bindings == [op |-> "bindings"]

Read(as) == [op |-> "read", as |-> as]

\* A read of the version, or of the flags' encryption bit, that decides what
\* is read in the end.
Version(next) == [op |-> "read", as |-> "version", next |-> next]

Flags(next) == [op |-> "read", as |-> "flags", next |-> next]

PduReads == <<Read("i32"), Read("u32"), Read("u32"), Sequence, Bindings>>

ResponseReads ==
    <<Read("octets"), Enter({RESPONSE})>> \o PduReads

TrapV1Reads ==
    <<Read("octets"), Enter({TRAP_V1}), Read("oid"), Read("address"),
      Read("i32"), Read("i32"), Read("u32"), Sequence, Bindings>>

TrapV2cReads == <<Read("octets"), Enter({TRAP_V2})>> \o PduReads

HeaderReads(flags) ==
    <<Sequence, Read("i32"), Read("i32"), flags, Read("i32"), Leave>>

ScopedReads ==
    <<Sequence, Read("octets"), Read("octets"), Enter(AnyTag)>> \o PduReads

TrapV3Reads ==
    HeaderReads(Read("octets")) \o <<Read("octets")>> \o ScopedReads

UsmReads ==
    <<Sequence, Read("octets"), Read("u32"), Read("u32"), Read("octets"),
      Read("octets"), Read("octets"), Leave, Leave>>

V3Reads ==
    HeaderReads(Flags([encrypted \in BOOLEAN |->
        <<Read("usm"), Read(IF encrypted THEN "octets" ELSE "full")>>]))

Reads == [
    response |-> <<Sequence, Version([v \in {0, 1, 3} |-> ResponseReads])>>,
    trap |-> <<Sequence, Version([v \in {0, 1, 3} |->
                 CASE v = 0 -> TrapV1Reads [] v = 1 -> TrapV2cReads
                   [] v = 3 -> TrapV3Reads])>>,
    v3 |-> <<Sequence, Version([v \in {3} |-> V3Reads])>>,
    scoped |-> ScopedReads]

\* A message is one TLV that encloses all of it, and no longer than a slice
\* can be: isize::MAX bytes.
ASSUME DecoderAssumption ==
    /\ \A m \in Messages :
          /\ m.decoder \in DOMAIN Reads
          /\ m.bytes \in Seq(AnyTag)
          /\ LET whole == ReadTlv(m.bytes, 0)
             IN  whole.status = "ok" /\ whole.pos = Len(m.bytes)
          /\ 2 * (Len(m.bytes) + 1) < 256^U64Bytes
    /\ Bytes \subseteq AnyTag

-----------------------------------------------------------------------------
\* Messages to decode: what they are encoded from gives the fields expected.
BindingFields(varbinds) ==
    FlattenSeq([i \in DOMAIN varbinds |-> <<varbinds[i].oid, varbinds[i].value>>])

Message(decoder, bytes, header, varbinds) ==
    [decoder |-> decoder, bytes |-> bytes, varbinds |-> varbinds, zeroRun |-> FALSE,
     fields |-> header \o BindingFields(varbinds)]

Response(version, community, id, errorStatus, index, varbinds) ==
    Message("response",
            EncodeMessage(version, community,
                          EncodePdu(RESPONSE, id, errorStatus, index, varbinds)),
            <<version, community, id, errorStatus, index>>, varbinds)

TrapV1(community, enterprise, address, numbers, varbinds) ==
    Message("trap",
            EncodeMessage(0, community, EncodeTrapV1(enterprise, address, numbers, varbinds)),
            <<0, community, enterprise, address>> \o numbers, varbinds)

TrapV2c(community, id, varbinds) ==
    Message("trap", EncodeMessage(1, community, EncodePdu(TRAP_V2, id, 0, 0, varbinds)),
            <<1, community, id, 0, 0>>, varbinds)

Scoped(engine, context, tag, id, varbinds) ==
    Message("scoped",
            EncodeScopedPdu(engine, context, EncodePdu(tag, id, 0, 0, varbinds)),
            <<engine, context, tag, id, 0, 0>>, varbinds)

\* A trap of an unauthenticated v3 sender, with the parameters p.
TrapV3(id, flags, p, scoped) ==
    [scoped EXCEPT
        !.decoder = "trap",
        !.bytes = EncodeV3Message(id, 255, flags, 3, EncodeUsmParams(p), scoped.bytes, FALSE),
        !.fields = <<3, id, 255, <<flags>>, 3, EncodeUsmParams(p)>> \o scoped.fields]

UsmFields(p) == <<p.engine, p.boots, p.time, p.user, p.auth, p.priv>>

\* A v3 message whose octet string of USM parameters is empty.
V3WithoutParams(id, scoped) ==
    Message("v3", EncodeV3Message(id, 255, 4, 3, <<>>, scoped, FALSE),
            <<3, id, 255, <<4>>, 3, <<>>, 0, 0, <<>>, <<>>, <<>>, scoped>>, <<>>)

\* send_request's message: the MAC is written over the first run of as many
\* zeros as the placeholder in p.auth has.
V3(id, flags, p, scoped, mac) ==
    LET encrypted == (flags \div 2) % 2 = 1
        packet == EncodeV3Message(id, 255, flags, 3, EncodeUsmParams(p), scoped, encrypted)
        at == FindAuthPlaceholder(packet, Len(mac))
        Written(q) == [q EXCEPT !.auth = mac]
    IN  [Message("v3", IF mac = <<>> THEN packet ELSE WriteAt(packet, at, mac),
                 <<3, id, 255, <<flags>>, 3>> \o UsmFields(Written(p)) \o <<scoped>>, <<>>)
         EXCEPT !.zeroRun = mac # <<>> /\ \/ HasZeroRun(p.engine, Len(mac))
                                          \/ HasZeroRun(p.user, Len(mac))]

-----------------------------------------------------------------------------
Top == Head(frames)

Item == Head(todo)

Frame(bytes) == [data |-> bytes, pos |-> 0]

AdvancedTo(pos) == <<[Top EXCEPT !.pos = pos]>> \o Tail(frames)

End(how) ==
    /\ status' = how
    /\ UNCHANGED <<message, harm, frames, todo, fields>>

Goes == status' = "reading" /\ UNCHANGED <<message, harm>>

Doing(op) == status = "reading" /\ todo # <<>> /\ Item.op = op

Current == ReadTlv(Top.data, Top.pos)

\* A TLV that encloses others: the tag is looked at before the length is.
TagFits == Top.pos < Len(Top.data) /\ Top.data[Top.pos + 1] \in Item.tags

\* A mutant: the outer decoder stays where it is.
EnterTlvAgain ==
    /\ Doing("enter")
    /\ TagFits /\ Current.status = "ok"
    /\ frames' = <<Frame(Current.value)>> \o frames
    /\ todo' = Tail(todo)
    /\ fields' = IF Item.tags = AnyTag THEN Append(fields, Current.tag) ELSE fields
    /\ Goes

EnterTlv ==
    /\ Doing("enter")
    /\ TagFits /\ Current.status = "ok"
    /\ frames' = <<Frame(Current.value)>> \o AdvancedTo(Current.pos)
    /\ todo' = Tail(todo)
    /\ fields' = IF Item.tags = AnyTag THEN Append(fields, Current.tag) ELSE fields
    /\ Goes

\* A mutant: a TLV that cannot be read is tried again.
EnterFailsRetried ==
    /\ Doing("enter")
    /\ TagFits /\ Current.status = "panic" /\ End("panic")

EnterFails ==
    /\ Doing("enter")
    /\ \/ ~TagFits /\ End("error")
       \/ TagFits /\ Current.status # "ok" /\ End(Current.status)

\* A TLV read whole: the tag is looked at last.
Acceptable(as, tag, value) ==
    CASE as \in {"i32", "u32", "version"} -> tag = INTEGER
      [] as \in {"octets", "flags", "usm"} -> tag = OCTET_STRING
      [] as = "oid" -> tag = OBJECT_ID /\ ~TruncatedOid(value)
      [] as = "value" -> tag = OBJECT_ID => ~TruncatedOid(value)
      [] as \in {"address", "full"} -> TRUE

FieldOf(as, tlv) ==
    CASE as = "i32" -> AsSigned(DecodeInteger(tlv.value), U32Bytes)
      [] as = "u32" -> DecodeInteger(tlv.value) % 256^U32Bytes
      [] as = "version" -> DecodeInteger(tlv.value)
      [] as \in {"octets", "flags"} -> tlv.value
      [] as = "oid" -> DecodeOid(tlv.value)
      [] as = "value" -> DecodeValue(tlv.tag, tlv.value)
      [] as = "address" -> IF Len(tlv.value) = 4 THEN tlv.value ELSE <<>>
      [] as = "full" -> tlv.full

\* What decides which reads there are in the end.
Key(field) ==
    IF Item.as = "version" THEN field
    ELSE field # <<>> /\ (field[1] \div 2) % 2 = 1

ReadField ==
    /\ Doing("read") /\ Item.as # "usm"
    /\ Current.status = "ok" /\ Acceptable(Item.as, Current.tag, Current.value)
    /\ LET field == FieldOf(Item.as, Current)
       IN  /\ IF "next" \in DOMAIN Item
              THEN /\ Key(field) \in DOMAIN Item.next
                   /\ todo' = Tail(todo) \o Item.next[Key(field)]
              ELSE todo' = Tail(todo)
           /\ fields' = Append(fields, field)
    /\ frames' = AdvancedTo(Current.pos)
    /\ Goes

\* decode_usm_params on the octet string; an empty one stands for no engine,
\* no user and no parameters.
ReadUsm ==
    /\ Doing("read") /\ Item.as = "usm"
    /\ Current.status = "ok" /\ Acceptable(Item.as, Current.tag, Current.value)
    /\ IF Current.value = <<>>
       THEN /\ fields' = fields \o << <<>>, 0, 0, <<>>, <<>>, <<>> >>
            /\ frames' = AdvancedTo(Current.pos)
            /\ todo' = Tail(todo)
       ELSE /\ frames' = <<Frame(Current.value)>> \o AdvancedTo(Current.pos)
            /\ todo' = UsmReads \o Tail(todo)
            /\ UNCHANGED fields
    /\ Goes

ReadFails ==
    /\ Doing("read")
    /\ \/ Current.status # "ok" /\ End(Current.status)
       \/ /\ Current.status = "ok"
          /\ \/ ~Acceptable(Item.as, Current.tag, Current.value)
             \/ Item.as = "version" /\ FieldOf("version", Current) \notin DOMAIN Item.next
          /\ End("error")

LeaveTlv ==
    /\ Doing("leave")
    /\ frames' = Tail(frames)
    /\ todo' = Tail(todo)
    /\ UNCHANGED fields
    /\ Goes

\* while vbl.remaining() > 0.
NextBinding ==
    /\ Doing("bindings")
    /\ todo' = IF Top.pos < Len(Top.data)
               THEN <<Sequence, Read("oid"), Read("value"), Leave>> \o todo
               ELSE Tail(todo)
    /\ UNCHANGED <<frames, fields>>
    /\ Goes

Finish ==
    /\ status = "reading" /\ todo = <<>>
    /\ End("ok")

-----------------------------------------------------------------------------
\* A message arrives as it was sent, with a byte after it, cut short, or with
\* one byte changed.
Harmed(bytes, h) ==
    CASE h = "none" -> {bytes}
      [] h = "trailing" -> {Append(bytes, b) : b \in Bytes}
      [] h = "cut" -> {SubSeq(bytes, 1, n - 1) : n \in Positions \cap DOMAIN bytes}
      [] h = "changed" -> {[bytes EXCEPT ![i] = b] :
                             i \in Positions \cap DOMAIN bytes, b \in Bytes}

Init ==
    /\ message \in Messages
    /\ harm \in {"none", "trailing", "cut", "changed"}
    /\ \E data \in Harmed(message.bytes, harm) : frames = <<Frame(data)>>
    /\ todo = Reads[message.decoder]
    /\ fields = <<>>
    /\ status = "reading"

Next == EnterTlv \/ EnterFails \/ ReadField \/ ReadUsm \/ ReadFails \/ LeaveTlv
        \/ NextBinding \/ Finish

Spec == Init /\ [][Next]_vars

\* A decoder is called and runs: it is one function without an await.
FairSpec == Spec /\ WF_vars(Next)

-----------------------------------------------------------------------------
\* The decoders are nested: each is the slice that its outer one has just
\* read past, and none reads past its own end (BerDecoder::read_raw).
Nested ==
    \A i \in 2..Len(frames) :
        LET inner == frames[i - 1].data
            outer == frames[i]
        IN  /\ Len(inner) <= outer.pos
            /\ inner = SubSeq(outer.data, outer.pos - Len(inner) + 1, outer.pos)

\* The types of the variables; the decoders are slices of one another.
TypeOK ==
    /\ message.decoder \in DOMAIN Reads
    /\ harm \in {"none", "trailing", "cut", "changed"}
    /\ status \in {"reading", "ok", "error", "panic"}
    /\ frames # <<>>
    /\ \A i \in DOMAIN frames : frames[i].pos \in 0..Len(frames[i].data)
    /\ Nested

\* What the encoders can say: an OID of two components or more, whose first
\* two share a byte that gives them back, or of none; a value that is not an
\* end marker; and a MAC that has its own zeros written over.
RepresentableOid(oid) ==
    oid = <<>> \/ (Len(oid) >= 2 /\ oid[2] < 40 /\ oid[1] * 40 + oid[2] < 256)

RepresentableValue(value) ==
    /\ value.type \notin DOMAIN MarkerTag
    /\ value.type = "ObjectIdentifier" => RepresentableOid(value.of)

Representable(m) ==
    /\ ~m.zeroRun
    /\ \A i \in DOMAIN m.varbinds : /\ RepresentableOid(m.varbinds[i].oid)
                                    /\ RepresentableValue(m.varbinds[i].value)

\* decode_response, decode_trap, decode_v3_message and decode_scoped_pdu take
\* every message the encoders make, with or without a byte after it, and give
\* back exactly what was encoded: numbers at the edge of their width, lengths
\* of one, two and three bytes, either form of the scoped PDU and a MAC
\* written after the encoding, but for what has no encoding.
RoundTrip ==
    harm \in {"none", "trailing"} /\ status # "reading" =>
        /\ status = "ok"
        /\ (fields = message.fields) <=> Representable(message)

\* A message that lost its end is never taken for a shorter one.
CutShortRefused == harm = "cut" => status # "ok"

\* A decoder returns a Result whatever a byte of the message was changed to,
\* unless a length has as many bytes as usize and, added to the position of
\* the content, passes it (read_raw).
PanicsOnHugeLengthOnly ==
    status = "panic" =>
        \E i \in DOMAIN Top.data :
            /\ Top.data[i] >= 128 + U64Bytes
            /\ LET end == i + Top.data[i] - 128
               IN  /\ end <= Len(Top.data)
                   /\ end + DecodeUnsigned(SubSeq(Top.data, i + 1, end), U64Bytes)
                        >= 256^U64Bytes

\* as_i64 of a decoded number is the number that was encoded, unless it is a
\* Counter64 above i64::MAX: that one turns negative.
Numbers == {"Integer", "Counter32", "Gauge32", "TimeTicks", "Counter64"}

DecodedValue(i) == fields[Len(fields) - 2 * (Len(message.varbinds) - i)]

AccessorAgrees ==
    harm = "none" /\ status = "ok" =>
        \A i \in DOMAIN message.varbinds :
            LET value == message.varbinds[i].value
            IN  value.type \in Numbers =>
                    (AsI64(DecodedValue(i)) = value.of) <=>
                        (value.type = "Counter64" => 2 * value.of < 256^U64Bytes)

\* The loop over the bindings reads each once: every field costs two bytes of
\* the message at least, but for the six of empty USM parameters.
WorkBounded == 2 * Len(fields) <= Len(frames[Len(frames)].data) + 10

\* Every decoder comes to an end, with a Result or the panic above.
Ends == <>(status # "reading")

=============================================================================
