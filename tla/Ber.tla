--------------------------------- MODULE Ber ---------------------------------
(***************************************************************************)
(* The byte level of codec.rs and v3.rs: lengths, integers, object         *)
(* identifiers and values, and the messages made of them.  A byte string is*)
(* a sequence of numbers below 256.  The widths of the machine's integers  *)
(* are constants, so that the edges of each come within TLC's own.         *)
(***************************************************************************)
EXTENDS Integers, Sequences, SequencesExt

CONSTANTS
    U32Bytes,   \* bytes of an i32 or u32: 4
    U64Bytes    \* bytes of an i64, u64 or usize: 8

ASSUME WidthAssumption ==
    U32Bytes \in Nat \ {0} /\ U64Bytes \in Nat \ {0} /\ U32Bytes < U64Bytes

\* What a power is, as far as proofs need it.
ASSUME PowerAssumption ==
    /\ \A k \in 0..(U64Bytes - 1) :
          256^k \in Nat \ {0} /\ 256^(k + 1) = 256 * 256^k
    /\ \A k \in 0..(2 * U32Bytes - 1) :
          128^k \in Nat \ {0} /\ 128^(k + 1) = 128 * 128^k

INTEGER == 2
OCTET_STRING == 4
NULL == 5
OBJECT_ID == 6
SEQUENCE == 48
RESPONSE == 162
TRAP_V1 == 164
TRAP_V2 == 167

\* The tags of the values of an application type, and of the end markers.
ApplicationTag ==
    [IpAddress |-> 64, Counter32 |-> 65, Gauge32 |-> 66, TimeTicks |-> 67,
     Opaque |-> 68, Counter64 |-> 70]

MarkerTag == [NoSuchObject |-> 128, NoSuchInstance |-> 129, EndOfMibView |-> 130]

-----------------------------------------------------------------------------
\* Encoding.

\* The low n bytes of v in two's complement, most significant first.
BeBytes(v, n) == [i \in 1..n |-> (v \div 256^(n - i)) % 256]

\* encode_length: a byte, or how many bytes and those.
Length(n) ==
    IF n < 128 THEN <<n>>
    ELSE LET k == Min({j \in 1..3 : j = 3 \/ n < 256^j})
         IN  <<128 + k>> \o BeBytes(n, k)

Tlv(tag, content) == <<tag>> \o Length(Len(content)) \o content

\* What is left of bytes without the leading ones at redundant positions; the
\* last byte always stays.
Stripped(bytes, redundant) ==
    LET starts == {i \in DOMAIN bytes : 1..(i - 1) \subseteq redundant}
    IN  SubSeq(bytes, Max(starts), Len(bytes))

\* A mutant: the sign of what is left is not looked at.
IntegerBytesUnsigned(v) ==
    LET b == BeBytes(v, U64Bytes)
    IN  Stripped(b, {j \in DOMAIN b : b[j] = IF v < 0 THEN 255 ELSE 0})

\* encode_integer_bytes: the shortest two's complement form.
IntegerBytes(v) ==
    LET b == BeBytes(v, U64Bytes)
    IN  Stripped(b, {j \in 1..(U64Bytes - 1) :
                        IF v < 0 THEN b[j] = 255 /\ b[j + 1] >= 128
                        ELSE b[j] = 0 /\ b[j + 1] < 128})

\* encode_unsigned64: no leading zeros, but one that keeps it positive.
Unsigned64Bytes(v) ==
    LET b == BeBytes(v, U64Bytes)
        short == Stripped(b, {j \in DOMAIN b : b[j] = 0})
    IN  IF short[1] >= 128 THEN <<0>> \o short ELSE short

\* encode_sub_id: seven bits a byte, all but the last marked.
SubIdBytes(v) ==
    LET n == Min({k \in 1..(2 * U32Bytes) : v < 128^k})
    IN  [i \in 1..n |-> ((v \div 128^(n - i)) % 128) + (IF i < n THEN 128 ELSE 0)]

\* encode_oid: the first two components share a byte.
OidBytes(oid) ==
    IF Len(oid) < 2 THEN <<>>
    ELSE <<(oid[1] * 40 + oid[2]) % 256>> \o
         FlattenSeq([i \in 1..(Len(oid) - 2) |-> SubIdBytes(oid[i + 2])])

Integer(v) == Tlv(INTEGER, IntegerBytes(v))

OctetString(bytes) == Tlv(OCTET_STRING, bytes)

\* encode_value; the end markers have no encoding of their own.
EncodeValue(value) ==
    CASE value.type = "Integer" -> Integer(value.of)
      [] value.type = "OctetString" -> OctetString(value.of)
      [] value.type = "ObjectIdentifier" -> Tlv(OBJECT_ID, OidBytes(value.of))
      [] value.type \in {"IpAddress", "Opaque"} ->
            Tlv(ApplicationTag[value.type], value.of)
      [] value.type \in {"Counter32", "Gauge32", "TimeTicks"} ->
            Tlv(ApplicationTag[value.type], IntegerBytes(value.of))
      [] value.type = "Counter64" ->
            Tlv(ApplicationTag[value.type], Unsigned64Bytes(value.of))
      [] OTHER -> Tlv(NULL, <<>>)

EncodeBinding(vb) ==
    Tlv(SEQUENCE, Tlv(OBJECT_ID, OidBytes(vb.oid)) \o EncodeValue(vb.value))

\* The PDU of every request and response: three integers and the bindings.
EncodePdu(tag, id, status, index, varbinds) ==
    Tlv(tag, Integer(id) \o Integer(status) \o Integer(index) \o
        Tlv(SEQUENCE, FlattenSeq([i \in DOMAIN varbinds |->
                                     EncodeBinding(varbinds[i])])))

\* Trap-PDU, as decode_v1_trap reads it.
EncodeTrapV1(enterprise, address, numbers, varbinds) ==
    Tlv(TRAP_V1, Tlv(OBJECT_ID, OidBytes(enterprise)) \o
                 Tlv(ApplicationTag.IpAddress, address) \o
                 FlattenSeq([i \in DOMAIN numbers |-> Integer(numbers[i])]) \o
                 Tlv(SEQUENCE, FlattenSeq([i \in DOMAIN varbinds |->
                                              EncodeBinding(varbinds[i])])))

EncodeMessage(version, community, pdu) ==
    Tlv(SEQUENCE, Integer(version) \o OctetString(community) \o pdu)

\* encode_usm_params, encode_scoped_pdu and encode_v3_message.
EncodeUsmParams(p) ==
    Tlv(SEQUENCE, OctetString(p.engine) \o Integer(p.boots) \o Integer(p.time) \o
        OctetString(p.user) \o OctetString(p.auth) \o OctetString(p.priv))

EncodeScopedPdu(engine, context, pdu) ==
    Tlv(SEQUENCE, OctetString(engine) \o OctetString(context) \o pdu)

EncodeV3Message(id, maxSize, flags, model, params, scoped, encrypted) ==
    Tlv(SEQUENCE,
        Integer(3) \o
        Tlv(SEQUENCE, Integer(id) \o Integer(maxSize) \o
                      OctetString(<<flags>>) \o Integer(model)) \o
        OctetString(params) \o
        IF encrypted THEN OctetString(scoped) ELSE scoped)

-----------------------------------------------------------------------------
\* Decoding the contents of a TLV.

\* Shifting bytes into an integer of width bytes from a start value; what
\* does not fit falls out at the top.
ShiftIn(start, bytes, width) ==
    LET shifted[n \in 0..Len(bytes)] ==
            IF n = 0 THEN start
            ELSE (shifted[n - 1] % 256^(width - 1)) * 256 + bytes[n]
    IN  shifted[Len(bytes)]

\* decode_unsigned32 and decode_unsigned64; read_length's loop.
DecodeUnsigned(bytes, width) == ShiftIn(0, bytes, width)

\* A cast to a signed integer of width bytes.
AsSigned(v, width) ==
    LET low == v % 256^width
    IN  IF 2 * low >= 256^width THEN low - 256^width ELSE low

\* decode_integer: the first bit is the sign.
DecodeInteger(bytes) ==
    IF bytes = <<>> THEN 0
    ELSE AsSigned(ShiftIn(IF bytes[1] >= 128 THEN 256^U64Bytes - 1 ELSE 0,
                          bytes, U64Bytes), U64Bytes)

\* decode_oid's loop, a byte further: sub is a sub-identifier as far as it is
\* read, all of it at a byte below 128.
OidStep(read, byte) ==
    LET sub == (read.sub % (256^U32Bytes \div 128)) * 128 + (byte % 128)
    IN  IF byte < 128 THEN [oid |-> Append(read.oid, sub), sub |-> 0]
        ELSE [oid |-> read.oid, sub |-> sub]

DecodeOid(bytes) ==
    LET read[n \in 1..Len(bytes)] ==
            IF n = 1 THEN [oid |-> <<bytes[1] \div 40, bytes[1] % 40>>, sub |-> 0]
            ELSE OidStep(read[n - 1], bytes[n])
    IN  IF bytes = <<>> THEN <<>> ELSE read[Len(bytes)].oid

\* The last byte of an OID announces another: "truncated OID sub-identifier".
TruncatedOid(bytes) == Len(bytes) > 1 /\ bytes[Len(bytes)] >= 128

ValueOf(type, of) == [type |-> type, of |-> of]

\* The type that a tag stands for.
TypeOf(tag, tags) == CHOOSE type \in DOMAIN tags : tags[type] = tag

\* read_value, of a TLV whose contents decode.
DecodeValue(tag, bytes) ==
    CASE tag = INTEGER -> ValueOf("Integer", DecodeInteger(bytes))
      [] tag = NULL -> ValueOf("Null", <<>>)
      [] tag = OBJECT_ID -> ValueOf("ObjectIdentifier", DecodeOid(bytes))
      [] tag = ApplicationTag.IpAddress /\ Len(bytes) = 4 ->
            ValueOf("IpAddress", bytes)
      [] tag \in {65, 66, 67} ->
            ValueOf(TypeOf(tag, ApplicationTag), DecodeUnsigned(bytes, U32Bytes))
      [] tag = ApplicationTag.Opaque -> ValueOf("Opaque", bytes)
      [] tag = ApplicationTag.Counter64 ->
            ValueOf("Counter64", DecodeUnsigned(bytes, U64Bytes))
      [] \E t \in DOMAIN MarkerTag : MarkerTag[t] = tag ->
            ValueOf(TypeOf(tag, MarkerTag), <<>>)
      [] OTHER -> ValueOf("OctetString", bytes)

\* A mutant: every number is cast at the width of 32 bits.
AsI64Narrow(value) ==
    IF value.type = "Integer" THEN value.of ELSE AsSigned(value.of, U32Bytes)

\* Value::as_i64 of a number: "as i64".
AsI64(value) ==
    IF value.type = "Integer" THEN value.of ELSE AsSigned(value.of, U64Bytes)

-----------------------------------------------------------------------------
\* Reading a TLV at a position: its tag, contents and the position after it.
\* pos counts the bytes read so far.
Refused(status) == [status |-> status]

\* A mutant: no look at whether the length's own bytes are there.
ReadLengthUnchecked(data, pos) ==
    IF pos >= Len(data) THEN Refused("error")
    ELSE LET first == data[pos + 1]
             end == pos + 1 + (first - 128)
         IN  IF first < 128
             THEN [status |-> "ok", len |-> first, pos |-> pos + 1]
             ELSE IF end > Len(data) THEN Refused("panic")
             ELSE [status |-> "ok",
                   len |-> DecodeUnsigned(SubSeq(data, pos + 2, end), U64Bytes),
                   pos |-> end]

ReadLength(data, pos) ==
    IF pos >= Len(data) THEN Refused("error")
    ELSE LET first == data[pos + 1]
             end == pos + 1 + (first - 128)
         IN  IF first < 128
             THEN [status |-> "ok", len |-> first, pos |-> pos + 1]
             ELSE IF end > Len(data) THEN Refused("error")
             ELSE [status |-> "ok",
                   len |-> DecodeUnsigned(SubSeq(data, pos + 2, end), U64Bytes),
                   pos |-> end]

\* A mutant: what there is, if it is less than what is asked for.
ReadRawClamped(data, pos, len) ==
    LET end == Min({pos + len, Len(data)})
    IN  [status |-> "ok", value |-> SubSeq(data, pos + 1, end), pos |-> end]

\* pos + len beyond usize panics in a debug build; in a release build it wraps
\* and the slice from pos to less than pos panics.
ReadRaw(data, pos, len) ==
    IF pos + len >= 256^U64Bytes THEN Refused("panic")
    ELSE IF pos + len > Len(data) THEN Refused("error")
    ELSE [status |-> "ok", value |-> SubSeq(data, pos + 1, pos + len),
          pos |-> pos + len]

ReadTlv(data, pos) ==
    IF pos >= Len(data) THEN Refused("error")
    ELSE LET length == ReadLength(data, pos + 1)
         IN  IF length.status # "ok" THEN length
             ELSE LET raw == ReadRaw(data, length.pos, length.len)
                  IN  IF raw.status # "ok" THEN raw
                      ELSE [status |-> "ok", tag |-> data[pos + 1],
                            value |-> raw.value, pos |-> raw.pos,
                            full |-> SubSeq(data, pos + 1, raw.pos)]

-----------------------------------------------------------------------------
Zeros(n) == [i \in 1..n |-> 0]

HasZeroRun(bytes, n) ==
    \E i \in 0..(Len(bytes) - n) : SubSeq(bytes, i + 1, i + n) = Zeros(n)

\* find_auth_placeholder: how many bytes stand before the first run of n
\* zeros, in a packet that has one.
FindAuthPlaceholder(packet, n) ==
    Min({i \in 0..(Len(packet) - n) : SubSeq(packet, i + 1, i + n) = Zeros(n)})

\* The packet with bytes in place of those after the first at.
WriteAt(packet, at, bytes) ==
    [i \in DOMAIN packet |-> IF i \in (at + 1)..(at + Len(bytes))
                             THEN bytes[i - at] ELSE packet[i]]

=============================================================================
