---------------------------- MODULE MCBerDecoder ----------------------------
(***************************************************************************)
(* Messages at the edges of what the encoders write, with integers of two  *)
(* and three bytes for those of four and eight.                            *)
(***************************************************************************)
EXTENDS BerDecoder

MCBytes == {0, 128, 131, 255}

MCPositions == 1..45

public == <<112>>

sysDescr == <<1, 3, 6, 1>>

Vb(oid, type, of) == [oid |-> oid, value |-> ValueOf(type, of)]

Null(oid) == Vb(oid, "Null", <<>>)

\* Response with one binding.
Answers(vb) == Response(1, public, 7, 0, 0, <<vb>>)

Integers == {0, 1, 127, 128, 255, 256, 32768, 8388607,
             -1, -128, -129, -32768, -32769, -8388608}

Unsigned32s == {0, 127, 128, 65535}

Unsigned64s == {0, 255, 8388608, 16777215}

Values ==
    {ValueOf("Integer", v) : v \in Integers}
    \cup {ValueOf(t, v) : t \in {"Counter32", "Gauge32", "TimeTicks"},
                          v \in Unsigned32s}
    \cup {ValueOf("Counter64", v) : v \in Unsigned64s}
    \cup {ValueOf("OctetString", Zeros(n)) : n \in {0, 1}}
    \cup {ValueOf("Opaque", <<255>>), ValueOf("IpAddress", <<127, 0, 0, 1>>),
          ValueOf("Null", <<>>)}
    \cup {ValueOf(t, <<>>) : t \in DOMAIN MarkerTag}

\* None, too few components, second components that fit and that do not,
\* either side of the byte's end, and identifiers of 7, 8 and 16 bits.
ObjectIds == {<<>>, <<1>>, <<1, 3>>, <<0, 39>>, <<0, 40>>, <<2, 39>>, <<2, 40>>,
              <<6, 15>>, <<6, 16>>, <<1, 3, 0>>, <<1, 3, 127, 128>>,
              <<1, 3, 65535>>}

\* Contents that make some enclosing length 127, 128, 255, 256 or so.
Lengths == {96, 97, 98, 99, 100, 127, 128, 220, 221, 222, 223, 224, 225, 255, 256}

\* The same message with its length in two bytes, as some agents write it.
LongForm(m) ==
    [m EXCEPT !.bytes = <<SEQUENCE, 130, 0, Len(m.bytes) - 2>> \o
                        SubSeq(m.bytes, 3, Len(m.bytes))]

Params(engine, user, auth) ==
    [engine |-> engine, boots |-> 65535, time |-> 128, user |-> user,
     auth |-> auth, priv |-> <<>>]

Mac == <<9, 8, 7, 6>>

ScopedGet == Scoped(<<128>>, <<>>, 160, 7, <<Null(sysDescr)>>)

MCMessages ==
    {Answers([oid |-> sysDescr, value |-> v]) : v \in Values}
    \cup {Answers(Null(oid)) : oid \in ObjectIds}
    \cup {Answers(Vb(sysDescr, "ObjectIdentifier", oid)) : oid \in ObjectIds}
    \cup {Response(0, Zeros(n), -1, 2, 1, <<>>) : n \in Lengths}
    \cup {Response(v, <<255, 255, 255, 255>>, 32767, 65535, 0,
                   <<Null(sysDescr), Null(<<1, 3>>)>>) : v \in {0, 1, 3}}
    \cup {LongForm(Answers(Null(sysDescr)))}
    \cup {TrapV1(public, <<1, 3, 6>>, address, <<6, -32768, 65535>>,
                 <<Null(sysDescr)>>) : address \in {<<>>, <<127, 0, 0, 1>>}}
    \cup {TrapV2c(public, 7, <<Null(sysDescr), Vb(<<1, 3>>, "TimeTicks", 255)>>)}
    \cup {ScopedGet, TrapV3(7, 4, Params(<<128>>, <<117>>, <<>>), ScopedGet)}
    \cup {V3WithoutParams(7, ScopedGet.bytes)}
    \cup {V3(7, flags, Params(<<128>>, <<117>>, <<>>), ScopedGet.bytes, <<>>) :
            flags \in {0, 2, 4}}
    \cup {V3(256, flags, Params(engine, user, Zeros(4)), ScopedGet.bytes, Mac) :
            flags \in {1, 3},
            engine \in {<<>>, <<128, 0, 0, 0>>, <<128, 0, 0, 0, 0>>},
            user \in {<<117>>, Zeros(4)}}

=============================================================================
