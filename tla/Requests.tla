------------------------------- MODULE Requests -------------------------------
(***************************************************************************)
(* What the two clients have in common (client.rs, v3_client.rs): the calls*)
(* a caller may make, the PDU each asks the agent, the counters that number*)
(* messages, and the Result a call returns.                                *)
(***************************************************************************)
EXTENDS Oids

CONSTANT MaxId      \* i32::MAX

ASSUME MaxIdAssumption == MaxId \in Nat \ {0}

\* An i32.
Id == (-MaxId - 1)..MaxId

\* The values rand::random::<i32>().abs() may give: abs() of i32::MIN panics
\* in a debug build and is i32::MIN in a release build.
FreshIds == (0..MaxId) \cup {-MaxId - 1}

\* The calls other than walk.
Ops == {"get", "get_one", "get_next", "get_bulk", "set"}

PduTypeOf == [op \in Ops |->
    CASE op \in {"get", "get_one"} -> "GET"
      [] op = "get_next"           -> "GETNEXT"
      [] op = "get_bulk"           -> "GETBULK"
      [] op = "set"                -> "SET"]

RequestCall == [op : Ops, oids : Seq(Oid), nonRepeaters : Int,
                maxRepetitions : Int]

WalkCall == [op : {"walk"}, root : Oid]

NoCall == [op |-> "none"]

\* The PDU get, get_one, get_next, get_bulk or set encodes.
PduOf(c) == [type |-> PduTypeOf[c.op], oids |-> c.oids,
             nonRepeaters |-> c.nonRepeaters,
             maxRepetitions |-> c.maxRepetitions]

-----------------------------------------------------------------------------
\* A mutant: plain addition, in a wider integer.
WrappingAdd1Wide(id) == id + 1

WrappingAdd1(id) == IF id = MaxId THEN -MaxId - 1 ELSE id + 1

\* A mutant: ids stay at i32::MAX.
NextIdSaturating(id) ==
    IF WrappingAdd1(id) < 0 THEN MaxId ELSE WrappingAdd1(id)

\* next_request_id and next_msg_id.
NextId(id) == IF WrappingAdd1(id) < 0 THEN 1 ELSE WrappingAdd1(id)

-----------------------------------------------------------------------------
\* A call's Result: Ok with its bindings, or the kind of its SnmpError.  The
\* field n is the number of the exchange whose answer it was made from.
NoResult == [result |-> "none", varbinds |-> <<>>, n |-> 0]

Ok(varbinds, n) == [result |-> "ok", varbinds |-> varbinds, n |-> n]

Err(kind, n) == [result |-> kind, varbinds |-> <<>>, n |-> n]

\* What comes of a message that is not well formed: the decoder's error, or the
\* panic of read_raw at a length as wide as usize, which unwinds the call.
Refusals == {"Decode", "overflow"}

\* A mutant: get_one keeps the OID of the binding and not its value.
AnswerOfUnbound(op, r) ==
    IF op # "get_one" THEN Ok(r.varbinds, r.n)
    ELSE IF r.varbinds = <<>> THEN Err("Decode", r.n)
    ELSE Ok(<<[Head(r.varbinds) EXCEPT !.value = "Null"]>>, r.n)

\* What a call makes of a response without error: get_one keeps the first
\* binding and has an error for none; the others return them all.
AnswerOf(op, r) ==
    IF op # "get_one" THEN Ok(r.varbinds, r.n)
    ELSE IF r.varbinds = <<>> THEN Err("Decode", r.n)
    ELSE Ok(<<Head(r.varbinds)>>, r.n)

=============================================================================
