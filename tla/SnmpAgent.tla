------------------------------ MODULE SnmpAgent ------------------------------
(***************************************************************************)
(* The agent the clients talk to.  It is not part of the repository: it is *)
(* what the clients' requests and walk loops take an agent to be.  Its MIB *)
(* is a strictly ascending sequence of instances; GETNEXT and GETBULK run  *)
(* along it in lexicographic order.                                        *)
(***************************************************************************)
EXTENDS Oids

CONSTANTS
    Mib,        \* the instances, in strictly ascending order
    Writable    \* the OIDs a SET is accepted for

LexLess(a, b) ==
    \/ IsStrictPrefix(a, b)
    \/ \E i \in DOMAIN a \cap DOMAIN b :
          a[i] < b[i] /\ \A j \in 1..(i - 1) : a[j] = b[j]

ASSUME MibAssumption ==
    /\ Mib \in Seq(Oid)
    /\ \A i, j \in DOMAIN Mib : i < j => LexLess(Mib[i], Mib[j])

Versions == {"V1", "V2c", "V3"}

PduTypes == {"GET", "GETNEXT", "GETBULK", "SET"}

\* A request PDU, and what an agent answers to one.  The statuses are those
\* of RFC 3416: 0 noError, 2 noSuchName, 17 notWritable.
Pdu == [type : PduTypes, oids : Seq(Oid), nonRepeaters : Int,
        maxRepetitions : Int]

Statuses == {0, 2, 17}

Reply == [status : Statuses, varbinds : Seq(VarBind)]

-----------------------------------------------------------------------------
\* How many instances are at or before oid.
Position(oid) ==
    Cardinality({i \in DOMAIN Mib : Mib[i] = oid \/ LexLess(Mib[i], oid)})

Exists(oid) == \E i \in DOMAIN Mib : Mib[i] = oid

\* The binding r instances after oid; past the end, the end marker named
\* after the last instance passed.
Successor(oid, r) ==
    LET p == Position(oid)
    IN  IF p + r <= Len(Mib)
        THEN [oid |-> Mib[p + r], value |-> "Value"]
        ELSE [oid |-> IF p < Len(Mib) THEN Mib[Len(Mib)] ELSE oid,
              value |-> "EndOfMibView"]

Lookup(oid) ==
    [oid |-> oid, value |-> IF Exists(oid) THEN "Value" ELSE "NoSuchInstance"]

BindAll(oids, value) == [i \in DOMAIN oids |-> [oid |-> oids[i], value |-> value]]

NoErrorReply(varbinds) == [status |-> 0, varbinds |-> varbinds]

\* An error reply echoes the request's OIDs.
ErrorReply(status, oids) == [status |-> status, varbinds |-> BindAll(oids, "Null")]

GetReply(version, oids) ==
    IF version = "V1" /\ \E i \in DOMAIN oids : ~Exists(oids[i])
    THEN ErrorReply(2, oids)
    ELSE NoErrorReply([i \in DOMAIN oids |-> Lookup(oids[i])])

GetNextReply(version, oids) ==
    IF version = "V1" /\ \E i \in DOMAIN oids : Position(oids[i]) = Len(Mib)
    THEN ErrorReply(2, oids)
    ELSE NoErrorReply([i \in DOMAIN oids |-> Successor(oids[i], 1)])

SetReply(version, oids) ==
    IF \E i \in DOMAIN oids : oids[i] \notin Writable
    THEN ErrorReply(IF version = "V1" THEN 2 ELSE 17, oids)
    ELSE NoErrorReply(BindAll(oids, "Value"))

\* GETBULK with a given number of rows: one successor for each non-repeater,
\* then the rows of successors of the repeaters, row by row.
BulkReply(oids, nonRepeaters, rows) ==
    LET repeaters == Len(oids) - nonRepeaters
    IN  NoErrorReply(
          [i \in 1..nonRepeaters |-> Successor(oids[i], 1)] \o
          [k \in 1..(rows * repeaters) |->
              Successor(oids[nonRepeaters + 1 + ((k - 1) % repeaters)],
                        1 + ((k - 1) \div repeaters))])

\* A GETBULK answer may be cut short after any of its rows but the first.
BulkReplies(pdu) ==
    LET nonRepeaters == IF pdu.nonRepeaters < 0 THEN 0
                        ELSE IF pdu.nonRepeaters > Len(pdu.oids) THEN Len(pdu.oids)
                        ELSE pdu.nonRepeaters
        rows == IF pdu.maxRepetitions > 0 /\ nonRepeaters < Len(pdu.oids)
                THEN 1..pdu.maxRepetitions ELSE {0}
    IN  {BulkReply(pdu.oids, nonRepeaters, r) : r \in rows}

\* The answers to a request; none to a message the agent does not take,
\* which is a GETBULK of version 1.
Replies(version, pdu) ==
    CASE pdu.type = "GET"     -> {GetReply(version, pdu.oids)}
      [] pdu.type = "GETNEXT" -> {GetNextReply(version, pdu.oids)}
      [] pdu.type = "SET"     -> {SetReply(version, pdu.oids)}
      [] pdu.type = "GETBULK" -> IF version = "V1" THEN {}
                                 ELSE BulkReplies(pdu)

\* The positions of the instances strictly below root.
Below(root) == {i \in DOMAIN Mib : IsStrictPrefix(root, Mib[i])}

\* Those instances in order, which is what a walk is to return: as the MIB
\* ascends, they are the first ones past root.
Subtree(root) ==
    LET p == Position(root)
    IN  BindAll(SubSeq(Mib, p + 1, p + Cardinality(Below(root))), "Value")

=============================================================================
