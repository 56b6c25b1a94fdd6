--------------------------- MODULE SnmpAgentProofs ---------------------------
(***************************************************************************)
(* Lemmas about the operators both clients use, of Oids, Requests and      *)
(* SnmpAgent: what a walk keeps of a response, that whatever the agent     *)
(* answers is a reply, the types of what a call puts together, and the     *)
(* arithmetic of counters that wrap.  Then the agent's MIB: the order of   *)
(* OIDs is total, Position cuts the MIB where an OID would stand, the      *)
(* instances below a root follow one another, and a walk's exchange goes on*)
(* exactly where it left off.                                              *)
(***************************************************************************)
EXTENDS SnmpAgent, Requests, TLAPS, FiniteSetTheorems, SequenceTheorems

\* The first n natural numbers are n.
LEMMA FirstNumbers ==
    ASSUME NEW n \in Nat
    PROVE  IsFiniteSet(1..n) /\ Cardinality(1..n) = n
<1>1. 1 \in Int /\ n \in Int
  OBVIOUS
<1>2. IsFiniteSet(1..n) /\ Cardinality(1..n) = IF 1 > n THEN 0 ELSE n - 1 + 1
  BY <1>1, FS_Interval, Zenon
<1> QED
  BY <1>2

\* Kept returns a prefix of the response's bindings, none of which stops the
\* walk.  The positions it keeps are closed downwards, so were one of the
\* first Cardinality many missing, all of them would lie below it.
LEMMA KeptPrefix ==
    ASSUME NEW root \in Oid, NEW varbinds \in Seq(VarBind)
    PROVE  /\ Kept(root, varbinds) \in Seq(VarBind)
           /\ Len(Kept(root, varbinds)) <= Len(varbinds)
           /\ \A i \in 1..Len(Kept(root, varbinds)) :
                 /\ Kept(root, varbinds)[i] = varbinds[i]
                 /\ ~Stops(root, varbinds[i])
<1> DEFINE S == NotStopped(root, varbinds)
           k == Cardinality(S)
<1>1. S \subseteq 1..Len(varbinds)
  BY DEF NotStopped
<1>2. IsFiniteSet(1..Len(varbinds)) /\ Cardinality(1..Len(varbinds)) = Len(varbinds)
  BY FirstNumbers, Len(varbinds) \in Nat
<1>3. IsFiniteSet(S) /\ k \in Nat /\ k <= Len(varbinds)
  BY <1>1, <1>2, FS_Subset, FS_CardinalityType
<1>4. ASSUME NEW i \in 1..k
      PROVE  ~Stops(root, varbinds[i])
  <2>1. SUFFICES ASSUME i \notin S PROVE FALSE
    BY <1>3 DEF NotStopped
  <2>2. S \subseteq 1..(i - 1)
    BY <2>1, <1>1, <1>3 DEF NotStopped
  <2>3. IsFiniteSet(1..(i - 1)) /\ Cardinality(1..(i - 1)) = i - 1
    BY <1>3, i - 1 \in Nat, FirstNumbers
  <2>4. k <= i - 1
    BY <2>2, <2>3, FS_Subset
  <2> QED
    BY <2>4, <1>3
<1>5. Kept(root, varbinds) = SubSeq(varbinds, 1, k)
  BY DEF Kept
<1> HIDE DEF k
<1>6. /\ SubSeq(varbinds, 1, k) \in Seq(VarBind)
      /\ Len(SubSeq(varbinds, 1, k)) = k
      /\ \A i \in 1..k : SubSeq(varbinds, 1, k)[i] = varbinds[i]
  BY <1>3
<1> QED
  BY <1>3, <1>4, <1>5, <1>6

\* The walk's next starting point is an OID.
LEMMA WalkCurrentType ==
    ASSUME NEW current \in Oid, NEW kept \in Seq(VarBind)
    PROVE  WalkCurrent(current, kept) \in Oid
<1>1. ASSUME kept # <<>> PROVE kept[Len(kept)] \in VarBind
  BY <1>1
<1> QED
  BY <1>1 DEF WalkCurrent, Last, VarBind

-----------------------------------------------------------------------------
\* Position counts instances of the MIB.
LEMMA PositionType ==
    ASSUME NEW oid \in Oid
    PROVE  Position(oid) \in 0..Len(Mib)
<1> DEFINE S == {i \in DOMAIN Mib : Mib[i] = oid \/ LexLess(Mib[i], oid)}
<1>1. Mib \in Seq(Oid) /\ Len(Mib) \in Nat
  BY MibAssumption
<1>2. S \subseteq 1..Len(Mib)
  BY <1>1
<1>3. IsFiniteSet(1..Len(Mib)) /\ Cardinality(1..Len(Mib)) = Len(Mib)
  BY <1>1, FirstNumbers
<1>4. IsFiniteSet(S) /\ Cardinality(S) <= Len(Mib)
  BY <1>2, <1>3, FS_Subset
<1>5. Cardinality(S) \in Nat
  BY <1>4, FS_CardinalityType
<1>6. Position(oid) = Cardinality(S)
  BY DEF Position
<1> HIDE DEF S
<1> QED
  BY <1>1, <1>4, <1>5, <1>6

\* What GETNEXT and GETBULK give for an OID is a binding.
LEMMA SuccessorType ==
    ASSUME NEW oid \in Oid, NEW r \in Nat \ {0}
    PROVE  Successor(oid, r) \in VarBind
<1>1. Mib \in Seq(Oid)
  BY MibAssumption
<1> DEFINE p == Position(oid)
<1>2. p \in 0..Len(Mib)
  BY PositionType
<1>3. Successor(oid, r) =
        IF p + r <= Len(Mib) THEN [oid |-> Mib[p + r], value |-> "Value"]
        ELSE [oid |-> IF p < Len(Mib) THEN Mib[Len(Mib)] ELSE oid,
              value |-> "EndOfMibView"]
  BY DEF Successor
<1> HIDE DEF p
<1>4. p + r <= Len(Mib) => Mib[p + r] \in Oid
  BY <1>1, <1>2
<1>5. p < Len(Mib) => Mib[Len(Mib)] \in Oid
  BY <1>1, <1>2
<1> QED
  BY <1>3, <1>4, <1>5 DEF VarBind, Value, EndMarkers

\* The other bindings of a reply.
LEMMA BindingsType ==
    ASSUME NEW oids \in Seq(Oid)
    PROVE  /\ [i \in DOMAIN oids |-> Lookup(oids[i])] \in Seq(VarBind)
           /\ [i \in DOMAIN oids |-> Successor(oids[i], 1)] \in Seq(VarBind)
           /\ \A value \in Value : BindAll(oids, value) \in Seq(VarBind)
<1>1. DOMAIN oids = 1..Len(oids) /\ Len(oids) \in Nat
  OBVIOUS
<1>2. \A i \in 1..Len(oids) : oids[i] \in Oid
  OBVIOUS
<1>3. \A i \in 1..Len(oids) : Lookup(oids[i]) \in VarBind
  BY <1>2 DEF Lookup, VarBind, Value, EndMarkers
<1>4. \A i \in 1..Len(oids) : Successor(oids[i], 1) \in VarBind
  BY <1>2, SuccessorType, 1 \in Nat \ {0}, Zenon
<1>5. \A value \in Value : \A i \in 1..Len(oids) :
        [oid |-> oids[i], value |-> value] \in VarBind
  BY <1>2 DEF VarBind
<1>6. [i \in DOMAIN oids |-> Lookup(oids[i])] \in Seq(VarBind)
  BY <1>1, <1>3
<1>7. [i \in DOMAIN oids |-> Successor(oids[i], 1)] \in Seq(VarBind)
  BY <1>1, <1>4
<1>8. \A value \in Value : BindAll(oids, value) \in Seq(VarBind)
  BY <1>1, <1>5 DEF BindAll
<1> QED
  BY <1>6, <1>7, <1>8

\* A GETBULK answer of any number of rows is a reply.
LEMMA BulkReplyType ==
    ASSUME NEW oids \in Seq(Oid), NEW nonRepeaters \in 0..Len(oids),
           NEW rows \in Nat
    PROVE  BulkReply(oids, nonRepeaters, rows) \in Reply
<1> DEFINE repeaters == Len(oids) - nonRepeaters
           once == [i \in 1..nonRepeaters |-> Successor(oids[i], 1)]
           cell(k) == Successor(oids[nonRepeaters + 1 + ((k - 1) % repeaters)],
                                1 + ((k - 1) \div repeaters))
           table == [k \in 1..(rows * repeaters) |-> cell(k)]
<1>1. repeaters \in Nat /\ rows * repeaters \in Nat
  OBVIOUS
<1>2. \A i \in 1..Len(oids) : oids[i] \in Oid
  OBVIOUS
<1>3. \A i \in 1..nonRepeaters : Successor(oids[i], 1) \in VarBind
  BY <1>2, SuccessorType, 1 \in Nat \ {0}
<1>4. ASSUME NEW k \in 1..(rows * repeaters)
      PROVE  cell(k) \in VarBind
  <2>1. repeaters # 0
    BY <1>1
  <2>2. /\ (k - 1) % repeaters \in 0..(repeaters - 1)
        /\ (k - 1) \div repeaters \in Nat
    BY <1>1, <2>1
  <2>3. nonRepeaters + 1 + ((k - 1) % repeaters) \in 1..Len(oids)
    BY <2>2
  <2>4. 1 + ((k - 1) \div repeaters) \in Nat \ {0}
    BY <2>2
  <2> QED
    BY <1>2, <2>3, <2>4, SuccessorType
<1>5. once \in Seq(VarBind)
  BY <1>3
<1>6. table \in Seq(VarBind)
  BY <1>1, <1>4
<1>7. once \o table \in Seq(VarBind)
  BY <1>5, <1>6
<1> QED
  BY <1>7 DEF BulkReply, NoErrorReply, Reply, Statuses

\* Whatever the agent answers to a request PDU is a reply.
LEMMA RepliesType ==
    ASSUME NEW version \in Versions, NEW pdu \in Pdu
    PROVE  Replies(version, pdu) \subseteq Reply
<1>1. pdu.oids \in Seq(Oid) /\ pdu.type \in PduTypes
  BY DEF Pdu
<1>2. \A status \in Statuses : ErrorReply(status, pdu.oids) \in Reply
  BY <1>1, BindingsType DEF ErrorReply, Reply, Value
<1>3. GetReply(version, pdu.oids) \in Reply
  BY <1>1, <1>2, BindingsType DEF GetReply, NoErrorReply, Reply, Statuses
<1>4. GetNextReply(version, pdu.oids) \in Reply
  BY <1>1, <1>2, BindingsType DEF GetNextReply, NoErrorReply, Reply, Statuses
<1>5. SetReply(version, pdu.oids) \in Reply
  BY <1>1, <1>2, BindingsType
     DEF SetReply, NoErrorReply, Reply, Statuses, Value
<1>6. BulkReplies(pdu) \subseteq Reply
  <2> DEFINE nonRepeaters ==
               IF pdu.nonRepeaters < 0 THEN 0
               ELSE IF pdu.nonRepeaters > Len(pdu.oids) THEN Len(pdu.oids)
               ELSE pdu.nonRepeaters
             rows == IF pdu.maxRepetitions > 0 /\ nonRepeaters < Len(pdu.oids)
                     THEN 1..pdu.maxRepetitions ELSE {0}
  <2>1. nonRepeaters \in 0..Len(pdu.oids)
    BY <1>1 DEF Pdu
  <2>2. rows \subseteq Nat
    BY DEF Pdu
  <2>3. BulkReplies(pdu) = {BulkReply(pdu.oids, nonRepeaters, r) : r \in rows}
    BY DEF BulkReplies
  <2> HIDE DEF nonRepeaters, rows
  <2> QED
    BY <1>1, <2>1, <2>2, <2>3, BulkReplyType
<1> QED
  BY <1>1, <1>3, <1>4, <1>5, <1>6 DEF Replies, PduTypes

-----------------------------------------------------------------------------
\* next_request_id and next_msg_id stay within i32.
LEMMA NextIdType ==
    ASSUME NEW id \in Id
    PROVE  NextId(id) \in Id
BY MaxIdAssumption DEF NextId, WrappingAdd1, Id

\* What a call asks is a request PDU.
LEMMA PduOfType ==
    ASSUME NEW c \in RequestCall
    PROVE  PduOf(c) \in Pdu
BY DEF RequestCall, PduOf, PduTypeOf, Ops, Pdu, PduTypes

\* Adding an element adds at most one to the count, removing one takes one.
LEMMA CountOne ==
    ASSUME NEW S, IsFiniteSet(S), NEW x
    PROVE  /\ Cardinality(S) \in Nat
           /\ IsFiniteSet(S \cup {x}) /\ IsFiniteSet(S \ {x})
           /\ Cardinality(S \cup {x}) \in Nat /\ Cardinality(S \ {x}) \in Nat
           /\ Cardinality(S \cup {x}) <= Cardinality(S) + 1
           /\ x \in S => Cardinality(S \ {x}) = Cardinality(S) - 1
<1>1. IsFiniteSet(S \cup {x}) /\ IsFiniteSet(S \ {x})
  BY FS_AddElement, FS_RemoveElement
<1>2. /\ Cardinality(S) \in Nat
      /\ Cardinality(S \cup {x}) \in Nat /\ Cardinality(S \ {x}) \in Nat
  BY <1>1, FS_CardinalityType
<1>3. Cardinality(S \cup {x}) = IF x \in S THEN Cardinality(S) ELSE Cardinality(S) + 1
  BY FS_AddElement
<1>4. Cardinality(S \ {x}) = IF x \in S THEN Cardinality(S) - 1 ELSE Cardinality(S)
  BY FS_RemoveElement
<1> QED
  BY <1>1, <1>2, <1>3, <1>4

\* What a queue holds as it grows at its end and shrinks at its head.
LEMMA RangeType ==
    ASSUME NEW S, NEW s \in Seq(S), NEW r \in S
    PROVE  /\ Range(Append(s, r)) \subseteq Range(s) \cup {r}
           /\ s # <<>> => Range(Tail(s)) \subseteq Range(s)
           /\ s # <<>> => Head(s) \in Range(s)
<1>1. \A i \in DOMAIN Append(s, r) : Append(s, r)[i] \in Range(s) \cup {r}
  BY DEF Range
<1>2. ASSUME s # <<>>, NEW i \in DOMAIN Tail(s) PROVE Tail(s)[i] \in Range(s)
  <2>1. i + 1 \in DOMAIN s /\ Tail(s)[i] = s[i + 1]
    BY <1>2
  <2> QED
    BY <2>1 DEF Range
<1>3. s # <<>> => 1 \in DOMAIN s /\ Head(s) = s[1]
  OBVIOUS
<1> QED
  BY <1>1, <1>2, <1>3 DEF Range

-----------------------------------------------------------------------------
\* Counters that wrap: request ids, and the salts of SNMPv3.

\* A multiple of a number, smaller than it, is zero.
LEMMA MultipleBelow ==
    ASSUME NEW size \in Nat \ {0}, NEW x \in 0..(size - 1), NEW k \in Int,
           x = k * size
    PROVE  x = 0
<1>1. k >= 1 => k * size >= size
  OBVIOUS
<1>2. k <= -1 => k * size <= -size
  OBVIOUS
<1> QED
  BY <1>1, <1>2

\* A quotient and its remainder.
LEMMA Remainder ==
    ASSUME NEW size \in Nat \ {0}, NEW a \in Int
    PROVE  \E q \in Int : a = q * size + (a % size)
<1>1. a \div size \in Int
  OBVIOUS
<1>2. a = (a \div size) * size + (a % size)
  OBVIOUS
<1> QED
  BY <1>1, <1>2

\* A counter modulo size that shows s at step n shows x at step i.
Counted(size, s, n, x, i) == \E k \in Int : x - s = (i - n) + k * size

LEMMA CountsFrom ==
    ASSUME NEW size \in Nat, NEW x \in Int, NEW i \in Int
    PROVE  Counted(size, x, i, x, i)
<1>1. x - x = (i - i) + 0 * size
  OBVIOUS
<1> QED
  BY <1>1 DEF Counted

\* It goes on with every step.
LEMMA CountsOn ==
    ASSUME NEW size \in Nat, NEW s \in Int, NEW n \in Int, NEW x \in Int,
           NEW i \in Int, Counted(size, s, n, x, i),
           NEW y \in Int, y = x + 1 \/ y = x + 1 - size
    PROVE  Counted(size, s, n, y, i + 1)
<1> SUFFICES \E j \in Int : y - s = ((i + 1) - n) + j * size
  BY DEF Counted
<1>0. PICK k \in Int : x - s = (i - n) + k * size
  BY DEF Counted
<1>1. k * size \in Int /\ k - 1 \in Int /\ (k - 1) * size = k * size - size
  OBVIOUS
<1>2. CASE y = x + 1
  <2>1. y - s = ((i + 1) - n) + k * size
    BY <1>0, <1>1, <1>2
  <2> QED
    BY <2>1
<1>3. CASE y = x + 1 - size
  <2>1. y - s = ((i + 1) - n) + (k - 1) * size
    BY <1>0, <1>1, <1>3
  <2> QED
    BY <1>1, <2>1
<1> QED
  BY <1>2, <1>3

\* It shows no number twice within size steps, nor one with the same
\* remainder by a size that divides its own.
LEMMA SameCount ==
    ASSUME NEW size \in Nat \ {0}, NEW cycle \in Nat, cycle % size = 0,
           NEW x \in Int, NEW i \in Int,
           NEW s \in Int, NEW m \in Int, Counted(cycle, s, m, x, i),
           NEW t \in Int, NEW n \in Int, Counted(cycle, t, n, x, i),
           s % size = t % size,
           m - n \in 0..(size - 1)
    PROVE  m = n
<1>0. PICK j \in Int, k \in Int :
        x - s = (i - m) + j * cycle /\ x - t = (i - n) + k * cycle
  BY DEF Counted
<1>1. PICK q \in Int : cycle = q * size
  <2>1. cycle \in Int
    OBVIOUS
  <2>2. PICK q \in Int : cycle = q * size + (cycle % size)
    BY <2>1, Remainder, Zenon
  <2>3. q * size \in Int
    OBVIOUS
  <2>4. cycle = q * size + 0
    BY <2>2, Zenon
  <2>5. cycle = q * size
    BY <2>3, <2>4
  <2> QED
    BY <2>5
<1>2. PICK a \in Int : s - t = a * size
  <2>1. PICK b \in Int : s = b * size + (s % size)
    BY Remainder
  <2>2. PICK c \in Int : t = c * size + (t % size)
    BY Remainder
  <2>3. /\ (b - c) * size = b * size - c * size /\ b - c \in Int
        /\ b * size \in Int /\ c * size \in Int /\ t % size \in Int
    OBVIOUS
  <2>4. s - t = (b - c) * size
    BY <2>1, <2>2, <2>3
  <2> QED
    BY <2>3, <2>4
<1>3. m - n = (s - t) + (j * cycle - k * cycle)
  <2>1. j * cycle \in Int /\ k * cycle \in Int
    OBVIOUS
  <2> QED
    BY <1>0, <2>1
<1>4. j * cycle - k * cycle = ((j - k) * q) * size
  BY <1>1
<1>5. m - n = (a + (j - k) * q) * size
  <2> DEFINE b == (j - k) * q
  <2>1. b \in Int
    OBVIOUS
  <2>2. j * cycle - k * cycle = b * size
    BY <1>4
  <2> HIDE DEF b
  <2>3. (a + b) * size = a * size + b * size
    BY <2>1
  <2>4. m - n = (a + b) * size
    BY <1>2, <1>3, <2>2, <2>3
  <2> QED
    BY <2>4 DEF b
<1>6. a + (j - k) * q \in Int
  OBVIOUS
<1>7. m - n = 0
  BY <1>5, <1>6, MultipleBelow
<1> QED
  BY <1>7

-----------------------------------------------------------------------------
\* The agent's MIB.

\* A set of numbers from 1 on without gaps holds as many as its largest is.
LEMMA NoGaps ==
    ASSUME NEW n \in Nat, NEW S \in SUBSET (1..n),
           \A i \in S : \A j \in 1..i : j \in S
    PROVE  /\ IsFiniteSet(S) /\ Cardinality(S) \in 0..n
           /\ S = 1..Cardinality(S)
<1>1. IsFiniteSet(1..n) /\ Cardinality(1..n) = n
  BY FirstNumbers
<1>2. IsFiniteSet(S) /\ Cardinality(S) \in Nat /\ Cardinality(S) <= n
  BY <1>1, FS_Subset, FS_CardinalityType
<1> DEFINE k == Cardinality(S)
<1>3. IsFiniteSet(1..k) /\ Cardinality(1..k) = k
  BY <1>2, FirstNumbers
<1>4. ASSUME NEW i \in S PROVE i <= k
  <2>1. i \in Nat /\ 1..i \subseteq S
    OBVIOUS
  <2>2. Cardinality(1..i) = i
    BY <2>1, FirstNumbers
  <2> QED
    BY <1>2, <2>1, <2>2, FS_Subset
<1>5. S \in SUBSET (1..k)
  BY <1>2, <1>4
<1>6. S = 1..k
  BY <1>3, <1>5, FS_Subset
<1> QED
  BY <1>2, <1>6

\* The first element of a sequence, as a sequence.
LEMMA FirstOnly ==
    ASSUME NEW T, NEW s \in Seq(T), s # <<>>
    PROVE  SubSeq(s, 1, 1) = <<Head(s)>>
<1>1. Len(s) \in Nat \ {0} /\ s[1] \in T /\ Head(s) = s[1]
  BY EmptySeq
<1> DEFINE a == SubSeq(s, 1, 1)
           b == <<s[1]>>
<1>2. a \in Seq(T) /\ Len(a) = 1 /\ a[1] = s[1]
  BY <1>1
<1>3. b \in Seq(T) /\ Len(b) = 1 /\ b[1] = s[1]
  BY <1>1
<1> HIDE DEF a, b
<1>4. \A i \in 1..Len(a) : a[i] = b[i]
  BY <1>2, <1>3
<1>5. a = b
  BY <1>2, <1>3, <1>4, SeqEqual
<1> QED
  BY <1>1, <1>5 DEF a, b

-----------------------------------------------------------------------------
\* The order of OIDs.
LEMMA PrefixIs ==
    ASSUME NEW T, NEW a \in Seq(T), NEW b \in Seq(T)
    PROVE  IsPrefix(a, b) <=>
             Len(a) <= Len(b) /\ \A i \in 1..Len(a) : a[i] = b[i]
<1>1. Len(a) \in Nat /\ Len(b) \in Nat
  OBVIOUS
<1>2. /\ SubSeq(a, 1, Len(a)) \in Seq(T)
      /\ Len(SubSeq(a, 1, Len(a))) = Len(a)
      /\ \A i \in 1..Len(a) : SubSeq(a, 1, Len(a))[i] = a[i]
  OBVIOUS
<1>3. CASE Len(a) <= Len(b)
  <2>1. /\ SubSeq(b, 1, Len(a)) \in Seq(T)
        /\ Len(SubSeq(b, 1, Len(a))) = Len(a)
        /\ \A i \in 1..Len(a) : SubSeq(b, 1, Len(a))[i] = b[i]
    BY <1>1, <1>3
  <2>2. SubSeq(a, 1, Len(a)) = SubSeq(b, 1, Len(a)) <=>
          \A i \in 1..Len(a) : SubSeq(a, 1, Len(a))[i] = SubSeq(b, 1, Len(a))[i]
    BY <1>2, <2>1, SeqEqual
  <2> QED
    BY <1>2, <1>3, <2>1, <2>2 DEF IsPrefix
<1>4. CASE ~(Len(a) <= Len(b))
  BY <1>4 DEF IsPrefix
<1> QED
  BY <1>3, <1>4

LEMMA OidPrefixIs ==
    ASSUME NEW a \in Seq(Nat), NEW b \in Seq(Nat)
    PROVE  IsPrefix(a, b) <=>
             Len(a) <= Len(b) /\ \A i \in 1..Len(a) : a[i] = b[i]
BY PrefixIs, ZenonT(60)

\* Two OIDs agree up to some position and part there, or one ends there.
LEMMA Parting ==
    ASSUME NEW a \in Oid, NEW b \in Oid
    PROVE  \E k \in Nat :
             /\ k <= Len(a) /\ k <= Len(b)
             /\ \A j \in 1..k : a[j] = b[j]
             /\ k = Len(a) \/ k = Len(b) \/ a[k + 1] # b[k + 1]
<1>1. Len(a) \in Nat /\ Len(b) \in Nat
  BY DEF Oid
<1> DEFINE S == {i \in 1..Len(a) : i <= Len(b) /\ \A j \in 1..i : a[j] = b[j]}
           k == Cardinality(S)
<1>2. k \in 0..Len(a) /\ S = 1..k
  <2>1. \A i \in S : \A j \in 1..i : j \in S
    BY <1>1
  <2>2. S \in SUBSET (1..Len(a))
    OBVIOUS
  <2> HIDE DEF S
  <2> QED
    BY <1>1, <2>1, <2>2, NoGaps
<1>3. \A i \in 1..Len(a) : i <= k <=> (i <= Len(b) /\ \A j \in 1..i : a[j] = b[j])
  <2>1. \A i \in 1..Len(a) : i \in S <=> (i <= Len(b) /\ \A j \in 1..i : a[j] = b[j])
    OBVIOUS
  <2> HIDE DEF S
  <2> QED
    BY <1>2, <2>1
<1> HIDE DEF S, k
<1>4. k <= Len(b) /\ \A j \in 1..k : a[j] = b[j]
  <2>1. CASE k = 0
    BY <1>1, <2>1
  <2>2. CASE k # 0
    BY <1>1, <1>2, <1>3, <2>2
  <2> QED
    BY <2>1, <2>2
<1>5. k # Len(a) /\ k # Len(b) => a[k + 1] # b[k + 1]
  <2> SUFFICES ASSUME k # Len(a), k # Len(b), a[k + 1] = b[k + 1]
               PROVE  FALSE
    OBVIOUS
  <2>1. k + 1 \in 1..Len(a) /\ k + 1 <= Len(b)
    BY <1>1, <1>2, <1>4
  <2>2. \A j \in 1..(k + 1) : a[j] = b[j]
    BY <1>2, <1>4
  <2>3. k + 1 <= k
    BY <1>3, <2>1, <2>2
  <2> QED
    BY <1>2, <2>3
<1>6. k \in Nat /\ k <= Len(a)
  BY <1>2
<1> QED
  BY <1>4, <1>5, <1>6

\* OIDs with no parting are equal.
LEMMA SameOid ==
    ASSUME NEW a \in Oid, NEW b \in Oid, Len(a) = Len(b),
           \A j \in 1..Len(a) : a[j] = b[j]
    PROVE  a = b
BY SeqEqual DEF Oid

\* What the order says, position by position.
LessAt(a, b, i) ==
    /\ i \in 1..Len(a) /\ i \in 1..Len(b)
    /\ a[i] < b[i] /\ \A j \in 1..(i - 1) : a[j] = b[j]

LEMMA LexLessIs ==
    ASSUME NEW a \in Oid, NEW b \in Oid
    PROVE  LexLess(a, b) <=>
             \/ Len(a) < Len(b) /\ \A i \in 1..Len(a) : a[i] = b[i]
             \/ \E i \in Nat : LessAt(a, b, i)
<1>1. /\ a \in Seq(Nat) /\ b \in Seq(Nat)
      /\ DOMAIN a = 1..Len(a) /\ DOMAIN b = 1..Len(b)
      /\ Len(a) \in Nat /\ Len(b) \in Nat
  BY DEF Oid
<1>2. IsStrictPrefix(a, b) <=>
        Len(a) < Len(b) /\ \A i \in 1..Len(a) : a[i] = b[i]
  <2>1. IsPrefix(a, b) <=> Len(a) <= Len(b) /\ \A i \in 1..Len(a) : a[i] = b[i]
    <3>1. a \in Seq(Nat) /\ b \in Seq(Nat)
      BY <1>1
    <3> QED
      BY <3>1, OidPrefixIs
  <2>2. Len(a) = Len(b) /\ (\A i \in 1..Len(a) : a[i] = b[i]) => a = b
    BY SameOid
  <2>3. ASSUME IsStrictPrefix(a, b)
        PROVE  Len(a) < Len(b) /\ \A i \in 1..Len(a) : a[i] = b[i]
    <3>1. IsPrefix(a, b) /\ a # b
      BY <2>3 DEF IsStrictPrefix
    <3>2. Len(a) <= Len(b) /\ \A i \in 1..Len(a) : a[i] = b[i]
      BY <2>1, <3>1, Zenon
    <3>3. Len(a) # Len(b)
      BY <2>2, <3>1, <3>2, Zenon
    <3>4. Len(a) < Len(b)
      <4>1. Len(a) \in Nat /\ Len(b) \in Nat
        BY <1>1
      <4> QED
        BY <3>2, <3>3, <4>1
    <3> QED
      BY <3>2, <3>4
  <2>4. ASSUME Len(a) < Len(b), \A i \in 1..Len(a) : a[i] = b[i]
        PROVE  IsStrictPrefix(a, b)
    <3>1. Len(a) <= Len(b) /\ a # b
      BY <1>1, <2>4
    <3> QED
      BY <2>1, <2>4, <3>1 DEF IsStrictPrefix
  <2> QED
    BY <2>3, <2>4
<1>3. (\E i \in DOMAIN a \cap DOMAIN b :
          a[i] < b[i] /\ \A j \in 1..(i - 1) : a[j] = b[j])
      <=> \E i \in Nat : LessAt(a, b, i)
  <2>1. ASSUME NEW i \in Nat
        PROVE  LessAt(a, b, i) <=>
                 /\ i \in DOMAIN a \cap DOMAIN b
                 /\ a[i] < b[i] /\ \A j \in 1..(i - 1) : a[j] = b[j]
    BY <1>1 DEF LessAt
  <2>2. \A i \in DOMAIN a \cap DOMAIN b : i \in Nat
    BY <1>1
  <2> QED
    BY <2>1, <2>2, Zenon
<1> QED
  BY <1>2, <1>3 DEF LexLess

LEMMA LexTotal ==
    ASSUME NEW a \in Oid, NEW b \in Oid
    PROVE  LexLess(a, b) \/ a = b \/ LexLess(b, a)
<1>1. /\ Len(a) \in Nat /\ Len(b) \in Nat
      /\ \A i \in 1..Len(a) : a[i] \in Nat
      /\ \A i \in 1..Len(b) : b[i] \in Nat
  BY DEF Oid
<1>2. PICK k \in Nat :
        /\ k <= Len(a) /\ k <= Len(b)
        /\ \A j \in 1..k : a[j] = b[j]
        /\ k = Len(a) \/ k = Len(b) \/ a[k + 1] # b[k + 1]
  BY Parting
<1>3. CASE k = Len(a) /\ k = Len(b)
  BY <1>2, <1>3, SameOid
<1>4. CASE k = Len(a) /\ k < Len(b)
  BY <1>2, <1>4, LexLessIs
<1>5. CASE k < Len(a) /\ k = Len(b)
  BY <1>2, <1>5, LexLessIs
<1>6. CASE k < Len(a) /\ k < Len(b)
  <2>1. k + 1 \in 1..Len(a) /\ k + 1 \in 1..Len(b) /\ (k + 1) - 1 = k
    BY <1>1, <1>6
  <2>2. a[k + 1] < b[k + 1] \/ b[k + 1] < a[k + 1]
    BY <1>1, <1>2, <1>6, <2>1
  <2>3. LessAt(a, b, k + 1) \/ LessAt(b, a, k + 1)
    BY <1>2, <2>1, <2>2 DEF LessAt
  <2> QED
    BY <2>3, LexLessIs, k + 1 \in Nat
<1> QED
  BY <1>1, <1>2, <1>3, <1>4, <1>5, <1>6

LEMMA LexAsymmetric ==
    ASSUME NEW a \in Oid, NEW b \in Oid, LexLess(a, b)
    PROVE  ~LexLess(b, a) /\ a # b
<1>1. /\ Len(a) \in Nat /\ Len(b) \in Nat
      /\ \A i \in 1..Len(a) : a[i] \in Nat
      /\ \A i \in 1..Len(b) : b[i] \in Nat
  BY DEF Oid
<1>2. CASE Len(a) < Len(b) /\ \A i \in 1..Len(a) : a[i] = b[i]
  BY <1>1, <1>2, LexLessIs DEF LessAt
<1>3. CASE \E i \in Nat : LessAt(a, b, i)
  <2>1. PICK i \in Nat : LessAt(a, b, i)
    BY <1>3
  <2>2. a # b
    BY <1>1, <2>1 DEF LessAt
  <2>3. ~(Len(b) < Len(a) /\ \A j \in 1..Len(b) : b[j] = a[j])
    BY <1>1, <2>1 DEF LessAt
  <2>4. ASSUME NEW j \in Nat, LessAt(b, a, j)
        PROVE  FALSE
    BY <1>1, <2>1, <2>4 DEF LessAt
  <2> QED
    BY <2>2, <2>3, <2>4, LexLessIs
<1> QED
  BY <1>2, <1>3, LexLessIs

LEMMA LexTransitive ==
    ASSUME NEW a \in Oid, NEW b \in Oid, NEW c \in Oid,
           LexLess(a, b), LexLess(b, c)
    PROVE  LexLess(a, c)
<1>1. /\ Len(a) \in Nat /\ Len(b) \in Nat /\ Len(c) \in Nat
      /\ \A i \in 1..Len(a) : a[i] \in Nat
      /\ \A i \in 1..Len(b) : b[i] \in Nat
      /\ \A i \in 1..Len(c) : c[i] \in Nat
  BY DEF Oid
<1> DEFINE Starts(x, y) == Len(x) < Len(y) /\ \A i \in 1..Len(x) : x[i] = y[i]
<1>2. CASE Starts(a, b) /\ Starts(b, c)
  BY <1>1, <1>2, LexLessIs
<1>3. ASSUME NEW i \in Nat, LessAt(a, b, i), Starts(b, c)
      PROVE  LexLess(a, c)
  <2>1. LessAt(a, c, i)
    BY <1>1, <1>3 DEF LessAt
  <2> QED
    BY <2>1, LexLessIs
<1>4. ASSUME Starts(a, b), NEW i \in Nat, LessAt(b, c, i)
      PROVE  LexLess(a, c)
  <2>1. CASE i <= Len(a)
    <3>1. LessAt(a, c, i)
      BY <1>1, <1>4, <2>1 DEF LessAt
    <3> QED
      BY <3>1, LexLessIs
  <2>2. CASE Len(a) < i
    <3>1. Starts(a, c)
      BY <1>1, <1>4, <2>2 DEF LessAt
    <3> QED
      BY <3>1, LexLessIs
  <2> QED
    BY <1>1, <2>1, <2>2
<1>5. ASSUME NEW i \in Nat, NEW j \in Nat, LessAt(a, b, i), LessAt(b, c, j)
      PROVE  LexLess(a, c)
  <2>1. CASE i < j
    <3>1. LessAt(a, c, i)
      BY <1>1, <1>5, <2>1 DEF LessAt
    <3> QED
      BY <3>1, LexLessIs
  <2>2. CASE i = j
    <3>1. LessAt(a, c, i)
      BY <1>1, <1>5, <2>2 DEF LessAt
    <3> QED
      BY <3>1, LexLessIs
  <2>3. CASE j < i
    <3>1. LessAt(a, c, j)
      BY <1>1, <1>5, <2>3 DEF LessAt
    <3> QED
      BY <3>1, LexLessIs
  <2> QED
    BY <2>1, <2>2, <2>3
<1>6. Starts(a, b) \/ \E i \in Nat : LessAt(a, b, i)
  BY LexLessIs
<1>7. Starts(b, c) \/ \E i \in Nat : LessAt(b, c, i)
  BY LexLessIs
<1> QED
  BY <1>2, <1>3, <1>4, <1>5, <1>6, <1>7

-----------------------------------------------------------------------------
\* Where an OID stands in the MIB.
LEMMA MibType ==
    /\ Mib \in Seq(Oid) /\ Len(Mib) \in Nat /\ DOMAIN Mib = 1..Len(Mib)
    /\ \A i \in 1..Len(Mib) : Mib[i] \in Oid
    /\ \A i, j \in 1..Len(Mib) : i < j => LexLess(Mib[i], Mib[j])
<1>1. Mib \in Seq(Oid) /\ DOMAIN Mib = 1..Len(Mib)
  BY MibAssumption
<1> QED
  BY <1>1, MibAssumption

\* The instances at or before it are those up to its position.
LEMMA PositionCuts ==
    ASSUME NEW oid \in Oid
    PROVE  /\ Position(oid) \in 0..Len(Mib)
           /\ \A i \in 1..Len(Mib) :
                /\ i <= Position(oid) <=> Mib[i] = oid \/ LexLess(Mib[i], oid)
                /\ i > Position(oid) <=> LexLess(oid, Mib[i])
<1> DEFINE S == {i \in DOMAIN Mib : Mib[i] = oid \/ LexLess(Mib[i], oid)}
<1>1. ASSUME NEW i \in S, NEW j \in 1..i
      PROVE  j \in S
  <2>1. /\ i \in 1..Len(Mib) /\ j \in 1..Len(Mib) /\ (j = i \/ j < i)
        /\ Mib[i] \in Oid /\ Mib[j] \in Oid
    BY MibType
  <2>2. CASE j = i
    BY <2>2
  <2>3. CASE j < i
    <3>1. LexLess(Mib[j], Mib[i])
      BY <2>1, <2>3, MibType
    <3>2. CASE Mib[i] = oid
      BY <2>1, <3>1, <3>2, MibType
    <3>3. CASE LexLess(Mib[i], oid)
      <4>1. LexLess(Mib[j], oid)
        BY <2>1, <3>1, <3>3, LexTransitive
      <4> QED
        BY <2>1, <4>1, MibType
    <3> QED
      BY <3>2, <3>3
  <2> QED
    BY <2>1, <2>2, <2>3
<1>2. S \in SUBSET (1..Len(Mib))
  BY MibType
<1>3. Position(oid) = Cardinality(S)
  BY DEF Position
<1>4. \A i \in 1..Len(Mib) : i \in S <=> Mib[i] = oid \/ LexLess(Mib[i], oid)
  BY MibType
<1> HIDE DEF S
<1>5. Position(oid) \in 0..Len(Mib) /\ S = 1..Position(oid)
  BY <1>1, <1>2, <1>3, MibType, NoGaps
<1>6. ASSUME NEW i \in 1..Len(Mib)
      PROVE  LexLess(oid, Mib[i]) <=> ~(Mib[i] = oid \/ LexLess(Mib[i], oid))
  <2>1. Mib[i] \in Oid
    BY MibType
  <2> QED
    BY <2>1, LexTotal, LexAsymmetric
<1>7. \A i \in 1..Len(Mib) : i > Position(oid) <=> i \notin S
  BY <1>5
<1> QED
  BY <1>4, <1>5, <1>6, <1>7

\* An instance stands at its own index.
LEMMA PositionOfInstance ==
    ASSUME NEW j \in 1..Len(Mib)
    PROVE  Position(Mib[j]) = j
<1>1. Mib[j] \in Oid
  BY MibType
<1>2. j <= Position(Mib[j]) /\ Position(Mib[j]) \in 0..Len(Mib)
  BY <1>1, PositionCuts
<1>3. ASSUME j < Position(Mib[j])
      PROVE  FALSE
  <2>1. j + 1 \in 1..Len(Mib) /\ j + 1 <= Position(Mib[j]) /\ j < j + 1
    BY <1>2, <1>3
  <2>2. LexLess(Mib[j], Mib[j + 1])
    BY <2>1, MibType
  <2>3. j + 1 > Position(Mib[j])
    BY <1>1, <2>1, <2>2, PositionCuts
  <2> QED
    BY <1>2, <2>1, <2>3
<1> QED
  BY <1>2, <1>3

-----------------------------------------------------------------------------
\* The instances below a root follow one another, the first ones past it.

\* Of two instances past the root, if the later is below it so is the earlier.
LEMMA BetweenIsBelow ==
    ASSUME NEW root \in Oid, NEW a \in Oid, NEW b \in Oid,
           LexLess(root, a), LexLess(a, b), IsStrictPrefix(root, b)
    PROVE  IsStrictPrefix(root, a)
<1>1. /\ Len(root) \in Nat /\ Len(a) \in Nat /\ Len(b) \in Nat
      /\ \A i \in 1..Len(root) : root[i] \in Nat
      /\ \A i \in 1..Len(a) : a[i] \in Nat
      /\ root \in Seq(Nat) /\ a \in Seq(Nat) /\ b \in Seq(Nat)
  BY DEF Oid
<1>2. Len(root) <= Len(b) /\ \A i \in 1..Len(root) : root[i] = b[i]
  <2>1. IsPrefix(root, b) /\ root \in Seq(Nat) /\ b \in Seq(Nat)
    BY <1>1 DEF IsStrictPrefix
  <2> QED
    BY <2>1, OidPrefixIs
<1>3. root # a
  BY LexAsymmetric
<1>4. CASE Len(root) < Len(a) /\ \A i \in 1..Len(root) : root[i] = a[i]
  <2>1. Len(root) <= Len(a)
    BY <1>1, <1>4
  <2>2. IsPrefix(root, a)
    BY <1>1, <1>4, <2>1, OidPrefixIs
  <2> QED
    BY <1>3, <2>2 DEF IsStrictPrefix
<1>5. ASSUME NEW i \in Nat, LessAt(root, a, i)
      PROVE  FALSE
  <2>1. LessAt(b, a, i)
    BY <1>1, <1>2, <1>5 DEF LessAt
  <2>2. LexLess(b, a)
    BY <2>1, LexLessIs
  <2> QED
    BY <2>2, LexAsymmetric
<1> QED
  BY <1>4, <1>5, LexLessIs

LEMMA BelowFollows ==
    ASSUME NEW root \in Oid
    PROVE  LET p == Position(root)
               c == Cardinality(Below(root))
           IN  /\ p \in Nat /\ c \in Nat /\ p + c <= Len(Mib)
               /\ Below(root) = (p + 1)..(p + c)
<1> DEFINE p == Position(root)
           B == Below(root)
           c == Cardinality(B)
           U == (1..p) \cup B
<1>1. p \in 0..Len(Mib)
  BY PositionCuts
<1>2. ASSUME NEW i \in B
      PROVE  i \in 1..Len(Mib) /\ i > p /\ IsStrictPrefix(root, Mib[i])
  <2>1. i \in 1..Len(Mib) /\ IsStrictPrefix(root, Mib[i])
    BY MibType DEF Below
  <2>2. LexLess(root, Mib[i])
    BY <2>1 DEF LexLess
  <2> QED
    BY <2>1, <2>2, PositionCuts
<1>3. \A i \in 1..Len(Mib) : IsStrictPrefix(root, Mib[i]) => i \in B
  BY MibType DEF Below
<1> HIDE DEF p, B
<1>4. ASSUME NEW i \in B, NEW j \in 1..i, j > p
      PROVE  j \in B
  <2>1. i \in 1..Len(Mib) /\ j \in 1..Len(Mib) /\ (j = i \/ j < i)
    BY <1>2
  <2>2. CASE j < i
    <3>1. Mib[i] \in Oid /\ Mib[j] \in Oid /\ LexLess(Mib[j], Mib[i])
      BY <2>1, <2>2, MibType
    <3>2. LexLess(root, Mib[j])
      BY <1>4, <2>1, PositionCuts DEF p
    <3>3. IsStrictPrefix(root, Mib[i])
      BY <1>2
    <3>4. IsStrictPrefix(root, Mib[j])
      BY <3>1, <3>2, <3>3, BetweenIsBelow
    <3> QED
      BY <1>3, <2>1, <3>4
  <2> QED
    BY <2>1, <2>2
<1>5. U \in SUBSET (1..Len(Mib))
  BY <1>1, <1>2
<1>6. \A i \in U : \A j \in 1..i : j \in U
  BY <1>1, <1>2, <1>4
<1>7. U = 1..Cardinality(U) /\ Cardinality(U) \in 0..Len(Mib) /\ IsFiniteSet(U)
  <2> HIDE DEF U
  <2> QED
    BY <1>5, <1>6, NoGaps, MibType
<1>8. Cardinality(U) = p + c /\ c \in Nat
  <2>1. IsFiniteSet(1..p) /\ Cardinality(1..p) = p
    BY <1>1, FirstNumbers
  <2>2. IsFiniteSet(B)
    BY <1>7, FS_Subset, B \in SUBSET U
  <2>3. (1..p) \cap B = {}
    BY <1>1, <1>2
  <2>4. Cardinality(U) = Cardinality(1..p) + Cardinality(B) - Cardinality((1..p) \cap B)
    BY <2>1, <2>2, FS_Union
  <2>5. Cardinality((1..p) \cap B) = 0 /\ c \in Nat
    BY <2>2, <2>3, FS_EmptySet, FS_CardinalityType
  <2> QED
    BY <1>1, <2>1, <2>4, <2>5
<1>9. ASSUME NEW i
      PROVE  i \in B <=> i \in (p + 1)..(p + c)
  <2>1. i \in B <=> i \in U /\ i \notin 1..p
    BY <1>1, <1>2
  <2>2. i \in U <=> i \in 1..(p + c)
    BY <1>7, <1>8
  <2> HIDE DEF U, c
  <2> QED
    BY <1>1, <1>8, <2>1, <2>2
<1>10. B = (p + 1)..(p + c) /\ p \in Nat /\ p + c <= Len(Mib)
  <2> HIDE DEF U, c
  <2>1. B = (p + 1)..(p + c)
    BY <1>9
  <2>2. p + c <= Len(Mib)
    BY <1>7, <1>8
  <2> QED
    BY <1>1, <2>1, <2>2
<1> QED
  BY <1>8, <1>10 DEF p, B

\* Subtree lists those instances, as values.
LEMMA SubtreeIs ==
    ASSUME NEW root \in Oid
    PROVE  /\ Subtree(root) \in Seq(VarBind)
           /\ Len(Subtree(root)) = Cardinality(Below(root))
           /\ \A k \in 1..Len(Subtree(root)) :
                 Subtree(root)[k] = [oid |-> Mib[Position(root) + k], value |-> "Value"]
<1> DEFINE p == Position(root)
           c == Cardinality(Below(root))
           part == SubSeq(Mib, p + 1, p + c)
<1>1. p \in Nat /\ c \in Nat /\ p + c <= Len(Mib)
  BY BelowFollows
<1>2. Subtree(root) = [i \in DOMAIN part |-> [oid |-> part[i], value |-> "Value"]]
  BY DEF Subtree, BindAll
<1> HIDE DEF p, c
<1>3. \A i \in (p + 1)..(p + c) : Mib[i] \in Oid
  BY <1>1, MibType
<1>4. /\ part \in Seq(Oid) /\ Len(part) = c
      /\ \A k \in 1..c : part[k] = Mib[p + k]
  <2>1. /\ part \in Seq(Oid)
        /\ Len(part) = IF p + 1 <= p + c THEN (p + c) - (p + 1) + 1 ELSE 0
        /\ \A k \in 1..((p + c) - (p + 1) + 1) : part[k] = Mib[(p + 1) + k - 1]
    BY <1>1, <1>3, SubSeqProperties, p + 1 \in Int, p + c \in Int
  <2>2. Len(part) = c /\ (p + c) - (p + 1) + 1 = c
    BY <1>1, <2>1
  <2>3. \A k \in 1..c : (p + 1) + k - 1 = p + k
    BY <1>1
  <2> HIDE DEF part
  <2> QED
    BY <2>1, <2>2, <2>3
<1> HIDE DEF part
<1>5. DOMAIN part = 1..c /\ \A k \in 1..c : part[k] \in Oid
  BY <1>1, <1>4
<1>6. Subtree(root) = [k \in 1..c |-> [oid |-> Mib[p + k], value |-> "Value"]]
  BY <1>2, <1>4, <1>5
<1>7. \A k \in 1..c : [oid |-> Mib[p + k], value |-> "Value"] \in VarBind
  BY <1>4, <1>5 DEF VarBind, Value
<1> QED
  BY <1>1, <1>6, <1>7 DEF p, c

-----------------------------------------------------------------------------
\* One exchange of a walk: the rows that follow an OID.
RowsAfter(oid, varbinds) ==
    \E r \in Nat \ {0} : varbinds = [k \in 1..r |-> Successor(oid, k)]

\* What the agent answers to either request of a walk, if it has no error.
LEMMA WalkReply ==
    ASSUME NEW version, NEW pdu \in Pdu, NEW oid \in Oid, pdu.oids = <<oid>>,
           \/ pdu.type = "GETNEXT"
           \/ /\ pdu.type = "GETBULK" /\ pdu.nonRepeaters = 0
              /\ pdu.maxRepetitions > 0,
           NEW reply \in Replies(version, pdu), reply.status = 0
    PROVE  RowsAfter(oid, reply.varbinds)
<1>1. Len(pdu.oids) = 1 /\ DOMAIN pdu.oids = 1..1 /\ pdu.oids[1] = oid
  OBVIOUS
<1>2. CASE pdu.type = "GETNEXT"
  <2>1. reply = GetNextReply(version, pdu.oids)
    BY <1>2 DEF Replies
  <2>2. reply = NoErrorReply([i \in DOMAIN pdu.oids |-> Successor(pdu.oids[i], 1)])
    BY <2>1 DEF GetNextReply, ErrorReply
  <2>3. reply.varbinds = [k \in 1..1 |-> Successor(oid, k)]
    BY <1>1, <2>2 DEF NoErrorReply
  <2> QED
    BY <2>3 DEF RowsAfter
<1>3. CASE pdu.type = "GETBULK" /\ pdu.nonRepeaters = 0 /\ pdu.maxRepetitions > 0
  <2>1. reply \in BulkReplies(pdu)
    BY <1>3 DEF Replies
  <2>2. BulkReplies(pdu) = {BulkReply(pdu.oids, 0, r) : r \in 1..pdu.maxRepetitions}
    BY <1>1, <1>3 DEF BulkReplies, Pdu
  <2>3. PICK r \in 1..pdu.maxRepetitions : reply = BulkReply(pdu.oids, 0, r)
    BY <2>1, <2>2
  <2>4. r \in Nat \ {0}
    BY <2>3 DEF Pdu
  <2> DEFINE once == [i \in 1..0 |-> Successor(pdu.oids[i], 1)]
             cell(k) == Successor(pdu.oids[0 + 1 + ((k - 1) % (Len(pdu.oids) - 0))],
                                  1 + ((k - 1) \div (Len(pdu.oids) - 0)))
             table == [k \in 1..(r * (Len(pdu.oids) - 0)) |-> cell(k)]
             rows == [k \in 1..r |-> Successor(oid, k)]
  <2>5. reply.varbinds = once \o table
    BY <2>3 DEF BulkReply, NoErrorReply
  <2>6. once = <<>>
    OBVIOUS
  <2>7. table = rows
    <3>1. Len(pdu.oids) - 0 = 1 /\ r * 1 = r
      BY <1>1, <2>4
    <3>2. ASSUME NEW k \in 1..r
          PROVE  (k - 1) % 1 = 0 /\ (k - 1) \div 1 = k - 1
      BY <3>2
    <3>3. ASSUME NEW k \in 1..r
          PROVE  cell(k) = Successor(oid, k)
      <4>1. 0 + 1 + ((k - 1) % (Len(pdu.oids) - 0)) = 1
        BY <3>1, <3>2
      <4>2. 1 + ((k - 1) \div (Len(pdu.oids) - 0)) = k
        BY <3>1, <3>2
      <4> QED
        BY <1>1, <4>1, <4>2
    <3> HIDE DEF cell
    <3> QED
      BY <3>1, <3>3
  <2>8. rows \in Seq(VarBind)
    <3>1. \A k \in 1..r : Successor(oid, k) \in VarBind
      BY SuccessorType
    <3> QED
      BY <2>4, <3>1
  <2> HIDE DEF once, table, rows
  <2>9. reply.varbinds = rows
    BY <2>5, <2>6, <2>7, <2>8
  <2> QED
    BY <2>4, <2>9 DEF RowsAfter, rows
<1> QED
  BY <1>2, <1>3

\* It has an error for one of them only in version 1, past its last instance.
LEMMA WalkRefused ==
    ASSUME NEW version, NEW pdu \in Pdu, NEW oid \in Oid, pdu.oids = <<oid>>,
           pdu.type \in {"GETNEXT", "GETBULK"},
           NEW reply \in Replies(version, pdu), reply.status # 0
    PROVE  version = "V1" /\ pdu.type = "GETNEXT" /\ Position(oid) = Len(Mib)
<1>1. DOMAIN pdu.oids = 1..1 /\ pdu.oids[1] = oid
  OBVIOUS
<1>2. CASE pdu.type = "GETNEXT"
  <2>1. reply = GetNextReply(version, pdu.oids)
    BY <1>2 DEF Replies
  <2>2. version = "V1" /\ \E i \in DOMAIN pdu.oids : Position(pdu.oids[i]) = Len(Mib)
    BY <2>1 DEF GetNextReply, NoErrorReply
  <2> QED
    BY <1>1, <1>2, <2>2
<1>3. CASE pdu.type = "GETBULK"
  <2>1. reply \in BulkReplies(pdu)
    BY <1>3 DEF Replies
  <2>2. reply.status = 0
    BY <2>1 DEF BulkReplies, BulkReply, NoErrorReply
  <2> QED
    BY <2>2
<1> QED
  BY <1>2, <1>3

\* Kept stops at the first binding that stops the walk, and not before.
LEMMA KeptIs ==
    ASSUME NEW root \in Oid, NEW varbinds \in Seq(VarBind)
    PROVE  \A i \in DOMAIN varbinds :
             i <= Len(Kept(root, varbinds)) <=> \A j \in 1..i : ~Stops(root, varbinds[j])
<1> DEFINE S == NotStopped(root, varbinds)
           k == Cardinality(S)
<1>1. Len(varbinds) \in Nat /\ DOMAIN varbinds = 1..Len(varbinds)
  OBVIOUS
<1>2. \A i \in 1..Len(varbinds) : i \in S <=> \A j \in 1..i : ~Stops(root, varbinds[j])
  BY <1>1 DEF NotStopped
<1>3. S \in SUBSET (1..Len(varbinds))
  BY <1>1 DEF NotStopped
<1>4. \A i \in S : \A j \in 1..i : j \in S
  BY <1>1, <1>2, <1>3
<1> HIDE DEF S
<1>5. k \in 0..Len(varbinds) /\ S = 1..k
  BY <1>1, <1>3, <1>4, NoGaps
<1>6. Len(Kept(root, varbinds)) = k
  <2>1. Kept(root, varbinds) = SubSeq(varbinds, 1, k)
    BY DEF Kept, S
  <2> QED
    BY <1>5, <2>1
<1> QED
  BY <1>1, <1>2, <1>5, <1>6

\* What a walk has gathered: the first instances below its root, in order.
Gathered(root, results) ==
    /\ results \in Seq(VarBind)
    /\ Len(results) <= Len(Subtree(root))
    /\ \A k \in 1..Len(results) : results[k] = Subtree(root)[k]

\* It asks next from where the last of them stands.
LEMMA WalkPosition ==
    ASSUME NEW root \in Oid, NEW results, Gathered(root, results)
    PROVE  /\ WalkCurrent(root, results) \in Oid
           /\ Position(WalkCurrent(root, results)) = Position(root) + Len(results)
<1>1. /\ Position(root) \in Nat /\ results \in Seq(VarBind) /\ Len(results) \in Nat
      /\ Position(root) + Len(results) <= Len(Mib)
  BY BelowFollows, SubtreeIs, MibType DEF Gathered
<1>2. CASE results = <<>>
  BY <1>1, <1>2 DEF WalkCurrent
<1>3. CASE results # <<>>
  <2>1. Len(results) \in 1..Len(results)
    BY <1>1, <1>3, EmptySeq
  <2>2. results[Len(results)] = Subtree(root)[Len(results)]
        /\ Len(results) \in 1..Len(Subtree(root))
    BY <2>1 DEF Gathered
  <2>3. results[Len(results)].oid = Mib[Position(root) + Len(results)]
    <3>1. Subtree(root)[Len(results)] =
            [oid |-> Mib[Position(root) + Len(results)], value |-> "Value"]
      BY <2>2, SubtreeIs, Zenon
    <3> QED
      BY <2>2, <3>1
  <2>4. WalkCurrent(root, results) = Mib[Position(root) + Len(results)]
    BY <1>3, <2>3 DEF WalkCurrent, Last
  <2>5. Position(root) + Len(results) \in 1..Len(Mib)
    BY <1>1, <2>1, MibType
  <2> QED
    BY <2>4, <2>5, MibType, PositionOfInstance
<1> QED
  BY <1>2, <1>3

\* A walk that stands at the end of the MIB has gathered its subtree, which
\* ends there too.
LEMMA WalkAtEnd ==
    ASSUME NEW root \in Oid, NEW results, Gathered(root, results),
           Position(WalkCurrent(root, results)) = Len(Mib)
    PROVE  Position(root) + Cardinality(Below(root)) = Len(Mib)
<1>1. Position(root) + Len(results) = Len(Mib)
  BY WalkPosition
<1>2. Len(results) <= Cardinality(Below(root))
  BY SubtreeIs DEF Gathered
<1>3. /\ Position(root) \in Nat /\ Cardinality(Below(root)) \in Nat
      /\ Position(root) + Cardinality(Below(root)) <= Len(Mib)
      /\ Len(results) \in Nat /\ Len(Mib) \in Nat
  BY BelowFollows, MibType DEF Gathered
<1> QED
  BY <1>1, <1>2, <1>3

\* A binding some rows on stops the walk exactly if it is past the subtree.
LEMMA RowStops ==
    ASSUME NEW root \in Oid, NEW results, Gathered(root, results), NEW k \in Nat \ {0}
    PROVE  LET vb == Successor(WalkCurrent(root, results), k)
           IN  /\ Stops(root, vb) <=> Len(results) + k > Len(Subtree(root))
               /\ ~Stops(root, vb) => vb = Subtree(root)[Len(results) + k]
<1> DEFINE current == WalkCurrent(root, results)
           p == Position(root)
           n == Len(results)
           c == Cardinality(Below(root))
           q == p + n + k
<1>1. /\ p \in Nat /\ n \in Nat /\ c \in Nat /\ p + c <= Len(Mib) /\ n <= c
      /\ Below(root) = (p + 1)..(p + c) /\ Len(Subtree(root)) = c
  BY BelowFollows, SubtreeIs DEF Gathered
<1>2. current \in Oid /\ Position(current) = p + n
  BY WalkPosition
<1>3. Successor(current, k) =
        IF q <= Len(Mib) THEN [oid |-> Mib[q], value |-> "Value"]
        ELSE [oid |-> IF p + n < Len(Mib) THEN Mib[Len(Mib)] ELSE current,
              value |-> "EndOfMibView"]
  BY <1>2 DEF Successor
<1>4. n + k \in 1..c => Subtree(root)[n + k] = [oid |-> Mib[p + (n + k)], value |-> "Value"]
  BY <1>1, SubtreeIs
<1>5. q \in Nat /\ q > p /\ p + (n + k) = q /\ (n + k > c <=> q > p + c) /\ n + k >= 1
  BY <1>1
<1> HIDE DEF current, p, n, c, q
<1>6. CASE q <= Len(Mib)
  <2>1. q \in 1..Len(Mib) /\ Mib[q] \in Oid
    BY <1>1, <1>5, <1>6, MibType
  <2>2. Mib[q] # root
    BY <1>1, <1>5, <2>1, PositionCuts DEF p
  <2>3. IsPrefix(root, Mib[q]) <=> q \in Below(root)
    BY <2>1, <2>2, MibType DEF Below, IsStrictPrefix
  <2>4. Stops(root, Successor(current, k)) <=> ~IsPrefix(root, Mib[q])
    BY <1>3, <1>6 DEF Stops, EndMarkers
  <2>5. q \in Below(root) <=> ~(n + k > c)
    BY <1>1, <1>5
  <2>6. ~(n + k > c) => n + k \in 1..c
    BY <1>1, <1>5
  <2> QED
    BY <1>1, <1>3, <1>4, <1>5, <1>6, <2>3, <2>4, <2>5, <2>6 DEF current, n
<1>7. CASE ~(q <= Len(Mib))
  <2>1. Stops(root, Successor(current, k))
    BY <1>3, <1>7 DEF Stops, EndMarkers
  <2>2. n + k > c
    BY <1>1, <1>5, <1>7, MibType
  <2> QED
    BY <1>1, <2>1, <2>2 DEF current, n
<1> QED
  BY <1>6, <1>7

\* An exchange in step adds to what a walk has gathered what comes next, and
\* if it ends the walk nothing is left to gather.
LEMMA WalkGoesOn ==
    ASSUME NEW root \in Oid, NEW results, Gathered(root, results),
           NEW current, current = WalkCurrent(root, results),
           NEW varbinds, RowsAfter(current, varbinds)
    PROVE  LET kept == Kept(root, varbinds)
               more == results \o kept
           IN  /\ Gathered(root, more)
               /\ WalkCurrent(current, kept) = WalkCurrent(root, more)
               /\ WalkDone(root, varbinds) => more = Subtree(root)
<1>1. PICK r \in Nat \ {0} : varbinds = [k \in 1..r |-> Successor(current, k)]
  BY DEF RowsAfter
<1>2. current \in Oid /\ results \in Seq(VarBind) /\ Len(results) \in Nat
  BY WalkPosition DEF Gathered
<1>3. varbinds \in Seq(VarBind) /\ DOMAIN varbinds = 1..r /\ Len(varbinds) = r
  <2>1. \A k \in 1..r : Successor(current, k) \in VarBind
    BY <1>2, SuccessorType
  <2> QED
    BY <1>1, <2>1
<1> DEFINE kept == Kept(root, varbinds)
           more == results \o kept
           n == Len(results)
           c == Len(Subtree(root))
<1>4. /\ kept \in Seq(VarBind) /\ Len(kept) <= r /\ Len(kept) \in Nat
      /\ \A i \in 1..Len(kept) : kept[i] = varbinds[i] /\ ~Stops(root, varbinds[i])
  <2>1. kept \in Seq(VarBind)
    BY <1>3, KeptPrefix
  <2>2. Len(kept) \in Nat
    BY <2>1
  <2> QED
    BY <1>3, <2>1, <2>2, KeptPrefix
<1>5. c \in Nat /\ Subtree(root) \in Seq(VarBind) /\ n <= c
  BY SubtreeIs DEF Gathered
<1>6. ASSUME NEW i \in 1..r
      PROVE  /\ Stops(root, varbinds[i]) <=> n + i > c
             /\ ~Stops(root, varbinds[i]) => varbinds[i] = Subtree(root)[n + i]
  <2>1. varbinds[i] = Successor(WalkCurrent(root, results), i)
    BY <1>1
  <2> QED
    BY <2>1, RowStops
<1>7. \A i \in 1..r : i <= Len(kept) <=> \A j \in 1..i : ~Stops(root, varbinds[j])
  BY <1>3, KeptIs
<1> HIDE DEF kept
<1>8. n + Len(kept) <= c
  <2>1. CASE Len(kept) = 0
    BY <1>2, <1>5, <2>1
  <2>2. CASE Len(kept) # 0
    <3>1. Len(kept) \in 1..Len(kept) /\ Len(kept) \in 1..r
      BY <1>4, <2>2
    <3> QED
      BY <1>2, <1>4, <1>5, <1>6, <3>1
  <2> QED
    BY <2>1, <2>2
<1>9. /\ more \in Seq(VarBind) /\ Len(more) = n + Len(kept)
      /\ \A k \in 1..(n + Len(kept)) :
           more[k] = IF k <= n THEN results[k] ELSE kept[k - n]
  BY <1>2, <1>4, ConcatProperties
<1> HIDE DEF more
<1>10. ASSUME NEW k \in 1..Len(more)
       PROVE  more[k] = Subtree(root)[k]
  <2>1. CASE k <= n
    BY <1>2, <1>4, <1>9, <2>1 DEF Gathered
  <2>2. CASE k > n
    <3>1. k - n \in 1..Len(kept) /\ k - n \in 1..r /\ n + (k - n) = k
      BY <1>2, <1>4, <1>9, <2>2
    <3> QED
      BY <1>2, <1>4, <1>6, <1>9, <2>2, <3>1
  <2> QED
    BY <1>2, <1>9, <2>1, <2>2
<1>11. Gathered(root, more)
  BY <1>8, <1>9, <1>10 DEF Gathered
<1>12. WalkCurrent(current, kept) = WalkCurrent(root, more)
  <2>1. CASE kept = <<>>
    <3>1. Len(kept) = 0
      BY <2>1
    <3>2. more = results
      BY <1>2, <1>9, <3>1, SeqEqual
    <3> QED
      BY <2>1, <3>2 DEF WalkCurrent
  <2>2. CASE kept # <<>>
    <3>1. Len(kept) \in Nat \ {0}
      BY <1>4, <2>2, EmptySeq
    <3>2. n + Len(kept) \in 1..Len(more) /\ ~(n + Len(kept) <= n)
          /\ (n + Len(kept)) - n = Len(kept)
      BY <1>2, <1>9, <3>1
    <3>3. more[Len(more)] = kept[Len(kept)]
      BY <1>9, <3>2
    <3>4. more # <<>>
      BY <1>9, <1>2, <3>1
    <3> QED
      BY <2>2, <3>3, <3>4 DEF WalkCurrent, Last
  <2> QED
    BY <2>1, <2>2
<1>13. ASSUME WalkDone(root, varbinds)
       PROVE  more = Subtree(root)
  <2>1. PICK i \in 1..r : Stops(root, varbinds[i])
    BY <1>1, <1>3, <1>13, EmptySeq DEF WalkDone
  <2>2. n + i > c
    BY <1>6, <2>1
  <2>3. c - n <= Len(kept)
    <3>1. CASE c - n = 0
      BY <1>4, <3>1
    <3>2. CASE c - n # 0
      <4>1. c - n \in 1..r
        BY <1>2, <1>5, <2>2, <3>2
      <4>2. \A j \in 1..(c - n) : j \in 1..r /\ ~(n + j > c)
        BY <1>2, <1>5, <4>1
      <4>3. \A j \in 1..(c - n) : ~Stops(root, varbinds[j])
        BY <1>6, <4>2
      <4> QED
        BY <1>7, <4>1, <4>3
    <3> QED
      BY <3>1, <3>2
  <2>4. Len(more) = c
    BY <1>2, <1>4, <1>5, <1>8, <1>9, <2>3
  <2> QED
    BY <1>5, <1>9, <1>10, <2>4, SeqEqual
<1> QED
  BY <1>11, <1>12, <1>13 DEF kept, more

=============================================================================
