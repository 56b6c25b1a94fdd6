--------------------------- MODULE BerDecoderProofs ---------------------------
(***************************************************************************)
(* Proofs about BerDecoder, for every message, every width of the machine's*)
(* integers, and wherever a message is cut or changed.                     *)
(***************************************************************************)
EXTENDS BerDecoder, BerProofs

-----------------------------------------------------------------------------
\* The decoders.

Slices ==
    {f \in [data : Seq(Byte), pos : Nat] :
        f.pos <= Len(f.data) /\ 2 * Len(f.data) < 256^U64Bytes}

\* Nested, of any stack of decoders.
NestedIn(stack) ==
    \A i \in 2..Len(stack) :
        LET inner == stack[i - 1].data
            outer == stack[i]
        IN  /\ Len(inner) <= outer.pos
            /\ inner = SubSeq(outer.data, outer.pos - Len(inner) + 1, outer.pos)

\* Where each decoder's slice starts in the message: it lies in what the outer
\* decoder has read past.
Placed(stack, start) ==
    /\ start \in [1..Len(stack) -> Nat]
    /\ \A i \in 2..Len(stack) :
          start[i - 1] + Len(stack[i - 1].data) <= start[i] + stack[i].pos
    /\ \A i \in 1..Len(stack) :
          start[i] + Len(stack[i].data) <= Len(stack[Len(stack)].data)

\* The stack whose innermost decoder has moved on to a position.
AdvancedOn(stack, pos) == <<[Head(stack) EXCEPT !.pos = pos]>> \o Tail(stack)

LEMMA SliceIs ==
    ASSUME NEW f \in Slices
    PROVE  /\ f = [data |-> f.data, pos |-> f.pos]
           /\ f.data \in Seq(Byte) /\ f.pos \in Nat /\ f.pos <= Len(f.data)
           /\ Len(f.data) \in Nat /\ 2 * Len(f.data) < 256^U64Bytes
BY DEF Slices

LEMMA NonEmpty ==
    ASSUME NEW S, NEW s \in Seq(S), s # <<>>
    PROVE  /\ Len(s) \in Nat \ {0} /\ 1 \in 1..Len(s)
           /\ \A i \in 1..Len(s) : s[i] \in S
OBVIOUS

LEMMA AdvancedIs ==
    ASSUME NEW stack \in Seq(Slices), stack # <<>>,
           NEW pos \in Nat, pos <= Len(stack[1].data)
    PROVE  /\ AdvancedOn(stack, pos) \in Seq(Slices)
           /\ Len(AdvancedOn(stack, pos)) = Len(stack)
           /\ AdvancedOn(stack, pos)[1] = [data |-> stack[1].data, pos |-> pos]
           /\ \A i \in 2..Len(stack) : AdvancedOn(stack, pos)[i] = stack[i]
<1> DEFINE first == [Head(stack) EXCEPT !.pos = pos]
<1>1. stack[1] \in Slices /\ Head(stack) = stack[1]
  BY HeadTailProperties
<1>2. first = [data |-> stack[1].data, pos |-> pos]
  BY <1>1, SliceIs
<1>3. first \in Slices
  BY <1>1, <1>2, SliceIs DEF Slices
<1>4. /\ Tail(stack) \in Seq(Slices) /\ Len(Tail(stack)) = Len(stack) - 1
      /\ \A i \in 1..Len(Tail(stack)) : Tail(stack)[i] = stack[i + 1]
  BY HeadTailProperties
<1> HIDE DEF first
<1>5. Len(stack) \in Nat \ {0}
  OBVIOUS
<1>6. /\ <<first>> \o Tail(stack) \in Seq(Slices)
      /\ Len(<<first>> \o Tail(stack)) = Len(stack)
      /\ (<<first>> \o Tail(stack))[1] = first
  BY <1>3, <1>4, <1>5
<1>7. ASSUME NEW i \in 2..Len(stack)
      PROVE  (<<first>> \o Tail(stack))[i] = stack[i]
  <2>1. i - 1 \in 1..Len(Tail(stack)) /\ (i - 1) + 1 = i
    BY <1>4, <1>5
  <2>2. (<<first>> \o Tail(stack))[i] = Tail(stack)[i - 1]
    BY <1>3, <1>4, <1>5, <2>1
  <2> QED
    BY <1>4, <2>1, <2>2
<1> QED
  BY <1>2, <1>6, <1>7 DEF AdvancedOn, first

LEMMA PushedIs ==
    ASSUME NEW stack \in Seq(Slices), NEW f \in Slices
    PROVE  /\ <<f>> \o stack \in Seq(Slices)
           /\ Len(<<f>> \o stack) = Len(stack) + 1
           /\ (<<f>> \o stack)[1] = f
           /\ \A i \in 2..(Len(stack) + 1) : (<<f>> \o stack)[i] = stack[i - 1]
OBVIOUS

LEMMA LeftIs ==
    ASSUME NEW stack \in Seq(Slices), stack # <<>>
    PROVE  /\ Tail(stack) \in Seq(Slices)
           /\ Len(Tail(stack)) = Len(stack) - 1
           /\ \A i \in 1..(Len(stack) - 1) : Tail(stack)[i] = stack[i + 1]
BY HeadTailProperties

\* Moving on past what the innermost decoder has read.
LEMMA AdvancedNested ==
    ASSUME NEW stack \in Seq(Slices), stack # <<>>, NestedIn(stack),
           NEW pos \in Nat, stack[1].pos <= pos, pos <= Len(stack[1].data),
           NEW start, Placed(stack, start)
    PROVE  NestedIn(AdvancedOn(stack, pos)) /\ Placed(AdvancedOn(stack, pos), start)
<1> DEFINE new == AdvancedOn(stack, pos)
<1>1. /\ new \in Seq(Slices) /\ Len(new) = Len(stack)
      /\ new[1].data = stack[1].data
      /\ \A i \in 2..Len(stack) : new[i] = stack[i]
  <2>1. new[1] = [data |-> stack[1].data, pos |-> pos]
    BY AdvancedIs
  <2> HIDE DEF new
  <2>2. new[1].data = stack[1].data
    BY <2>1
  <2> QED
    BY <2>2, AdvancedIs DEF new
<1>2. Len(stack) \in Nat \ {0} /\ \A i \in 1..Len(stack) : stack[i] \in Slices
  OBVIOUS
<1>3. \A i \in 1..Len(stack) : i = 1 \/ i \in 2..Len(stack)
  BY <1>2
<1>4. \A i \in 1..Len(stack) : new[i].data = stack[i].data
  BY <1>1, <1>3
<1>5. \A i \in 2..Len(stack) : i - 1 \in 1..Len(stack)
  BY <1>2
<1>6. Len(stack) \in 1..Len(stack)
  BY <1>2
<1> HIDE DEF new
<1>7. NestedIn(new)
  BY <1>1, <1>4, <1>5 DEF NestedIn
<1>8. Placed(new, start)
  BY <1>1, <1>4, <1>5, <1>6 DEF Placed
<1> QED
  BY <1>7, <1>8 DEF new

\* A decoder on the contents of what the outer one has just read past.
LEMMA PushedNested ==
    ASSUME NEW stack \in Seq(Slices), stack # <<>>, NestedIn(stack),
           NEW start, Placed(stack, start),
           NEW from \in Nat, NEW len \in Nat, from + len = stack[1].pos,
           NEW value \in Seq(Byte), Len(value) = len,
           value = SubSeq(stack[1].data, from + 1, from + len)
    PROVE  /\ Frame(value) \in Slices
           /\ NestedIn(<<Frame(value)>> \o stack)
           /\ \E new : /\ Placed(<<Frame(value)>> \o stack, new)
                       /\ new[1] = start[1] + from
<1> DEFINE pushed == <<Frame(value)>> \o stack
           new == [i \in 1..(Len(stack) + 1) |->
                     IF i = 1 THEN start[1] + from ELSE start[i - 1]]
<1>1. /\ Len(stack) \in Nat \ {0} /\ 1 \in 1..Len(stack)
      /\ \A i \in 1..Len(stack) : stack[i] \in Slices
  BY NonEmpty, Zenon
<1>2. /\ stack[1].data \in Seq(Byte) /\ stack[1].pos <= Len(stack[1].data)
      /\ Len(stack[1].data) \in Nat /\ 2 * Len(stack[1].data) < 256^U64Bytes
  <2>1. stack[1] \in Slices
    BY <1>1
  <2> QED
    BY <2>1, SliceIs, Zenon
<1>3. 256^U64Bytes \in Nat
  BY PowersGrow
<1>4. 2 * len < 256^U64Bytes
  BY <1>2, <1>3
<1>5. Frame(value) \in Slices
  <2>1. [data |-> value, pos |-> 0].data = value /\ [data |-> value, pos |-> 0].pos = 0
        /\ [data |-> value, pos |-> 0] \in [data : Seq(Byte), pos : Nat]
    OBVIOUS
  <2>2. 0 <= Len(value) /\ 2 * Len(value) < 256^U64Bytes
    BY <1>4
  <2> QED
    BY <2>1, <2>2 DEF Frame, Slices
<1>6. /\ Len(pushed) = Len(stack) + 1 /\ pushed[1] = Frame(value)
      /\ \A i \in 2..(Len(stack) + 1) : pushed[i] = stack[i - 1]
  BY <1>5, PushedIs
<1>7. Frame(value).data = value
  BY DEF Frame
<1> HIDE DEF pushed
<1>8. \A i \in 2..(Len(stack) + 1) :
         i = 2 \/ (i - 1 \in 2..Len(stack) /\ i - 1 \in 2..(Len(stack) + 1))
  BY <1>1
<1>9. 2 \in 2..(Len(stack) + 1) /\ 2 - 1 = 1
  BY <1>1
<1>10. pushed[2] = stack[1]
  BY <1>6, <1>9
<1>11. NestedIn(pushed)
  <2> SUFFICES ASSUME NEW i \in 2..Len(pushed)
               PROVE  /\ Len(pushed[i - 1].data) <= pushed[i].pos
                      /\ pushed[i - 1].data =
                            SubSeq(pushed[i].data,
                                   pushed[i].pos - Len(pushed[i - 1].data) + 1,
                                   pushed[i].pos)
    BY Zenon DEF NestedIn
  <2>1. CASE i = 2
    <3>1. pushed[i - 1].data = value /\ pushed[i] = stack[1]
      BY <1>6, <1>7, <1>9, <1>10, <2>1
    <3>2. len <= from + len /\ from + len - len + 1 = from + 1
      OBVIOUS
    <3>3. stack[1].pos - Len(value) + 1 = from + 1
      BY <3>2
    <3>4. value = SubSeq(stack[1].data, stack[1].pos - Len(value) + 1, stack[1].pos)
      BY <3>3
    <3> QED
      BY <3>1, <3>2, <3>4
  <2>2. CASE i # 2
    <3>1. i - 1 \in 2..Len(stack) /\ pushed[i] = stack[i - 1]
          /\ pushed[i - 1] = stack[(i - 1) - 1]
      BY <1>6, <1>8, <2>2
    <3> QED
      BY <3>1 DEF NestedIn
  <2> QED
    BY <2>1, <2>2
<1>12. start \in [1..Len(stack) -> Nat]
  BY DEF Placed
<1>13. /\ new \in [1..(Len(stack) + 1) -> Nat] /\ new[1] = start[1] + from
       /\ \A i \in 2..(Len(stack) + 1) : new[i] = start[i - 1]
  BY <1>1, <1>12
<1> HIDE DEF new
<1>14. Placed(pushed, new)
  <2> DEFINE n == Len(stack)
             total == Len(stack[n].data)
  <2>1. pushed[Len(pushed)] = stack[n]
    BY <1>1, <1>6
  <2>2. start[1] \in Nat /\ start[1] + Len(stack[1].data) <= total /\ total \in Nat
    <3>1. start[1] \in Nat /\ n \in 1..n
      BY <1>1, <1>12
    <3>2. stack[n] \in Slices
      BY <1>1, <3>1
    <3>3. total \in Nat
      BY <3>2, SliceIs, Zenon
    <3>4. start[1] + Len(stack[1].data) <= total
      BY <1>1 DEF Placed
    <3> QED
      BY <3>1, <3>3, <3>4
  <2>3. ASSUME NEW i \in 2..Len(pushed)
        PROVE  new[i - 1] + Len(pushed[i - 1].data) <= new[i] + pushed[i].pos
    <3>1. CASE i = 2
      <4>1. /\ new[i - 1] = start[1] + from /\ pushed[i - 1].data = value
            /\ new[i] = start[1] /\ pushed[i] = stack[1]
        BY <1>6, <1>7, <1>9, <1>10, <1>13, <3>1
      <4> QED
        BY <2>2, <4>1
    <3>2. CASE i # 2
      <4>1. /\ i - 1 \in 2..n /\ pushed[i] = stack[i - 1]
            /\ pushed[i - 1] = stack[(i - 1) - 1]
            /\ new[i] = start[i - 1] /\ new[i - 1] = start[(i - 1) - 1]
        BY <1>6, <1>8, <1>13, <3>2
      <4> QED
        BY <4>1 DEF Placed
    <3> QED
      BY <3>1, <3>2
  <2>4. ASSUME NEW i \in 1..Len(pushed)
        PROVE  new[i] + Len(pushed[i].data) <= total
    <3>1. CASE i = 1
      <4>1. new[i] = start[1] + from /\ pushed[i].data = value
        BY <1>6, <1>7, <1>13, <3>1
      <4> DEFINE s == start[1]
                 l == Len(stack[1].data)
      <4>2. /\ s \in Nat /\ l \in Nat /\ total \in Nat
            /\ s + l <= total /\ from + len <= l
        BY <1>2, <2>2
      <4> HIDE DEF s, l, total
      <4>3. (s + from) + len <= total
        BY <4>2
      <4> QED
        BY <4>1, <4>3 DEF s
    <3>2. CASE i # 1
      <4> DEFINE m == Len(pushed)
      <4>0. n \in Nat /\ m = n + 1 /\ i \in 1..m
        BY <1>1, <1>6
      <4> HIDE DEF n, m
      <4>1. /\ i - 1 \in 1..n /\ i \in 2..(n + 1)
        BY <4>0, <3>2
      <4> USE DEF n
      <4>2. new[i] = start[i - 1] /\ pushed[i] = stack[i - 1]
        BY <1>6, <1>13, <4>1
      <4> QED
        BY <4>1, <4>2 DEF Placed
    <3> QED
      BY <3>1, <3>2
  <2> QED
    BY <1>6, <1>13, <2>1, <2>3, <2>4 DEF Placed
<1> QED
  BY <1>5, <1>11, <1>13, <1>14 DEF pushed

\* Going on with the outer decoder.
LEMMA LeftNested ==
    ASSUME NEW stack \in Seq(Slices), Len(stack) >= 2, NestedIn(stack),
           NEW start, Placed(stack, start)
    PROVE  /\ NestedIn(Tail(stack))
           /\ \E new : /\ Placed(Tail(stack), new)
                       /\ start[1] + stack[1].pos <= new[1] + Tail(stack)[1].pos
<1> DEFINE left == Tail(stack)
           n == Len(stack)
           new == [i \in 1..(n - 1) |-> start[i + 1]]
<1>1. n \in Nat /\ n >= 2 /\ \A i \in 1..n : stack[i] \in Slices
  OBVIOUS
<1>2. Len(left) = n - 1 /\ \A i \in 1..(n - 1) : left[i] = stack[i + 1]
  <2>1. stack # <<>>
    OBVIOUS
  <2> QED
    BY <2>1, LeftIs
<1>3. start \in [1..n -> Nat]
  BY DEF Placed
<1> HIDE DEF left, n
<1>4. /\ new \in [1..(n - 1) -> Nat]
      /\ \A i \in 1..(n - 1) : new[i] = start[i + 1]
  BY <1>1, <1>3
<1> HIDE DEF new
<1>5. \A i \in 2..(n - 1) :
         /\ i + 1 \in 2..n /\ (i + 1) - 1 = i /\ (i - 1) + 1 = i
         /\ i - 1 \in 1..(n - 1) /\ i \in 1..(n - 1)
  BY <1>1
<1>6. NestedIn(left)
  <2> SUFFICES ASSUME NEW i \in 2..(n - 1)
               PROVE  /\ Len(left[i - 1].data) <= left[i].pos
                      /\ left[i - 1].data =
                            SubSeq(left[i].data,
                                   left[i].pos - Len(left[i - 1].data) + 1,
                                   left[i].pos)
    BY <1>2, Zenon DEF NestedIn
  <2>1. left[i] = stack[i + 1] /\ left[i - 1] = stack[(i + 1) - 1] /\ i + 1 \in 2..n
    BY <1>2, <1>5
  <2> QED
    BY <2>1 DEF NestedIn, n
<1>7. Placed(left, new)
  <2>1. left[n - 1] = stack[n]
    BY <1>1, <1>2
  <2>2. ASSUME NEW i \in 2..(n - 1)
        PROVE  new[i - 1] + Len(left[i - 1].data) <= new[i] + left[i].pos
    <3>1. /\ left[i] = stack[i + 1] /\ left[i - 1] = stack[(i + 1) - 1]
          /\ new[i] = start[i + 1] /\ new[i - 1] = start[(i + 1) - 1]
          /\ i + 1 \in 2..n
      BY <1>2, <1>4, <1>5
    <3> QED
      BY <3>1 DEF Placed, n
  <2>3. ASSUME NEW i \in 1..(n - 1)
        PROVE  new[i] + Len(left[i].data) <= Len(stack[n].data)
    <3>1. left[i] = stack[i + 1] /\ new[i] = start[i + 1] /\ i + 1 \in 1..n
      BY <1>1, <1>2, <1>4
    <3> QED
      BY <3>1 DEF Placed, n
  <2> QED
    BY <1>2, <1>4, <2>1, <2>2, <2>3 DEF Placed
<1>8. start[1] + stack[1].pos <= new[1] + left[1].pos
  <2>1. 2 \in 2..n /\ 2 - 1 = 1 /\ 1 \in 1..(n - 1) /\ 1 \in 1..n /\ 2 \in 1..n
    BY <1>1
  <2>2. start[1] + Len(stack[1].data) <= start[2] + stack[2].pos
    <3>1. start[2 - 1] + Len(stack[2 - 1].data) <= start[2] + stack[2].pos
      BY <2>1 DEF Placed, n
    <3> QED
      BY <2>1, <3>1
  <2>3. new[1] = start[2] /\ left[1] = stack[2]
    BY <1>2, <1>4, <2>1
  <2>4. start[1] \in Nat /\ start[2] \in Nat
    BY <1>3, <2>1
  <2>5. /\ stack[1].pos \in Nat /\ Len(stack[1].data) \in Nat /\ stack[2].pos \in Nat
        /\ stack[1].pos <= Len(stack[1].data)
    BY <1>1, <2>1, SliceIs
  <2> QED
    BY <2>2, <2>3, <2>4, <2>5
<1> QED
  BY <1>6, <1>7, <1>8 DEF left

-----------------------------------------------------------------------------
\* A message that lost its end.

\* Where a whole message is one TLV, no shorter one is.
LEMMA CutIsNoTlv ==
    ASSUME NEW data \in Seq(Byte),
           ReadTlv(data, 0).status = "ok", ReadTlv(data, 0).pos = Len(data),
           NEW k \in Nat, k < Len(data)
    PROVE  ReadTlv(SubSeq(data, 1, k), 0).status \in {"error", "panic"}
<1> DEFINE cut == SubSeq(data, 1, k)
<1>1. k \in 0..Len(data) /\ Len(data) \in Nat
  OBVIOUS
<1>2. /\ cut \in Seq(Byte) /\ Len(cut) = k
      /\ \A i \in 1..k : cut[i] = data[i]
      /\ \A i \in Nat \ {0} : \A j \in 0..k : SubSeq(cut, i, j) = SubSeq(data, i, j)
  BY <1>1, PrefixIs
<1> HIDE DEF cut
<1>3. PICK from, len \in Nat :
         /\ ReadLength(data, 1) = [status |-> "ok", len |-> len, pos |-> from]
         /\ from + len = Len(data)
  <2>1. PICK from, len \in Nat : TlvOf(data, 0, from, len)
    BY ReadTlvIs, 0 \in Nat
  <2>2. ReadLength(data, 1) = [status |-> "ok", len |-> len, pos |-> from]
    BY <2>1, 0 + 1 = 1 DEF TlvOf
  <2>3. ReadTlv(data, 0).pos = from + len
    BY <2>1 DEF TlvOf
  <2> QED
    BY <2>1, <2>2, <2>3
<1>4. SUFFICES ASSUME NEW f \in Nat, NEW l \in Nat,
                      ReadLength(cut, 1) = [status |-> "ok", len |-> l, pos |-> f],
                      f + l <= k
               PROVE  FALSE
  <2>1. 0 \in Nat /\ 0 + 1 = 1
    OBVIOUS
  <2>2. ASSUME ReadTlv(cut, 0).status \notin {"error", "panic"}
        PROVE  FALSE
    <3>0. PICK f, l \in Nat : TlvOf(cut, 0, f, l)
      BY <1>2, <2>1, <2>2, ReadTlvIs
    <3>1. /\ ReadLength(cut, 0 + 1) = [status |-> "ok", len |-> l, pos |-> f]
          /\ f + l <= Len(cut)
      BY <2>2, <3>0 DEF TlvOf
    <3> QED
      BY <1>2, <1>4, <2>1, <3>1
  <2> QED
    BY <2>2 DEF cut
<1>5. /\ 1 < k /\ f <= k
      /\ \/ cut[2] < 128 /\ l = cut[2] /\ f = 2
         \/ /\ cut[2] >= 128 /\ f = 2 + (cut[2] - 128)
            /\ l = DecodeUnsigned(SubSeq(cut, 3, f), U64Bytes)
  <2>1. PICK end, m \in Nat :
           /\ 1 < Len(cut) /\ end <= Len(cut)
           /\ ReadLength(cut, 1) = [status |-> "ok", len |-> m, pos |-> end]
           /\ \/ cut[1 + 1] < 128 /\ m = cut[1 + 1] /\ end = 1 + 1
              \/ /\ cut[1 + 1] >= 128 /\ end = 1 + 1 + (cut[1 + 1] - 128)
                 /\ m = DecodeUnsigned(SubSeq(cut, 1 + 2, end), U64Bytes)
    BY <1>2, <1>4, ReadLengthIs
  <2>2. end = f /\ m = l
    BY <1>4, <2>1
  <2> QED
    BY <1>2, <2>1, <2>2
<1>6. \/ data[2] < 128 /\ len = data[2] /\ from = 2
      \/ /\ data[2] >= 128 /\ from = 2 + (data[2] - 128)
         /\ len = DecodeUnsigned(SubSeq(data, 3, from), U64Bytes)
  <2>1. PICK end, m \in Nat :
           /\ ReadLength(data, 1) = [status |-> "ok", len |-> m, pos |-> end]
           /\ \/ data[1 + 1] < 128 /\ m = data[1 + 1] /\ end = 1 + 1
              \/ /\ data[1 + 1] >= 128 /\ end = 1 + 1 + (data[1 + 1] - 128)
                 /\ m = DecodeUnsigned(SubSeq(data, 1 + 2, end), U64Bytes)
    BY <1>3, ReadLengthIs
  <2>2. end = from /\ m = len
    BY <1>3, <2>1
  <2> QED
    BY <2>1, <2>2
<1>7. cut[2] = data[2] /\ data[2] \in Byte
  BY <1>1, <1>2, <1>5
<1>8. f = from /\ SubSeq(cut, 3, f) = SubSeq(data, 3, from)
  <2>1. PICK first \in 0..255 : data[2] = first
    BY <1>7 DEF Byte
  <2>2. f = from
    BY <1>5, <1>6, <1>7, <2>1
  <2>3. f \in 0..k
    BY <1>5
  <2> QED
    BY <1>2, <2>2, <2>3
<1>9. l = len
  <2>1. PICK first \in 0..255 : data[2] = first
    BY <1>7 DEF Byte
  <2>2. CASE first < 128
    BY <1>5, <1>6, <1>7, <2>1, <2>2
  <2>3. CASE ~(first < 128)
    <3>1. ~(data[2] < 128) /\ ~(cut[2] < 128)
      BY <1>7, <2>1, <2>3
    <3> QED
      BY <1>5, <1>6, <1>8, <3>1
  <2> QED
    BY <2>2, <2>3
<1> QED
  BY <1>3, <1>4, <1>8, <1>9

\* Every decoder begins with the SEQUENCE that encloses its message.
LEMMA ReadsBegin ==
    \A d \in DOMAIN Reads : Reads[d] # <<>> /\ Head(Reads[d]) = Sequence
<1>1. ScopedReads # <<>> /\ Head(ScopedReads) = Sequence
  BY DEF ScopedReads, PduReads
<1> QED
  BY <1>1 DEF Reads

\* A message cut short: the decoder has not begun, or has ended.
CutInv ==
    /\ message \in Messages
    /\ harm = "cut" =>
          \/ status \in {"error", "panic"}
          \/ /\ status = "reading" /\ todo = Reads[message.decoder]
             /\ \E k \in Nat : /\ k < Len(message.bytes)
                               /\ frames = <<Frame(SubSeq(message.bytes, 1, k))>>

\* decode_response, decode_trap, decode_v3_message and decode_scoped_pdu refuse
\* a message cut anywhere, however its lengths are written: the outer TLV's
\* length reaches past what is left, and nothing else is read before it.
THEOREM CutShortIsRefused == Spec => []CutShortRefused
<1>1. Init => CutInv
  <2> SUFFICES ASSUME Init, harm = "cut"
               PROVE  \E k \in Nat : /\ k < Len(message.bytes)
                                     /\ frames = <<Frame(SubSeq(message.bytes, 1, k))>>
    BY DEF Init, CutInv
  <2>1. message.bytes \in Seq(Byte)
    BY DecoderAssumption DEF Init, AnyTag, Byte
  <2>2. Harmed(message.bytes, "cut") =
           {SubSeq(message.bytes, 1, n - 1) : n \in Positions \cap DOMAIN message.bytes}
    BY DEF Harmed
  <2>3. PICK n \in DOMAIN message.bytes :
           frames = <<Frame(SubSeq(message.bytes, 1, n - 1))>>
    BY <2>2 DEF Init
  <2>4. n - 1 \in Nat /\ n - 1 < Len(message.bytes)
    BY <2>1
  <2> QED
    BY <2>3, <2>4
<1>2. CutInv /\ [Next]_vars => CutInv'
  <2> SUFFICES ASSUME CutInv, [Next]_vars PROVE CutInv'
    OBVIOUS
  <2>1. CASE UNCHANGED vars
    BY <2>1 DEF vars, CutInv
  <2>2. CASE Next
    <3>1. message' = message /\ harm' = harm /\ status = "reading"
      BY <2>2 DEF Next, EnterTlv, EnterFails, ReadField, ReadUsm, ReadFails,
                  LeaveTlv, NextBinding, Finish, Goes, End, Doing
    <3>2. CASE harm # "cut"
      BY <3>1, <3>2 DEF CutInv
    <3>3. CASE harm = "cut"
      <4>1. PICK k \in Nat : /\ k < Len(message.bytes)
                             /\ frames = <<Frame(SubSeq(message.bytes, 1, k))>>
        BY <3>1, <3>3 DEF CutInv
      <4>2. todo # <<>> /\ Item = Sequence
        <5>1. message.decoder \in DOMAIN Reads /\ todo = Reads[message.decoder]
          BY <3>1, <3>3, DecoderAssumption DEF CutInv
        <5> QED
          BY <5>1, ReadsBegin DEF Item
      <4>3. Item.op = "enter"
        BY <4>2 DEF Sequence, Enter
      <4>4. Current.status \in {"error", "panic"}
        <5>1. Top.data = SubSeq(message.bytes, 1, k) /\ Top.pos = 0
          BY <4>1 DEF Top, Frame
        <5>2. /\ message.bytes \in Seq(Byte)
              /\ ReadTlv(message.bytes, 0).status = "ok"
              /\ ReadTlv(message.bytes, 0).pos = Len(message.bytes)
          BY DecoderAssumption DEF CutInv, AnyTag, Byte
        <5> QED
          BY <4>1, <5>1, <5>2, CutIsNoTlv DEF Current
      <4>5. EnterFails
        BY <2>2, <4>2, <4>3, <4>4
           DEF Next, EnterTlv, ReadField, ReadUsm, ReadFails, LeaveTlv,
               NextBinding, Finish, Doing
      <4>6. status' \in {"error", "panic"}
        BY <4>4, <4>5 DEF EnterFails, End
      <4> QED
        BY <3>1, <4>6 DEF CutInv
    <3> QED
      BY <3>2, <3>3
  <2> QED
    BY <2>1, <2>2
<1>3. CutInv => CutShortRefused
  BY DEF CutInv, CutShortRefused
<1> QED
  BY <1>1, <1>2, <1>3, PTL DEF Spec

-----------------------------------------------------------------------------
\* The lists of reads.

\* How many decoders there are more after a read of a list.
Deeper(item) ==
    IF item.op = "enter" THEN 1 ELSE IF item.op = "leave" THEN -1 ELSE 0

\* A list that starts with so many decoders, always has one, and ends with so
\* many.
Leads(list, first, last) ==
    \E depth \in [1..(Len(list) + 1) -> Nat \ {0}] :
        /\ depth[1] = first /\ depth[Len(list) + 1] = last
        /\ \A k \in 1..Len(list) : depth[k + 1] = depth[k] + Deeper(list[k])

\* A read that decides what is read in the end, or may make six fields of
\* none.
Special(item) == item.op = "read" /\ item.as \in {"version", "flags", "usm"}

NoSpecial(list) == \A k \in 1..Len(list) : ~Special(list[k])

OneSpecial(list) ==
    \A j, k \in 1..Len(list) : Special(list[j]) /\ Special(list[k]) => j = k

\* The lists of such items that can be read wherever there is a decoder.
Plans(S) ==
    {p \in Seq(S) : (\E last : Leads(p, 1, last)) /\ OneSpecial(p)}

Simple ==
    {Enter(tags) : tags \in SUBSET AnyTag} \cup {Leave, Bindings} \cup
    {Read(as) : as \in {"i32", "u32", "octets", "oid", "address", "value", "full"}}

Flagged ==
    Simple \cup {Read("usm")} \cup
    {Flags(next) : next \in [BOOLEAN -> Plans(Simple \cup {Read("usm")})]}

Items ==
    Flagged \cup
    {Version(next) : next \in UNION {[keys -> Plans(Flagged)] : keys \in SUBSET Int}}

LEMMA PlansGrow ==
    ASSUME NEW S, NEW T, S \subseteq T
    PROVE  Plans(S) \subseteq Plans(T)
<1>1. \A p \in Seq(S) : p \in Seq(T)
  OBVIOUS
<1> QED
  BY <1>1 DEF Plans

\* What a read is.
LEMMA ItemIs ==
    ASSUME NEW item \in Items
    PROVE  /\ item.op \in {"enter", "leave", "bindings", "read"}
           /\ "next" \in DOMAIN item =>
                 /\ Special(item) /\ item.as # "usm"
                 /\ \A key \in DOMAIN item.next : item.next[key] \in Plans(Items)
           /\ item.op = "read" /\ item.as = "usm" =>
                 Special(item) /\ "next" \notin DOMAIN item
<1>1. ASSUME NEW tags, item = Enter(tags)
      PROVE  /\ item.op = "enter" /\ "next" \notin DOMAIN item
  BY <1>1 DEF Enter
<1>2. item = Leave => item.op = "leave" /\ "next" \notin DOMAIN item
  BY DEF Leave
<1>3. item = Bindings => item.op = "bindings" /\ "next" \notin DOMAIN item
  BY DEF Bindings
<1>4. ASSUME NEW as, item = Read(as)
      PROVE  item.op = "read" /\ item.as = as /\ "next" \notin DOMAIN item
  BY <1>4 DEF Read
<1>5. ASSUME NEW next, item = Flags(next)
      PROVE  item.op = "read" /\ item.as = "flags" /\ item.next = next
  BY <1>5 DEF Flags
<1>6. ASSUME NEW next, item = Version(next)
      PROVE  item.op = "read" /\ item.as = "version" /\ item.next = next
  BY <1>6 DEF Version
<1>7. CASE item \in Simple
  BY <1>1, <1>2, <1>3, <1>4, <1>7 DEF Simple
<1>8. CASE item = Read("usm")
  BY <1>4, <1>8 DEF Special
<1>9. CASE \E next \in [BOOLEAN -> Plans(Simple \cup {Read("usm")})] : item = Flags(next)
  <2>1. PICK next \in [BOOLEAN -> Plans(Simple \cup {Read("usm")})] : item = Flags(next)
    BY <1>9
  <2>2. Plans(Simple \cup {Read("usm")}) \subseteq Plans(Items)
    <3>1. Simple \cup {Read("usm")} \subseteq Items
      BY DEF Items, Flagged
    <3> QED
      BY <3>1, PlansGrow
  <2> QED
    BY <1>5, <2>1, <2>2 DEF Special
<1>10. CASE \E keys \in SUBSET Int : \E next \in [keys -> Plans(Flagged)] :
               item = Version(next)
  <2>1. PICK keys \in SUBSET Int :
           \E next \in [keys -> Plans(Flagged)] : item = Version(next)
    BY <1>10
  <2>2. PICK next \in [keys -> Plans(Flagged)] : item = Version(next)
    BY <2>1
  <2>3. Plans(Flagged) \subseteq Plans(Items)
    <3>1. Flagged \subseteq Items
      BY DEF Items
    <3> QED
      BY <3>1, PlansGrow
  <2> QED
    BY <1>6, <2>2, <2>3 DEF Special
<1> QED
  BY <1>7, <1>8, <1>9, <1>10 DEF Items, Flagged

LEMMA Joined ==
    ASSUME NEW S, NEW p \in Seq(S), NEW q \in Seq(S)
    PROVE  /\ p \o q \in Seq(S) /\ Len(p \o q) = Len(p) + Len(q)
           /\ \A k \in 1..Len(p) : (p \o q)[k] = p[k]
           /\ \A k \in 1..Len(q) : (p \o q)[Len(p) + k] = q[k]
<1>1. /\ p \o q \in Seq(S) /\ Len(p \o q) = Len(p) + Len(q)
      /\ \A i \in 1..(Len(p) + Len(q)) :
            (p \o q)[i] = IF i <= Len(p) THEN p[i] ELSE q[i - Len(p)]
  BY ConcatProperties
<1>2. Len(p) \in Nat /\ Len(q) \in Nat
  OBVIOUS
<1>3. \A k \in 1..Len(p) : k \in 1..(Len(p) + Len(q)) /\ k <= Len(p)
  BY <1>2
<1>4. \A k \in 1..Len(q) : /\ Len(p) + k \in 1..(Len(p) + Len(q))
                           /\ ~(Len(p) + k <= Len(p)) /\ Len(p) + k - Len(p) = k
  BY <1>2
<1> QED
  BY <1>1, <1>3, <1>4

\* One list after another.
LEMMA LeadsOn ==
    ASSUME NEW S, NEW p \in Seq(S), NEW q \in Seq(S),
           NEW a, NEW b, NEW c, Leads(p, a, b), Leads(q, b, c)
    PROVE  Leads(p \o q, a, c)
<1> DEFINE m == Len(p)
           n == Len(q)
<1>1. m \in Nat /\ n \in Nat
  OBVIOUS
<1>2. PICK d \in [1..(m + 1) -> Nat \ {0}] :
         /\ d[1] = a /\ d[m + 1] = b
         /\ \A k \in 1..m : d[k + 1] = d[k] + Deeper(p[k])
  BY DEF Leads
<1>3. PICK e \in [1..(n + 1) -> Nat \ {0}] :
         /\ e[1] = b /\ e[n + 1] = c
         /\ \A k \in 1..n : e[k + 1] = e[k] + Deeper(q[k])
  BY DEF Leads
<1>4. /\ Len(p \o q) = m + n
      /\ \A k \in 1..m : (p \o q)[k] = p[k]
      /\ \A k \in 1..n : (p \o q)[m + k] = q[k]
  BY Joined
<1> HIDE DEF m, n
<1> DEFINE f == [k \in 1..(m + n + 1) |-> IF k <= m THEN d[k] ELSE e[k - m]]
<1>5. f \in [1..(m + n + 1) -> Nat \ {0}]
  <2>1. ASSUME NEW k \in 1..(m + n + 1)
        PROVE  (IF k <= m THEN d[k] ELSE e[k - m]) \in Nat \ {0}
    <3>1. k <= m => k \in 1..(m + 1)
      BY <1>1
    <3>2. ~(k <= m) => k - m \in 1..(n + 1)
      BY <1>1
    <3> QED
      BY <1>2, <1>3, <3>1, <3>2
  <2> QED
    BY <2>1
<1>6. \A k \in 1..(m + 1) : f[k] = d[k]
  <2> SUFFICES ASSUME NEW k \in 1..(m + 1) PROVE f[k] = d[k]
    OBVIOUS
  <2>1. k \in 1..(m + n + 1)
    BY <1>1
  <2>2. CASE k <= m
    BY <2>1, <2>2
  <2>3. CASE ~(k <= m)
    <3>1. k = m + 1 /\ k - m = 1
      BY <1>1, <2>3
    <3> QED
      BY <1>2, <1>3, <2>1, <2>3, <3>1
  <2> QED
    BY <2>2, <2>3
<1>7. \A k \in 1..(n + 1) : f[m + k] = e[k]
  <2> SUFFICES ASSUME NEW k \in 1..(n + 1) PROVE f[m + k] = e[k]
    OBVIOUS
  <2>1. PICK j \in 1..(m + n + 1) : j = m + k
    BY <1>1
  <2>2. ~(j <= m) /\ j - m = k
    BY <1>1, <2>1
  <2>3. f[j] = e[k]
    BY <2>2
  <2> QED
    BY <2>1, <2>3
<1> HIDE DEF f
<1>8. f[1] = a /\ f[m + n + 1] = c
  <2>1. 1 \in 1..(m + 1) /\ n + 1 \in 1..(n + 1) /\ m + (n + 1) = m + n + 1
    BY <1>1
  <2> QED
    BY <1>2, <1>3, <1>6, <1>7, <2>1
<1>9. ASSUME NEW k \in 1..(m + n)
      PROVE  f[k + 1] = f[k] + Deeper((p \o q)[k])
  <2>1. CASE k <= m
    <3>1. k \in 1..m /\ k \in 1..(m + 1) /\ k + 1 \in 1..(m + 1)
      BY <1>1, <2>1
    <3> QED
      BY <1>2, <1>4, <1>6, <3>1
  <2>2. CASE ~(k <= m)
    <3> DEFINE j == k - m
    <3>1. /\ j \in 1..n /\ j \in 1..(n + 1) /\ j + 1 \in 1..(n + 1)
          /\ k = m + j /\ k + 1 = m + (j + 1)
      BY <1>1, <2>2
    <3> HIDE DEF j
    <3> QED
      BY <1>3, <1>4, <1>7, <3>1
  <2> QED
    BY <2>1, <2>2
<1> QED
  BY <1>4, <1>5, <1>8, <1>9 DEF Leads

\* A list that leads on from some decoders does so from more.
LEMMA LeadsHigher ==
    ASSUME NEW S, NEW p \in Seq(S), NEW a \in Nat, NEW b \in Nat, NEW more \in Nat,
           Leads(p, a, b)
    PROVE  Leads(p, a + more, b + more)
<1>1. Len(p) \in Nat
  OBVIOUS
<1>2. PICK d \in [1..(Len(p) + 1) -> Nat \ {0}] :
         /\ d[1] = a /\ d[Len(p) + 1] = b
         /\ \A k \in 1..Len(p) : d[k + 1] = d[k] + Deeper(p[k])
  BY DEF Leads
<1> DEFINE e == [k \in 1..(Len(p) + 1) |-> d[k] + more]
<1>3. e \in [1..(Len(p) + 1) -> Nat \ {0}]
  BY <1>2
<1>4. /\ 1 \in 1..(Len(p) + 1) /\ Len(p) + 1 \in 1..(Len(p) + 1)
      /\ \A k \in 1..Len(p) : k \in 1..(Len(p) + 1) /\ k + 1 \in 1..(Len(p) + 1)
  BY <1>1
<1>5. e[1] = a + more /\ e[Len(p) + 1] = b + more
  BY <1>2, <1>4
<1>6. ASSUME NEW k \in 1..Len(p) PROVE e[k + 1] = e[k] + Deeper(p[k])
  <2>1. d[k + 1] = d[k] + Deeper(p[k]) /\ d[k] \in Nat /\ Deeper(p[k]) \in Int
    BY <1>2, <1>4 DEF Deeper
  <2>2. e[k + 1] = d[k + 1] + more /\ e[k] = d[k] + more
    BY <1>4
  <2> QED
    BY <2>1, <2>2
<1> QED
  BY <1>3, <1>5, <1>6 DEF Leads

\* The rest of a list, once its first read is made.
LEMMA LeadsAfter ==
    ASSUME NEW S, NEW p \in Seq(S), p # <<>>, NEW a, NEW b, Leads(p, a, b)
    PROVE  /\ a \in Nat \ {0} /\ a + Deeper(Head(p)) \in Nat \ {0}
           /\ Tail(p) \in Seq(S) /\ Leads(Tail(p), a + Deeper(Head(p)), b)
<1>1. /\ Len(p) \in Nat \ {0} /\ Head(p) = p[1] /\ Tail(p) \in Seq(S)
      /\ Len(Tail(p)) = Len(p) - 1
      /\ \A k \in 1..(Len(p) - 1) : Tail(p)[k] = p[k + 1]
  BY HeadTailProperties, NonEmpty
<1>2. PICK d \in [1..(Len(p) + 1) -> Nat \ {0}] :
         /\ d[1] = a /\ d[Len(p) + 1] = b
         /\ \A k \in 1..Len(p) : d[k + 1] = d[k] + Deeper(p[k])
  BY DEF Leads
<1> DEFINE n == Len(p)
           e == [k \in 1..n |-> d[k + 1]]
<1>3. /\ 1 \in 1..n /\ n \in 1..n /\ 1 \in 1..(n + 1) /\ (n - 1) + 1 = n
      /\ \A k \in 1..n : k + 1 \in 1..(n + 1)
      /\ \A k \in 1..(n - 1) : k \in 1..n /\ k + 1 \in 1..n
  BY <1>1
<1>4. e \in [1..n -> Nat \ {0}]
  BY <1>2, <1>3
<1>5. e[1] = a + Deeper(p[1]) /\ e[n] = b
  BY <1>2, <1>3
<1>6. \A k \in 1..(n - 1) : e[k + 1] = e[k] + Deeper(p[k + 1])
  BY <1>2, <1>3
<1> HIDE DEF e, n
<1>7. Leads(Tail(p), a + Deeper(p[1]), b)
  <2> DEFINE t == Tail(p)
  <2>1. Len(t) = n - 1 /\ Len(t) + 1 = n /\ \A k \in 1..(n - 1) : t[k] = p[k + 1]
    BY <1>1, <1>3 DEF n
  <2> HIDE DEF t
  <2>2. \A k \in 1..Len(t) : e[k + 1] = e[k] + Deeper(t[k])
    BY <1>6, <2>1
  <2> QED
    BY <1>4, <1>5, <2>1, <2>2 DEF Leads, t
<1>8. a \in Nat \ {0} /\ e[1] \in Nat \ {0}
  BY <1>2, <1>3, <1>4 DEF n
<1> QED
  BY <1>1, <1>5, <1>7, <1>8

\* The special reads of a list that one is joined to, and of what is left of
\* one.
LEMMA SpecialJoined ==
    ASSUME NEW S, NEW p \in Seq(S), NEW q \in Seq(S)
    PROVE  /\ NoSpecial(p) /\ NoSpecial(q) => NoSpecial(p \o q)
           /\ NoSpecial(p) /\ OneSpecial(q) => OneSpecial(p \o q)
           /\ NoSpecial(p \o q) => NoSpecial(q)
<1>1. /\ Len(p) \in Nat /\ Len(q) \in Nat /\ Len(p \o q) = Len(p) + Len(q)
      /\ \A k \in 1..Len(p) : (p \o q)[k] = p[k]
      /\ \A k \in 1..Len(q) : (p \o q)[Len(p) + k] = q[k]
  BY Joined
<1>2. \A k \in 1..(Len(p) + Len(q)) :
         k \in 1..Len(p) \/ (k - Len(p) \in 1..Len(q) /\ k = Len(p) + (k - Len(p)))
  BY <1>1
<1>3. \A k \in 1..(Len(p) + Len(q)) :
         \/ k \in 1..Len(p) /\ (p \o q)[k] = p[k]
         \/ k - Len(p) \in 1..Len(q) /\ (p \o q)[k] = q[k - Len(p)]
  BY <1>1, <1>2
<1>4. NoSpecial(p) /\ NoSpecial(q) => NoSpecial(p \o q)
  BY <1>1, <1>3 DEF NoSpecial
<1>5. ASSUME NoSpecial(p), OneSpecial(q) PROVE OneSpecial(p \o q)
  <2> SUFFICES ASSUME NEW j \in 1..(Len(p) + Len(q)), NEW k \in 1..(Len(p) + Len(q)),
                      Special((p \o q)[j]), Special((p \o q)[k])
               PROVE  j = k
    BY <1>1 DEF OneSpecial
  <2>1. j - Len(p) \in 1..Len(q) /\ Special(q[j - Len(p)])
    BY <1>3, <1>5 DEF NoSpecial
  <2>2. k - Len(p) \in 1..Len(q) /\ Special(q[k - Len(p)])
    BY <1>3, <1>5 DEF NoSpecial
  <2>3. j - Len(p) = k - Len(p)
    BY <1>5, <2>1, <2>2 DEF OneSpecial
  <2> QED
    BY <1>1, <2>3
<1>6. NoSpecial(p \o q) => NoSpecial(q)
  <2>1. \A k \in 1..Len(q) : Len(p) + k \in 1..(Len(p) + Len(q))
    BY <1>1
  <2> QED
    BY <1>1, <2>1 DEF NoSpecial
<1> QED
  BY <1>4, <1>5, <1>6

LEMMA SpecialAfter ==
    ASSUME NEW S, NEW p \in Seq(S), p # <<>>, OneSpecial(p)
    PROVE  /\ OneSpecial(Tail(p))
           /\ Special(Head(p)) => NoSpecial(Tail(p))
           /\ ~Special(Head(p)) /\ NoSpecial(Tail(p)) => NoSpecial(p)
           /\ NoSpecial(p) => NoSpecial(Tail(p)) /\ ~Special(Head(p))
<1>1. /\ Len(p) \in Nat \ {0} /\ Head(p) = p[1]
      /\ Len(Tail(p)) = Len(p) - 1
      /\ \A k \in 1..(Len(p) - 1) : Tail(p)[k] = p[k + 1]
  BY HeadTailProperties, NonEmpty
<1>2. /\ 1 \in 1..Len(p)
      /\ \A k \in 1..(Len(p) - 1) : k + 1 \in 1..Len(p) /\ k + 1 # 1
      /\ \A k \in 1..Len(p) : k = 1 \/ (k - 1 \in 1..(Len(p) - 1) /\ (k - 1) + 1 = k)
  BY <1>1
<1>3. OneSpecial(Tail(p))
  <2> SUFFICES ASSUME NEW j \in 1..(Len(p) - 1), NEW k \in 1..(Len(p) - 1),
                      Special(p[j + 1]), Special(p[k + 1])
               PROVE  j = k
    BY <1>1 DEF OneSpecial
  <2>1. j + 1 = k + 1
    BY <1>2 DEF OneSpecial
  <2> QED
    BY <1>1, <2>1
<1>4. Special(Head(p)) => NoSpecial(Tail(p))
  BY <1>1, <1>2 DEF OneSpecial, NoSpecial
<1>5. ~Special(Head(p)) /\ NoSpecial(Tail(p)) => NoSpecial(p)
  BY <1>1, <1>2 DEF NoSpecial
<1>6. NoSpecial(p) => NoSpecial(Tail(p)) /\ ~Special(Head(p))
  BY <1>1, <1>2 DEF NoSpecial
<1> QED
  BY <1>3, <1>4, <1>5, <1>6

LEMMA SimpleIs ==
    ASSUME NEW item \in Simple
    PROVE  ~Special(item) /\ item \in Items /\ item \in Flagged
BY DEF Simple, Special, Enter, Leave, Bindings, Read, Items, Flagged

LEMMA SimpleReads ==
    /\ \A as \in {"i32", "u32", "octets", "oid", "address", "value", "full"} :
          Read(as) \in Simple /\ Deeper(Read(as)) = 0
    /\ \A tags \in SUBSET AnyTag : Enter(tags) \in Simple /\ Deeper(Enter(tags)) = 1
    /\ Sequence \in Simple /\ Deeper(Sequence) = 1
    /\ Leave \in Simple /\ Deeper(Leave) = -1
    /\ Bindings \in Simple /\ Deeper(Bindings) = 0
<1>1. SEQUENCE \in AnyTag
  BY DEF SEQUENCE, AnyTag
<1>2. {SEQUENCE} \in SUBSET AnyTag
  BY <1>1
<1> QED
  BY <1>2 DEF Simple, Sequence, Enter, Leave, Bindings, Read, Deeper

LEMMA SimpleList ==
    ASSUME NEW p \in Seq(Simple)
    PROVE  NoSpecial(p) /\ OneSpecial(p)
BY SimpleIs DEF NoSpecial, OneSpecial

LEMMA PduReadsIs == PduReads \in Seq(Simple) /\ Leads(PduReads, 1, 2)
<1>1. PduReads \in Seq(Simple)
  BY SimpleReads DEF PduReads
<1> DEFINE depth == <<1, 1, 1, 1, 2, 2>>
<1>2. /\ depth \in [1..6 -> Nat \ {0}] /\ Len(PduReads) = 5
      /\ \A k \in 1..5 : depth[k + 1] = depth[k] + Deeper(PduReads[k])
  BY SimpleReads DEF PduReads
<1> QED
  BY <1>1, <1>2 DEF Leads

\* A list of simple reads before one that can be read anywhere.
LEMMA PlanAfter ==
    ASSUME NEW S, Simple \subseteq S, NEW p \in Seq(Simple), NEW q \in Plans(S),
           NEW last \in Nat \ {0}, Leads(p, 1, last)
    PROVE  p \o q \in Plans(S)
<1>1. p \in Seq(S) /\ q \in Seq(S)
  BY DEF Plans
<1>2. PICK b : Leads(q, 1, b)
  BY DEF Plans
<1>3. b \in Nat \ {0}
  BY <1>1, <1>2 DEF Leads
<1>4. Leads(q, last, b + (last - 1))
  <2>1. last - 1 \in Nat /\ 1 + (last - 1) = last
    OBVIOUS
  <2> QED
    BY <1>1, <1>2, <1>3, <2>1, LeadsHigher
<1>5. Leads(p \o q, 1, b + (last - 1))
  BY <1>1, <1>4, LeadsOn
<1>6. p \o q \in Seq(S)
  BY <1>1
<1>7. OneSpecial(p \o q)
  BY <1>1, SimpleList, SpecialJoined DEF Plans
<1> QED
  BY <1>5, <1>6, <1>7 DEF Plans

LEMMA SimplePlan ==
    ASSUME NEW p \in Seq(Simple), NEW last, Leads(p, 1, last)
    PROVE  p \in Plans(Simple)
BY SimpleList DEF Plans

LEMMA SimpleToFlagged ==
    Plans(Simple) \subseteq Plans(Flagged) /\ Plans(Flagged) \subseteq Plans(Items)
<1>1. Simple \subseteq Flagged /\ Flagged \subseteq Items
  BY DEF Flagged, Items
<1> QED
  BY <1>1, PlansGrow

LEMMA ResponseReadsArePlan == ResponseReads \in Plans(Flagged)
<1> DEFINE p == <<Read("octets"), Enter({RESPONSE})>>
           depth == <<1, 1, 2>>
<1>1. {RESPONSE} \in SUBSET AnyTag
  BY DEF RESPONSE, AnyTag
<1>2. p \in Seq(Simple) /\ Leads(p, 1, 2)
  <2>1. p \in Seq(Simple)
    BY <1>1, SimpleReads
  <2>2. /\ depth \in [1..3 -> Nat \ {0}] /\ Len(p) = 2
        /\ \A k \in 1..2 : depth[k + 1] = depth[k] + Deeper(p[k])
    BY <1>1, SimpleReads
  <2> QED
    BY <2>1, <2>2 DEF Leads
<1>3. PduReads \in Plans(Simple)
  BY PduReadsIs, SimplePlan
<1> HIDE DEF p
<1>4. p \o PduReads \in Plans(Simple)
  BY <1>2, <1>3, PlanAfter
<1> QED
  BY <1>4, SimpleToFlagged DEF ResponseReads, p

LEMMA TrapV2cReadsArePlan == TrapV2cReads \in Plans(Flagged)
<1> DEFINE p == <<Read("octets"), Enter({TRAP_V2})>>
           depth == <<1, 1, 2>>
<1>1. {TRAP_V2} \in SUBSET AnyTag
  BY DEF TRAP_V2, AnyTag
<1>2. p \in Seq(Simple) /\ Leads(p, 1, 2)
  <2>1. p \in Seq(Simple)
    BY <1>1, SimpleReads
  <2>2. /\ depth \in [1..3 -> Nat \ {0}] /\ Len(p) = 2
        /\ \A k \in 1..2 : depth[k + 1] = depth[k] + Deeper(p[k])
    BY <1>1, SimpleReads
  <2> QED
    BY <2>1, <2>2 DEF Leads
<1>3. PduReads \in Plans(Simple)
  BY PduReadsIs, SimplePlan
<1> HIDE DEF p
<1>4. p \o PduReads \in Plans(Simple)
  BY <1>2, <1>3, PlanAfter
<1> QED
  BY <1>4, SimpleToFlagged DEF TrapV2cReads, p

LEMMA TrapV1ReadsArePlan == TrapV1Reads \in Plans(Flagged)
<1> DEFINE depth == <<1, 1, 2, 2, 2, 2, 2, 2, 3, 3>>
<1>1. {TRAP_V1} \in SUBSET AnyTag
  BY DEF TRAP_V1, AnyTag
<1>2. TrapV1Reads \in Seq(Simple)
  BY <1>1, SimpleReads DEF TrapV1Reads
<1>3. /\ depth \in [1..10 -> Nat \ {0}] /\ Len(TrapV1Reads) = 9
      /\ \A k \in 1..9 : depth[k + 1] = depth[k] + Deeper(TrapV1Reads[k])
  BY <1>1, SimpleReads DEF TrapV1Reads
<1>4. Leads(TrapV1Reads, 1, 3)
  BY <1>3 DEF Leads
<1> QED
  BY <1>2, <1>4, SimplePlan, SimpleToFlagged

LEMMA ScopedReadsArePlan == ScopedReads \in Plans(Simple)
<1> DEFINE p == <<Sequence, Read("octets"), Read("octets"), Enter(AnyTag)>>
           depth == <<1, 2, 2, 2, 3>>
<1>1. p \in Seq(Simple) /\ Leads(p, 1, 3)
  <2>1. p \in Seq(Simple)
    BY SimpleReads
  <2>2. /\ depth \in [1..5 -> Nat \ {0}] /\ Len(p) = 4
        /\ \A k \in 1..4 : depth[k + 1] = depth[k] + Deeper(p[k])
    BY SimpleReads
  <2> QED
    BY <2>1, <2>2 DEF Leads
<1>2. PduReads \in Plans(Simple)
  BY PduReadsIs, SimplePlan
<1> HIDE DEF p
<1>3. p \o PduReads \in Plans(Simple)
  BY <1>1, <1>2, PlanAfter
<1> QED
  BY <1>3 DEF ScopedReads, p

LEMMA TrapV3ReadsArePlan == TrapV3Reads \in Plans(Flagged)
<1> DEFINE h == HeaderReads(Read("octets"))
           depth == <<1, 2, 2, 2, 2, 2, 1>>
           o == <<Read("octets")>>
<1>1. h \in Seq(Simple) /\ Leads(h, 1, 1)
  <2>1. h \in Seq(Simple)
    BY SimpleReads DEF HeaderReads
  <2>2. /\ depth \in [1..7 -> Nat \ {0}] /\ Len(h) = 6
        /\ \A k \in 1..6 : depth[k + 1] = depth[k] + Deeper(h[k])
    BY SimpleReads DEF HeaderReads
  <2>3. depth[1] = 1 /\ depth[7] = 1
    OBVIOUS
  <2> HIDE DEF h, depth
  <2> QED
    BY <2>1, <2>2, <2>3 DEF Leads
<1>2. o \in Seq(Simple) /\ Leads(o, 1, 1)
  <2>1. /\ <<1, 1>> \in [1..2 -> Nat \ {0}] /\ Len(o) = 1 /\ o \in Seq(Simple)
        /\ \A k \in 1..1 : <<1, 1>>[k + 1] = <<1, 1>>[k] + Deeper(o[k])
    BY SimpleReads
  <2> QED
    BY <2>1 DEF Leads
<1> HIDE DEF h, o
<1>3. h \o o \in Seq(Simple) /\ Leads(h \o o, 1, 1)
  BY <1>1, <1>2, LeadsOn
<1> DEFINE p == h \o o
<1>4. TrapV3Reads = p \o ScopedReads
  BY DEF TrapV3Reads, h, o
<1>5. p \in Seq(Simple) /\ Leads(p, 1, 1)
  BY <1>3
<1> HIDE DEF p
<1>6. p \o ScopedReads \in Plans(Simple)
  BY <1>5, ScopedReadsArePlan, PlanAfter
<1> QED
  BY <1>4, <1>6, SimpleToFlagged

LEMMA UsmReadsLead == UsmReads \in Seq(Simple) /\ Leads(UsmReads, 2, 1)
<1> DEFINE depth == <<2, 3, 3, 3, 3, 3, 3, 3, 2, 1>>
<1>1. UsmReads \in Seq(Simple)
  BY SimpleReads DEF UsmReads
<1>2. /\ depth \in [1..10 -> Nat \ {0}] /\ Len(UsmReads) = 9
      /\ \A k \in 1..9 : depth[k + 1] = depth[k] + Deeper(UsmReads[k])
  BY SimpleReads DEF UsmReads
<1> QED
  BY <1>1, <1>2 DEF Leads

LEMMA V3ReadsArePlan == V3Reads \in Plans(Flagged)
<1> DEFINE S == Simple \cup {Read("usm")}
           Rest(encrypted) == <<Read("usm"), Read(IF encrypted THEN "octets" ELSE "full")>>
           next == [encrypted \in BOOLEAN |-> Rest(encrypted)]
           depth == <<1, 2, 2, 2, 2, 2, 1>>
<1>1. ASSUME NEW encrypted \in BOOLEAN
      PROVE  Rest(encrypted) \in Plans(S)
  <2> DEFINE last == Read(IF encrypted THEN "octets" ELSE "full")
             p == <<Read("usm"), last>>
  <2>1. last \in Simple /\ Deeper(last) = 0
    BY SimpleReads
  <2>2. ~Special(last)
    BY <2>1, SimpleIs
  <2>3. Deeper(Read("usm")) = 0
    BY DEF Read, Deeper
  <2> HIDE DEF last
  <2>4. p \in Seq(S) /\ Len(p) = 2 /\ p[1] = Read("usm") /\ p[2] = last
    BY <2>1
  <2>5. Leads(p, 1, 1)
    <3>1. /\ <<1, 1, 1>> \in [1..3 -> Nat \ {0}]
          /\ \A k \in 1..2 : <<1, 1, 1>>[k + 1] = <<1, 1, 1>>[k] + Deeper(p[k])
      BY <2>1, <2>3, <2>4
    <3> QED
      BY <2>4, <3>1 DEF Leads
  <2>6. OneSpecial(p)
    BY <2>2, <2>4 DEF OneSpecial
  <2> QED
    BY <2>4, <2>5, <2>6 DEF Plans, last
<1> HIDE DEF Rest, S
<1>2. next \in [BOOLEAN -> Plans(S)]
  BY <1>1
<1>3. Flags(next) \in Flagged /\ Deeper(Flags(next)) = 0
  <2>1. Flags(next) \in Flagged
    BY <1>2 DEF Flagged, S
  <2> QED
    BY <2>1 DEF Flags, Deeper
<1>4. V3Reads = HeaderReads(Flags(next))
  BY DEF V3Reads, Rest
<1> HIDE DEF next
<1> DEFINE f == Flags(next)
           h == HeaderReads(f)
<1> HIDE DEF f
<1>5. f \in Flagged /\ Deeper(f) = 0
  BY <1>3 DEF f
<1>6. /\ Sequence \in Flagged /\ Read("i32") \in Flagged /\ Leave \in Flagged
      /\ ~Special(Sequence) /\ ~Special(Read("i32")) /\ ~Special(Leave)
  BY SimpleReads, SimpleIs
<1>7. h \in Seq(Flagged)
  BY <1>5, <1>6 DEF HeaderReads
<1>8. OneSpecial(h)
  <2>1. Len(h) = 6 /\ \A k \in 1..6 : k # 4 => ~Special(h[k])
    BY <1>6 DEF HeaderReads
  <2> QED
    BY <2>1 DEF OneSpecial
<1>9. Leads(h, 1, 1)
  <2>1. /\ depth \in [1..7 -> Nat \ {0}] /\ Len(h) = 6
        /\ \A k \in 1..6 : depth[k + 1] = depth[k] + Deeper(h[k])
    BY <1>5, SimpleReads DEF HeaderReads
  <2> QED
    BY <2>1 DEF Leads
<1> QED
  BY <1>4, <1>7, <1>8, <1>9 DEF Plans, f

\* What each decoder reads.
LEMMA ReadsArePlans == \A d \in DOMAIN Reads : Reads[d] \in Plans(Items)
<1>1. ASSUME NEW keys \in SUBSET Int, NEW next \in [keys -> Plans(Flagged)]
      PROVE  <<Sequence, Version(next)>> \in Plans(Items)
  <2> DEFINE v == Version(next)
             p == <<Sequence, v>>
  <2>1. v \in Items
    BY DEF Items
  <2>2. Deeper(v) = 0
    BY DEF Version, Deeper
  <2> HIDE DEF v
  <2>3. Sequence \in Items /\ ~Special(Sequence) /\ Deeper(Sequence) = 1
    BY SimpleReads, SimpleIs
  <2>4. p \in Seq(Items) /\ Len(p) = 2 /\ p[1] = Sequence /\ p[2] = v
    BY <2>1, <2>3
  <2>5. OneSpecial(p)
    BY <2>3, <2>4 DEF OneSpecial
  <2>6. Leads(p, 1, 2)
    <3>1. /\ <<1, 2, 2>> \in [1..3 -> Nat \ {0}]
          /\ \A k \in 1..2 : <<1, 2, 2>>[k + 1] = <<1, 2, 2>>[k] + Deeper(p[k])
      BY <2>2, <2>3, <2>4
    <3> QED
      BY <2>4, <3>1 DEF Leads
  <2> QED
    BY <2>4, <2>5, <2>6 DEF Plans, v
<1>2. Reads.response \in Plans(Items)
  <2>1. [v \in {0, 1, 3} |-> ResponseReads] \in [{0, 1, 3} -> Plans(Flagged)]
    BY ResponseReadsArePlan
  <2> QED
    BY <1>1, <2>1 DEF Reads
<1>3. Reads.v3 \in Plans(Items)
  <2>1. [v \in {3} |-> V3Reads] \in [{3} -> Plans(Flagged)]
    BY V3ReadsArePlan
  <2> QED
    BY <1>1, <2>1 DEF Reads
<1>4. Reads.trap \in Plans(Items)
  <2> DEFINE next == [v \in {0, 1, 3} |->
                        CASE v = 0 -> TrapV1Reads [] v = 1 -> TrapV2cReads
                          [] v = 3 -> TrapV3Reads]
  <2>1. next \in [{0, 1, 3} -> Plans(Flagged)]
    BY TrapV1ReadsArePlan, TrapV2cReadsArePlan, TrapV3ReadsArePlan
  <2> HIDE DEF next
  <2>2. <<Sequence, Version(next)>> \in Plans(Items)
    BY <1>1, <2>1
  <2> QED
    BY <2>2, Zenon DEF Reads, next
<1>5. Reads.scoped \in Plans(Items)
  BY ScopedReadsArePlan, SimpleToFlagged DEF Reads
<1>6. DOMAIN Reads = {"response", "trap", "v3", "scoped"}
  BY DEF Reads
<1> QED
  BY <1>2, <1>3, <1>4, <1>5, <1>6

-----------------------------------------------------------------------------
\* What a step does to the decoders.

\* A TLV read by the innermost of them.
LEMMA TlvRead ==
    ASSUME NEW stack \in Seq(Slices), stack # <<>>,
           ReadTlv(stack[1].data, stack[1].pos).status = "ok"
    PROVE  \E from, len \in Nat :
              /\ stack[1].pos + 2 <= from /\ from + len <= Len(stack[1].data)
              /\ SubSeq(stack[1].data, from + 1, from + len) \in Seq(Byte)
              /\ Len(SubSeq(stack[1].data, from + 1, from + len)) = len
              /\ ReadTlv(stack[1].data, stack[1].pos).value =
                    SubSeq(stack[1].data, from + 1, from + len)
              /\ ReadTlv(stack[1].data, stack[1].pos).pos = from + len
<1> DEFINE data == stack[1].data
           pos == stack[1].pos
<1>1. stack[1] \in Slices
  BY NonEmpty
<1>2. data \in Seq(Byte) /\ pos \in Nat
  BY <1>1, SliceIs
<1>3. ReadTlv(data, pos).status = "ok"
  OBVIOUS
<1> HIDE DEF data, pos
<1>4. PICK from, len \in Nat :
         /\ pos + 2 <= from /\ from + len <= Len(data)
         /\ SubSeq(data, from + 1, from + len) \in Seq(Byte)
         /\ Len(SubSeq(data, from + 1, from + len)) = len
         /\ ReadTlv(data, pos) =
              [status |-> "ok", tag |-> data[pos + 1],
               value |-> SubSeq(data, from + 1, from + len),
               pos |-> from + len,
               full |-> SubSeq(data, pos + 1, from + len)]
  <2>1. PICK from, len \in Nat : TlvOf(data, pos, from, len)
    BY <1>2, <1>3, ReadTlvIs
  <2> QED
    BY <1>3, <2>1 DEF TlvOf
<1>5. /\ ReadTlv(data, pos).value = SubSeq(data, from + 1, from + len)
      /\ ReadTlv(data, pos).pos = from + len
  <2> DEFINE part == SubSeq(data, from + 1, from + len)
             all == SubSeq(data, pos + 1, from + len)
             end == from + len
             first == data[pos + 1]
  <2>1. ReadTlv(data, pos) =
          [status |-> "ok", tag |-> first, value |-> part, pos |-> end, full |-> all]
    BY <1>4
  <2> HIDE DEF part, all, end, first
  <2>2. ReadTlv(data, pos).value = part /\ ReadTlv(data, pos).pos = end
    BY <2>1
  <2> QED
    BY <2>2 DEF part, end
<1> QED
  BY <1>4, <1>5 DEF data, pos

\* It moves on by two bytes at least.
LEMMA Advancing ==
    ASSUME NEW stack \in Seq(Slices), stack # <<>>, NestedIn(stack),
           NEW start, Placed(stack, start),
           ReadTlv(stack[1].data, stack[1].pos).status = "ok",
           NEW new, new = AdvancedOn(stack, ReadTlv(stack[1].data, stack[1].pos).pos)
    PROVE  /\ new \in Seq(Slices) /\ Len(new) = Len(stack) /\ NestedIn(new)
           /\ Placed(new, start)
           /\ start[1] \in Nat /\ stack[1].pos \in Nat /\ new[1].pos \in Nat
           /\ stack[1].pos + 2 <= new[1].pos
<1>1. PICK from, len \in Nat :
         /\ stack[1].pos + 2 <= from /\ from + len <= Len(stack[1].data)
         /\ ReadTlv(stack[1].data, stack[1].pos).pos = from + len
  BY TlvRead
<1>2. /\ Len(stack) \in Nat \ {0} /\ 1 \in 1..Len(stack) /\ stack[1] \in Slices
  BY NonEmpty
<1>3. stack[1].pos \in Nat
  BY <1>2, SliceIs
<1>4. from + len \in Nat /\ stack[1].pos <= from + len /\ stack[1].pos + 2 <= from + len
  BY <1>1, <1>3
<1>5. new = AdvancedOn(stack, from + len)
  BY <1>1
<1>6. new \in Seq(Slices) /\ Len(new) = Len(stack)
      /\ new[1] = [data |-> stack[1].data, pos |-> from + len]
  BY <1>1, <1>4, <1>5, AdvancedIs
<1>7. NestedIn(new) /\ Placed(new, start)
  BY <1>1, <1>4, <1>5, AdvancedNested
<1>8. new[1].pos = from + len
  BY <1>6
<1>9. start[1] \in Nat
  BY <1>2 DEF Placed
<1> QED
  BY <1>3, <1>4, <1>6, <1>7, <1>8, <1>9

\* A decoder on the contents starts two bytes on at least.
LEMMA Entering ==
    ASSUME NEW stack \in Seq(Slices), stack # <<>>, NestedIn(stack),
           NEW start, Placed(stack, start),
           ReadTlv(stack[1].data, stack[1].pos).status = "ok",
           NEW new,
           new = <<Frame(ReadTlv(stack[1].data, stack[1].pos).value)>> \o
                 AdvancedOn(stack, ReadTlv(stack[1].data, stack[1].pos).pos)
    PROVE  /\ new \in Seq(Slices) /\ Len(new) = Len(stack) + 1 /\ NestedIn(new)
           /\ \E after : /\ Placed(new, after)
                         /\ start[1] \in Nat /\ after[1] \in Nat
                         /\ stack[1].pos \in Nat /\ new[1].pos \in Nat
                         /\ start[1] + stack[1].pos + 2 <= after[1] + new[1].pos
<1>1. PICK from, len \in Nat :
         /\ stack[1].pos + 2 <= from /\ from + len <= Len(stack[1].data)
         /\ SubSeq(stack[1].data, from + 1, from + len) \in Seq(Byte)
         /\ Len(SubSeq(stack[1].data, from + 1, from + len)) = len
         /\ ReadTlv(stack[1].data, stack[1].pos).value =
               SubSeq(stack[1].data, from + 1, from + len)
         /\ ReadTlv(stack[1].data, stack[1].pos).pos = from + len
  BY TlvRead
<1> DEFINE value == SubSeq(stack[1].data, from + 1, from + len)
           outer == AdvancedOn(stack, from + len)
<1>2. /\ Len(stack) \in Nat \ {0} /\ 1 \in 1..Len(stack) /\ stack[1] \in Slices
  BY NonEmpty
<1>3. stack[1].pos \in Nat
  BY <1>2, SliceIs
<1>4. from + len \in Nat /\ stack[1].pos <= from + len
  BY <1>1, <1>3
<1>5. new = <<Frame(value)>> \o outer
  BY <1>1
<1>6. outer \in Seq(Slices) /\ Len(outer) = Len(stack)
      /\ outer[1] = [data |-> stack[1].data, pos |-> from + len]
  BY <1>1, <1>4, AdvancedIs
<1>7. NestedIn(outer) /\ Placed(outer, start)
  BY <1>1, <1>4, AdvancedNested
<1>8. /\ value \in Seq(Byte) /\ Len(value) = len
      /\ value = SubSeq(stack[1].data, from + 1, from + len)
  BY <1>1
<1> HIDE DEF value, outer
<1>9. outer # <<>>
  BY <1>2, <1>6
<1>10. outer[1].data = stack[1].data /\ outer[1].pos = from + len
  BY <1>6
<1>11. value = SubSeq(outer[1].data, from + 1, from + len)
  BY <1>8, <1>10
<1>12. /\ Frame(value) \in Slices /\ NestedIn(<<Frame(value)>> \o outer)
       /\ \E after : /\ Placed(<<Frame(value)>> \o outer, after)
                     /\ after[1] = start[1] + from
  BY <1>6, <1>7, <1>8, <1>9, <1>10, <1>11, PushedNested
<1>13. /\ new \in Seq(Slices) /\ Len(new) = Len(stack) + 1 /\ new[1] = Frame(value)
  <2>1. outer \in Seq(Slices) /\ Frame(value) \in Slices
    BY <1>6, <1>12
  <2>2. /\ <<Frame(value)>> \o outer \in Seq(Slices)
        /\ Len(<<Frame(value)>> \o outer) = Len(outer) + 1
        /\ (<<Frame(value)>> \o outer)[1] = Frame(value)
    BY <2>1, PushedIs
  <2> QED
    BY <1>5, <1>6, <2>2
<1>14. PICK after : Placed(new, after) /\ after[1] = start[1] + from
  BY <1>5, <1>12
<1>15. start[1] \in Nat
  BY <1>2 DEF Placed
<1>16. new[1].pos = 0
  BY <1>13 DEF Frame
<1>17. /\ after[1] \in Nat /\ new[1].pos \in Nat
       /\ start[1] + stack[1].pos + 2 <= after[1] + new[1].pos
  <2>1. PICK s \in Nat : s = start[1]
    BY <1>15
  <2>2. PICK q \in Nat : q = stack[1].pos
    BY <1>3
  <2>3. q + 2 <= from
    BY <1>1, <2>2
  <2>4. after[1] = s + from
    BY <1>14, <2>1
  <2>5. after[1] \in Nat /\ s + q + 2 <= after[1]
    BY <2>3, <2>4
  <2> QED
    BY <1>16, <2>1, <2>2, <2>5
<1>18. NestedIn(new)
  BY <1>5, <1>12
<1> QED
  BY <1>3, <1>13, <1>14, <1>15, <1>17, <1>18

-----------------------------------------------------------------------------
\* The invariant.

Opened == frames \in Seq(Slices) /\ NestedIn(frames)

\* What is still to be read leaves a decoder to read it with.
Planned ==
    /\ todo \in Seq(Items) /\ OneSpecial(todo)
    /\ \E last : Leads(todo, Len(frames), last)

\* Every field cost two bytes that the innermost decoder is past, but for the
\* ten of the one read that may have made six fields of two bytes.
Slack == IF NoSpecial(todo) THEN 10 ELSE 0

Counted ==
    /\ \E S : fields \in Seq(S)
    /\ \E start : /\ Placed(frames, start)
                  /\ 2 * Len(fields) <= start[1] + frames[1].pos + Slack

DecoderInv ==
    /\ message \in Messages
    /\ harm \in {"none", "trailing", "cut", "changed"}
    /\ status \in {"reading", "ok", "error", "panic"}
    /\ Opened /\ Planned /\ Counted
    /\ PanicsOnHugeLengthOnly

LEMMA OpenedIs ==
    ASSUME Opened, Planned
    PROVE  /\ frames # <<>> /\ frames[1] \in Slices /\ Top = frames[1]
           /\ Len(frames) \in Nat \ {0}
<1>1. Len(frames) \in Nat \ {0}
  BY DEF Planned, Leads
<1>2. frames # <<>>
  BY <1>1
<1> QED
  BY <1>1, <1>2, NonEmpty DEF Opened, Top

LEMMA HarmedIs ==
    ASSUME NEW bytes \in Seq(Byte), Bytes \subseteq AnyTag,
           NEW h \in {"none", "trailing", "cut", "changed"},
           NEW data \in Harmed(bytes, h)
    PROVE  data \in Seq(Byte) /\ Len(data) <= Len(bytes) + 1
<1>1. Bytes \subseteq Byte /\ Len(bytes) \in Nat
  BY DEF AnyTag, Byte
<1>2. CASE h = "none"
  <2>1. data = bytes
    BY <1>2 DEF Harmed
  <2> QED
    BY <1>1, <2>1
<1>3. CASE h = "trailing"
  <2>1. PICK b \in Bytes : data = Append(bytes, b)
    BY <1>3 DEF Harmed
  <2> QED
    BY <1>1, <2>1
<1>4. CASE h = "cut"
  <2>1. PICK n \in DOMAIN bytes : data = SubSeq(bytes, 1, n - 1)
    BY <1>4 DEF Harmed
  <2>2. n - 1 \in 0..Len(bytes)
    BY <1>1
  <2>3. data \in Seq(Byte) /\ Len(data) = n - 1
    BY <2>1, <2>2, PrefixIs
  <2> QED
    BY <1>1, <2>2, <2>3
<1>5. CASE h = "changed"
  <2>1. PICK i \in DOMAIN bytes : \E b \in Bytes : data = [bytes EXCEPT ![i] = b]
    BY <1>5 DEF Harmed
  <2>2. PICK b \in Bytes : data = [bytes EXCEPT ![i] = b]
    BY <2>1
  <2> QED
    BY <1>1, <2>2
<1> QED
  BY <1>2, <1>3, <1>4, <1>5

\* What the first read of the list leaves of it.
LEMMA ItemTaken ==
    ASSUME Planned, todo # <<>>
    PROVE  /\ Item \in Items /\ Tail(todo) \in Seq(Items) /\ OneSpecial(Tail(todo))
           /\ Special(Item) => NoSpecial(Tail(todo)) /\ ~NoSpecial(todo)
           /\ NoSpecial(todo) => NoSpecial(Tail(todo))
           /\ Len(frames) \in Nat \ {0} /\ Len(frames) + Deeper(Item) \in Nat \ {0}
           /\ \E last \in Nat \ {0} : Leads(Tail(todo), Len(frames) + Deeper(Item), last)
<1>1. todo \in Seq(Items) /\ OneSpecial(todo)
  BY DEF Planned
<1>2. PICK last : Leads(todo, Len(frames), last)
  BY DEF Planned
<1>3. Item \in Items /\ Tail(todo) \in Seq(Items)
  BY <1>1, HeadTailProperties DEF Item
<1>4. /\ OneSpecial(Tail(todo))
      /\ Special(Head(todo)) => NoSpecial(Tail(todo))
      /\ NoSpecial(todo) => NoSpecial(Tail(todo)) /\ ~Special(Head(todo))
  BY <1>1, SpecialAfter
<1>5. /\ Len(frames) \in Nat \ {0} /\ Len(frames) + Deeper(Head(todo)) \in Nat \ {0}
      /\ Leads(Tail(todo), Len(frames) + Deeper(Head(todo)), last)
  BY <1>1, <1>2, LeadsAfter
<1>6. last \in Nat \ {0}
  BY <1>1, <1>2 DEF Leads
<1> QED
  BY <1>3, <1>4, <1>5, <1>6 DEF Item

LEMMA InitDecoder == Init => DecoderInv
<1> SUFFICES ASSUME Init PROVE DecoderInv
  OBVIOUS
<1>1. /\ message \in Messages /\ message.decoder \in DOMAIN Reads
      /\ message.bytes \in Seq(Byte)
      /\ 2 * (Len(message.bytes) + 1) < 256^U64Bytes
      /\ Bytes \subseteq AnyTag
  BY DecoderAssumption DEF Init, AnyTag, Byte
<1>2. PICK data \in Harmed(message.bytes, harm) : frames = <<Frame(data)>>
  BY DEF Init
<1>3. data \in Seq(Byte) /\ Len(data) <= Len(message.bytes) + 1
  BY <1>1, <1>2, HarmedIs DEF Init
<1>4. Frame(data) \in Slices /\ Frame(data).pos = 0
  <2>1. 256^U64Bytes \in Nat /\ Len(data) \in Nat /\ Len(message.bytes) \in Nat
    BY <1>1, <1>3, PowersGrow
  <2>2. 2 * Len(data) < 256^U64Bytes
    BY <1>1, <1>3, <2>1
  <2>3. [data |-> data, pos |-> 0].data = data /\ [data |-> data, pos |-> 0].pos = 0
        /\ [data |-> data, pos |-> 0] \in [data : Seq(Byte), pos : Nat]
    BY <1>3
  <2>4. 0 <= Len(data)
    BY <2>1
  <2> QED
    BY <2>2, <2>3, <2>4 DEF Frame, Slices
<1>5. /\ frames \in Seq(Slices) /\ Len(frames) = 1
      /\ frames[1] \in Slices /\ frames[1].pos = 0
  BY <1>2, <1>4
<1>6. Opened
  BY <1>5 DEF Opened, NestedIn
<1>7. Planned
  <2>1. todo \in Plans(Items)
    BY <1>1, ReadsArePlans DEF Init
  <2> QED
    BY <1>5, <2>1 DEF Plans, Planned
<1>8. Counted
  <2>1. Placed(frames, [i \in 1..1 |-> 0])
    <3>1. Len(frames[1].data) \in Nat
      BY <1>5, SliceIs
    <3> QED
      BY <1>5, <3>1 DEF Placed
  <2>2. fields = <<>> /\ Len(fields) = 0 /\ fields \in Seq({})
    BY DEF Init
  <2>3. 2 * Len(fields) <= [i \in 1..1 |-> 0][1] + frames[1].pos + Slack
    BY <1>5, <2>2 DEF Slack
  <2> QED
    BY <2>1, <2>2, <2>3 DEF Counted
<1>9. status = "reading"
  BY DEF Init
<1> QED
  BY <1>1, <1>6, <1>7, <1>8, <1>9 DEF Init, DecoderInv, PanicsOnHugeLengthOnly

\* One more field for two bytes more.
LEMMA FieldAdded ==
    ASSUME NEW S, NEW list \in Seq(S), NEW x
    PROVE  /\ \E T : Append(list, x) \in Seq(T)
           /\ Len(Append(list, x)) = Len(list) + 1 /\ Len(list) \in Nat
<1>1. list \in Seq(S \cup {x}) /\ x \in S \cup {x}
  OBVIOUS
<1>2. /\ Append(list, x) \in Seq(S \cup {x})
      /\ Len(Append(list, x)) = Len(list) + 1
  BY <1>1
<1> QED
  BY <1>2

\* The panic of a read: a length of usize's bytes or more, and past it with
\* the position of its contents.
LEMMA HugeLength ==
    ASSUME NEW f \in Slices, ReadTlv(f.data, f.pos).status = "panic"
    PROVE  \E i \in DOMAIN f.data :
              /\ f.data[i] >= 128 + U64Bytes
              /\ LET end == i + f.data[i] - 128
                 IN  /\ end <= Len(f.data)
                     /\ end + DecodeUnsigned(SubSeq(f.data, i + 1, end), U64Bytes)
                          >= 256^U64Bytes
<1>1. PICK data \in Seq(Byte) : data = f.data
  BY SliceIs
<1>2. PICK pos \in Nat : pos = f.pos
  BY SliceIs
<1>3. 2 * Len(data) < 256^U64Bytes /\ Len(data) \in Nat
  BY <1>1, SliceIs
<1>4. PICK from, len \in Nat :
         /\ ReadLength(data, pos + 1) = [status |-> "ok", len |-> len, pos |-> from]
         /\ from + len >= 256^U64Bytes
  <2>1. ReadTlv(data, pos).status = "panic"
    BY <1>1, <1>2
  <2>2. PICK from, len \in Nat : TlvOf(data, pos, from, len)
    BY <2>1, ReadTlvIs
  <2> QED
    BY <2>1, <2>2 DEF TlvOf
<1>5. /\ pos + 1 < Len(data) /\ from <= Len(data)
      /\ \/ data[pos + 2] < 128 /\ len = data[pos + 2]
         \/ /\ data[pos + 2] >= 128 /\ from = pos + 2 + (data[pos + 2] - 128)
            /\ len = DecodeUnsigned(SubSeq(data, pos + 3, from), U64Bytes)
  <2>1. PICK at \in Nat : at = pos + 1
    OBVIOUS
  <2>2. ReadLength(data, at) = [status |-> "ok", len |-> len, pos |-> from]
    BY <1>4, <2>1
  <2>3. PICK end, l \in Nat :
           /\ at < Len(data) /\ end <= Len(data)
           /\ ReadLength(data, at) = [status |-> "ok", len |-> l, pos |-> end]
           /\ \/ data[at + 1] < 128 /\ l = data[at + 1]
              \/ /\ data[at + 1] >= 128 /\ end = at + 1 + (data[at + 1] - 128)
                 /\ l = DecodeUnsigned(SubSeq(data, at + 2, end), U64Bytes)
    BY <2>2, ReadLengthIs
  <2>4. end = from /\ l = len
    BY <2>2, <2>3
  <2>5. at + 1 = pos + 2 /\ at + 2 = pos + 3
    BY <2>1
  <2> QED
    BY <2>1, <2>3, <2>4, <2>5
<1>6. pos + 2 \in 1..Len(data) /\ pos + 2 \in DOMAIN data /\ data[pos + 2] \in Byte
  BY <1>3, <1>5
<1>7. PICK first \in 0..255 : first = data[pos + 2]
  BY <1>6 DEF Byte
<1> DEFINE t == 256^(U64Bytes - 1)
<1>8. /\ t \in Nat \ {0} /\ 256^U64Bytes = 256 * t
      /\ \A k \in 0..(U64Bytes - 1) : 256^k <= t
  BY PowersGrow
<1> HIDE DEF t
<1>9. ~(len < t)
  <2>1. ASSUME NEW n \in Nat, 2 * n < 256 * t, from <= n, len < t,
               from + len >= 256 * t
        PROVE  FALSE
    BY <1>8, <2>1
  <2> QED
    BY <1>3, <1>4, <1>5, <1>8, <2>1
<1>10. ~(first < 128)
  <2>1. ASSUME NEW n \in Nat, 2 * n < 256 * t, from <= n, len < 128,
               from + len >= 256 * t
        PROVE  FALSE
    BY <1>8, <2>1
  <2>2. ASSUME first < 128 PROVE len < 128
    BY <1>5, <1>7, <2>2
  <2> QED
    BY <1>3, <1>4, <1>5, <1>8, <2>1, <2>2
<1>11. /\ from = pos + 2 + (first - 128)
       /\ len = DecodeUnsigned(SubSeq(data, pos + 3, from), U64Bytes)
  BY <1>5, <1>7, <1>10
<1>12. first - 128 >= U64Bytes
  <2> DEFINE part == SubSeq(data, pos + 3, from)
  <2>1. from \in 0..Len(data) /\ pos + 3 \in Nat \ {0}
    BY <1>3, <1>5
  <2>2. part \in Seq(Byte) /\ Len(part) = IF pos + 3 <= from THEN from - (pos + 3) + 1 ELSE 0
    BY <2>1, SliceType
  <2>3. Len(part) = first - 128
    BY <1>10, <1>11, <2>2
  <2>4. SUFFICES ASSUME ~(first - 128 >= U64Bytes) PROVE FALSE
    OBVIOUS
  <2>5. first - 128 \in 0..(U64Bytes - 1) /\ Len(part) < U64Bytes
    BY <1>10, <2>3, <2>4, WidthAssumption
  <2>6. len < 256^(first - 128)
    BY <1>11, <2>2, <2>3, <2>5, DecodeUnsignedIs
  <2>7. 256^(first - 128) <= t
    BY <1>8, <2>5
  <2>8. 256^(first - 128) \in Nat
    BY <2>5, PowerAssumption
  <2> DEFINE q == 256^(first - 128)
  <2>9. q \in Nat /\ q <= t /\ len < q
    BY <2>6, <2>7, <2>8
  <2> HIDE DEF q
  <2> QED
    BY <1>8, <1>9, <2>9
<1>13. data[pos + 2] >= 128 + U64Bytes
  BY <1>7, <1>12, WidthAssumption
<1>14. pos + 2 + first - 128 = from /\ pos + 2 + 1 = pos + 3
  BY <1>11
<1>15. pos + 2 + data[pos + 2] - 128 = from
  BY <1>7, <1>14
<1>16. from + DecodeUnsigned(SubSeq(data, pos + 2 + 1, from), U64Bytes) >= 256^U64Bytes
  BY <1>4, <1>11, <1>14
<1>17. /\ pos + 2 + data[pos + 2] - 128 <= Len(data)
       /\ (pos + 2 + data[pos + 2] - 128)
            + DecodeUnsigned(SubSeq(data, pos + 2 + 1, pos + 2 + data[pos + 2] - 128), U64Bytes)
               >= 256^U64Bytes
  BY <1>5, <1>15, <1>16
<1> QED
  BY <1>1, <1>6, <1>13, <1>17

-----------------------------------------------------------------------------
\* The steps.

\* The current TLV, as the lemmas above name it.
LEMMA CurrentIs ==
    ASSUME Opened, Planned
    PROVE  /\ Current = ReadTlv(frames[1].data, frames[1].pos)
           /\ \A pos : AdvancedTo(pos) = AdvancedOn(frames, pos)
BY OpenedIs DEF Current, AdvancedTo, AdvancedOn, Top

\* What a step pays for its fields.
LEMMA Budget ==
    ASSUME NEW l \in Nat, NEW m \in Nat, NEW s \in {0, 10}, NEW t \in {0, 10},
           NEW was \in Nat, NEW now \in Nat,
           2 * l <= was + s, s <= t, was + 2 * (m - l) <= now
    PROVE  2 * m <= now + t
OBVIOUS

\* A decoding that ends leaves the decoders as they are.
LEMMA EndKeeps ==
    ASSUME DecoderInv, NEW how, how \in {"ok", "error", "panic"}, End(how),
           how = "panic" => todo # <<>> /\ Current.status = "panic"
    PROVE  DecoderInv'
<1>1. UNCHANGED <<message, harm, frames, todo, fields>> /\ status' = how
  BY DEF End
<1>2. Opened' /\ Planned' /\ Counted'
  BY <1>1 DEF DecoderInv, Opened, Planned, Counted, Slack
<1>3. PanicsOnHugeLengthOnly'
  <2> SUFFICES ASSUME how = "panic" PROVE PanicsOnHugeLengthOnly'
    BY <1>1 DEF PanicsOnHugeLengthOnly
  <2>1. Top \in Slices /\ ReadTlv(Top.data, Top.pos).status = "panic"
    BY OpenedIs DEF DecoderInv, Current
  <2>2. Top' = Top
    BY <1>1 DEF Top
  <2>3. \E i \in DOMAIN Top.data :
           /\ Top.data[i] >= 128 + U64Bytes
           /\ LET end == i + Top.data[i] - 128
              IN  /\ end <= Len(Top.data)
                  /\ end + DecodeUnsigned(SubSeq(Top.data, i + 1, end), U64Bytes)
                       >= 256^U64Bytes
    BY <2>1, HugeLength
  <2> QED
    BY <2>2, <2>3 DEF PanicsOnHugeLengthOnly
<1> QED
  BY <1>1, <1>2, <1>3 DEF DecoderInv

LEMMA EnterStep == DecoderInv /\ EnterTlv => DecoderInv'
<1> SUFFICES ASSUME DecoderInv, EnterTlv PROVE DecoderInv'
  OBVIOUS
<1>1. /\ todo # <<>> /\ Item.op = "enter" /\ Current.status = "ok"
      /\ frames' = <<Frame(Current.value)>> \o AdvancedTo(Current.pos)
      /\ todo' = Tail(todo)
      /\ fields' = Append(fields, Current.tag) \/ fields' = fields
      /\ status' = "reading" /\ message' = message /\ harm' = harm
  BY DEF EnterTlv, Doing, Goes
<1>2. Opened /\ Planned /\ frames # <<>> /\ Len(frames) \in Nat \ {0}
  BY OpenedIs DEF DecoderInv
<1>3. PICK S : fields \in Seq(S)
  BY DEF DecoderInv, Counted
<1>4. PICK start : /\ Placed(frames, start)
                   /\ 2 * Len(fields) <= start[1] + frames[1].pos + Slack
  BY DEF DecoderInv, Counted
<1>5. /\ frames' \in Seq(Slices) /\ Len(frames') = Len(frames) + 1 /\ NestedIn(frames')
      /\ \E after : /\ Placed(frames', after)
                    /\ start[1] \in Nat /\ after[1] \in Nat
                    /\ frames[1].pos \in Nat /\ frames'[1].pos \in Nat
                    /\ start[1] + frames[1].pos + 2 <= after[1] + frames'[1].pos
  BY <1>1, <1>2, <1>4, CurrentIs, Entering DEF Opened
<1>6. PICK last \in Nat \ {0} : Leads(Tail(todo), Len(frames) + 1, last)
  BY <1>1, <1>2, ItemTaken DEF Deeper
<1>7. Opened'
  BY <1>5 DEF Opened
<1>8. Planned'
  BY <1>1, <1>2, <1>5, <1>6, ItemTaken DEF Planned
<1>9. Slack \in {0, 10} /\ Slack' \in {0, 10} /\ Slack <= Slack'
  BY <1>1, <1>2, ItemTaken DEF Slack
<1>10. /\ Len(fields) \in Nat /\ Len(fields') \in Nat /\ Len(fields') <= Len(fields) + 1
       /\ \E T : fields' \in Seq(T)
  <2>1. CASE fields' = fields
    BY <1>3, <2>1
  <2>2. CASE fields' = Append(fields, Current.tag)
    <3>1. /\ \E T : Append(fields, Current.tag) \in Seq(T)
          /\ Len(Append(fields, Current.tag)) = Len(fields) + 1 /\ Len(fields) \in Nat
      BY <1>3, FieldAdded
    <3> QED
      BY <2>2, <3>1
  <2> QED
    BY <1>1, <2>1, <2>2
<1>11. Counted'
  <2>1. PICK after : /\ Placed(frames', after)
                     /\ start[1] \in Nat /\ after[1] \in Nat
                     /\ frames[1].pos \in Nat /\ frames'[1].pos \in Nat
                     /\ start[1] + frames[1].pos + 2 <= after[1] + frames'[1].pos
    BY <1>5
  <2>2. 2 * Len(fields') <= after[1] + frames'[1].pos + Slack'
    <3> DEFINE old == Len(fields)
               now == Len(fields')
               a == start[1]
               b == after[1]
               c == frames[1].pos
               d == frames'[1].pos
               e == Slack
               f == Slack'
    <3>1. /\ old \in Nat /\ now \in Nat /\ now <= old + 1
          /\ a \in Nat /\ b \in Nat /\ c \in Nat /\ d \in Nat
          /\ e \in {0, 10} /\ f \in {0, 10} /\ e <= f
          /\ a + c + 2 <= b + d /\ 2 * old <= a + c + e
      BY <1>4, <1>9, <1>10, <2>1
    <3> HIDE DEF old, now, a, b, c, d, e, f
    <3>2. 2 * now <= b + d + f
      BY <3>1
    <3> QED
      BY <3>2 DEF now, b, d, f
  <2> QED
    BY <1>10, <2>1, <2>2 DEF Counted
<1>12. PanicsOnHugeLengthOnly'
  BY <1>1 DEF PanicsOnHugeLengthOnly
<1> QED
  BY <1>1, <1>7, <1>8, <1>11, <1>12 DEF DecoderInv

\* A list appended to what is left after a special read.
LEMMA PlanAppended ==
    ASSUME NEW n \in Nat \ {0}, NEW list \in Seq(Items), NoSpecial(list),
           NEW last \in Nat \ {0}, Leads(list, n, last), NEW p \in Plans(Items)
    PROVE  /\ list \o p \in Seq(Items) /\ OneSpecial(list \o p)
           /\ \E final : Leads(list \o p, n, final)
<1>1. p \in Seq(Items) /\ OneSpecial(p)
  BY DEF Plans
<1>2. PICK b : Leads(p, 1, b)
  BY DEF Plans
<1>3. b \in Nat \ {0}
  BY <1>1, <1>2 DEF Leads
<1>4. Leads(p, last, b + (last - 1))
  <2>1. last - 1 \in Nat /\ 1 + (last - 1) = last
    OBVIOUS
  <2> QED
    BY <1>1, <1>2, <1>3, <2>1, LeadsHigher
<1>5. Leads(list \o p, n, b + (last - 1))
  BY <1>1, <1>4, LeadsOn
<1> QED
  BY <1>1, <1>5, SpecialJoined

LEMMA ReadFieldStep == DecoderInv /\ ReadField => DecoderInv'
<1> SUFFICES ASSUME DecoderInv, ReadField PROVE DecoderInv'
  OBVIOUS
<1>1. /\ todo # <<>> /\ Item.op = "read" /\ Current.status = "ok"
      /\ frames' = AdvancedTo(Current.pos)
      /\ \/ todo' = Tail(todo)
         \/ /\ "next" \in DOMAIN Item
            /\ \E key \in DOMAIN Item.next : todo' = Tail(todo) \o Item.next[key]
      /\ \E field : fields' = Append(fields, field)
      /\ status' = "reading" /\ message' = message /\ harm' = harm
  BY DEF ReadField, Doing, Goes
<1>2. Opened /\ Planned /\ frames # <<>> /\ Len(frames) \in Nat \ {0}
  BY OpenedIs DEF DecoderInv
<1>3. PICK S : fields \in Seq(S)
  BY DEF DecoderInv, Counted
<1>4. PICK start : /\ Placed(frames, start)
                   /\ 2 * Len(fields) <= start[1] + frames[1].pos + Slack
  BY DEF DecoderInv, Counted
<1>5. /\ frames' \in Seq(Slices) /\ Len(frames') = Len(frames) /\ NestedIn(frames')
      /\ Placed(frames', start)
      /\ start[1] \in Nat /\ frames[1].pos \in Nat /\ frames'[1].pos \in Nat
      /\ frames[1].pos + 2 <= frames'[1].pos
  BY <1>1, <1>2, <1>4, CurrentIs, Advancing DEF Opened
<1>6. PICK last \in Nat \ {0} : Leads(Tail(todo), Len(frames), last)
  <2>1. Deeper(Item) = 0 /\ Len(frames) + 0 = Len(frames)
    BY <1>1, <1>2 DEF Deeper
  <2> QED
    BY <1>1, <1>2, <2>1, ItemTaken
<1>7. Opened'
  BY <1>5 DEF Opened
<1>8. Planned' /\ Slack \in {0, 10} /\ Slack' \in {0, 10} /\ Slack <= Slack'
  <2>1. CASE todo' = Tail(todo)
    BY <1>2, <1>1, <1>5, <1>6, <2>1, ItemTaken DEF Planned, Slack
  <2>2. CASE /\ "next" \in DOMAIN Item
             /\ \E key \in DOMAIN Item.next : todo' = Tail(todo) \o Item.next[key]
    <3>1. PICK key \in DOMAIN Item.next : todo' = Tail(todo) \o Item.next[key]
      BY <2>2
    <3>2. Special(Item) /\ Item.next[key] \in Plans(Items)
      BY <1>1, <1>2, <2>2, ItemTaken, ItemIs
    <3>3. NoSpecial(Tail(todo)) /\ ~NoSpecial(todo) /\ Tail(todo) \in Seq(Items)
      BY <1>1, <1>2, <3>2, ItemTaken
    <3>4. /\ todo' \in Seq(Items) /\ OneSpecial(todo')
          /\ \E final : Leads(todo', Len(frames), final)
      BY <1>2, <1>6, <3>1, <3>2, <3>3, PlanAppended
    <3>5. Planned'
      BY <1>5, <3>4 DEF Planned
    <3> QED
      BY <3>3, <3>5 DEF Slack
  <2> QED
    BY <1>1, <2>1, <2>2
<1>9. /\ Len(fields) \in Nat /\ Len(fields') = Len(fields) + 1
      /\ \E T : fields' \in Seq(T)
  BY <1>1, <1>3, FieldAdded
<1>10. Counted'
  <2>1. 2 * Len(fields') <= start[1] + frames'[1].pos + Slack'
    <3> DEFINE was == start[1] + frames[1].pos
               now == start[1] + frames'[1].pos
    <3>1. was \in Nat /\ now \in Nat /\ was + 2 <= now
      BY <1>5
    <3>2. Len(fields') \in Nat /\ 2 * Len(fields) <= was + Slack
      BY <1>4, <1>9
    <3> HIDE DEF was, now
    <3>3. was + 2 * (Len(fields') - Len(fields)) <= now
      BY <1>9, <3>1
    <3>4. 2 * Len(fields') <= now + Slack'
      BY <1>8, <1>9, <3>1, <3>2, <3>3, Budget
    <3> QED
      BY <3>4 DEF now
  <2> QED
    BY <1>5, <1>9, <2>1 DEF Counted
<1>11. PanicsOnHugeLengthOnly'
  BY <1>1 DEF PanicsOnHugeLengthOnly
<1> QED
  BY <1>1, <1>7, <1>8, <1>10, <1>11 DEF DecoderInv

LEMMA ReadUsmStep == DecoderInv /\ ReadUsm => DecoderInv'
<1> SUFFICES ASSUME DecoderInv, ReadUsm PROVE DecoderInv'
  OBVIOUS
<1>1. /\ todo # <<>> /\ Item.op = "read" /\ Item.as = "usm" /\ Current.status = "ok"
      /\ status' = "reading" /\ message' = message /\ harm' = harm
  BY DEF ReadUsm, Doing, Goes
<1>2. Opened /\ Planned /\ frames # <<>> /\ Len(frames) \in Nat \ {0}
  BY OpenedIs DEF DecoderInv
<1>3. PICK S : fields \in Seq(S)
  BY DEF DecoderInv, Counted
<1>4. PICK start : /\ Placed(frames, start)
                   /\ 2 * Len(fields) <= start[1] + frames[1].pos + Slack
  BY DEF DecoderInv, Counted
<1>5. PICK last \in Nat \ {0} : Leads(Tail(todo), Len(frames), last)
  <2>1. Deeper(Item) = 0 /\ Len(frames) + 0 = Len(frames)
    BY <1>1, <1>2 DEF Deeper
  <2> QED
    BY <1>1, <1>2, <2>1, ItemTaken
<1>6. /\ Tail(todo) \in Seq(Items) /\ OneSpecial(Tail(todo))
      /\ NoSpecial(Tail(todo)) /\ ~NoSpecial(todo)
  BY <1>1, <1>2, ItemTaken, ItemIs
<1>7. Slack = 0
  BY <1>6 DEF Slack
<1>8. PanicsOnHugeLengthOnly'
  BY <1>1 DEF PanicsOnHugeLengthOnly
<1>9. CASE Current.value = <<>>
  <2>1. /\ fields' = fields \o << <<>>, 0, 0, <<>>, <<>>, <<>> >>
        /\ frames' = AdvancedTo(Current.pos) /\ todo' = Tail(todo)
    BY <1>9 DEF ReadUsm
  <2>2. /\ frames' \in Seq(Slices) /\ Len(frames') = Len(frames) /\ NestedIn(frames')
        /\ Placed(frames', start)
        /\ start[1] \in Nat /\ frames[1].pos \in Nat /\ frames'[1].pos \in Nat
        /\ frames[1].pos + 2 <= frames'[1].pos
    BY <1>1, <1>2, <1>4, <2>1, CurrentIs, Advancing DEF Opened
  <2>3. Opened' /\ Planned' /\ Slack' = 10
    BY <1>2, <1>5, <1>6, <2>1, <2>2 DEF Opened, Planned, Slack
  <2>4. /\ Len(fields') = Len(fields) + 6 /\ Len(fields) \in Nat
        /\ \E T : fields' \in Seq(T)
    <3> DEFINE six == << <<>>, 0, 0, <<>>, <<>>, <<>> >>
               T == S \cup { <<>>, 0 }
    <3>1. six \in Seq(T) /\ Len(six) = 6 /\ fields \in Seq(T)
      BY <1>3
    <3> HIDE DEF six, T
    <3>2. fields \o six \in Seq(T) /\ Len(fields \o six) = Len(fields) + Len(six)
      BY <3>1, ConcatProperties
    <3> QED
      BY <1>3, <2>1, <3>1, <3>2 DEF six
  <2>5. Counted'
    <3>1. 2 * Len(fields') <= start[1] + frames'[1].pos + Slack'
      <4> DEFINE old == Len(fields)
                 now == Len(fields')
                 a == start[1]
                 c == frames[1].pos
                 d == frames'[1].pos
      <4>1. /\ old \in Nat /\ now = old + 6 /\ a \in Nat /\ c \in Nat /\ d \in Nat
            /\ c + 2 <= d /\ 2 * old <= a + c /\ Slack' = 10
        BY <1>4, <1>7, <2>2, <2>3, <2>4
      <4> HIDE DEF old, now, a, c, d
      <4>2. 2 * now <= a + d + 10
        BY <4>1
      <4> QED
        BY <4>1, <4>2 DEF now, a, d
    <3> QED
      BY <2>2, <2>4, <3>1 DEF Counted
  <2> QED
    BY <1>1, <1>8, <2>3, <2>5 DEF DecoderInv
<1>10. CASE Current.value # <<>>
  <2>1. /\ fields' = fields /\ todo' = UsmReads \o Tail(todo)
        /\ frames' = <<Frame(Current.value)>> \o AdvancedTo(Current.pos)
    BY <1>10 DEF ReadUsm
  <2>2. /\ frames' \in Seq(Slices) /\ Len(frames') = Len(frames) + 1 /\ NestedIn(frames')
        /\ \E after : /\ Placed(frames', after)
                      /\ start[1] \in Nat /\ after[1] \in Nat
                      /\ frames[1].pos \in Nat /\ frames'[1].pos \in Nat
                      /\ start[1] + frames[1].pos + 2 <= after[1] + frames'[1].pos
    BY <1>1, <1>2, <1>4, <2>1, CurrentIs, Entering DEF Opened
  <2>3. UsmReads \in Seq(Items) /\ NoSpecial(UsmReads)
    <3>1. Simple \subseteq Items
      BY SimpleIs
    <3> QED
      BY <3>1, UsmReadsLead, SimpleList
  <2>4. Leads(todo', Len(frames'), last)
    <3>1. /\ Len(frames) - 1 \in Nat /\ 2 + (Len(frames) - 1) = Len(frames) + 1
          /\ 1 + (Len(frames) - 1) = Len(frames)
      BY <1>2
    <3>2. Leads(UsmReads, 2 + (Len(frames) - 1), 1 + (Len(frames) - 1))
      BY <3>1, UsmReadsLead, LeadsHigher
    <3>3. Leads(UsmReads, Len(frames) + 1, Len(frames))
      BY <3>1, <3>2
    <3> QED
      BY <1>5, <1>6, <2>1, <2>2, <2>3, <3>3, LeadsOn
  <2>5. todo' \in Seq(Items) /\ OneSpecial(todo') /\ NoSpecial(todo')
    <3> DEFINE rest == Tail(todo)
    <3>1. rest \in Seq(Items) /\ OneSpecial(rest) /\ NoSpecial(rest)
      BY <1>6
    <3> HIDE DEF rest
    <3>2. /\ UsmReads \o rest \in Seq(Items)
          /\ OneSpecial(UsmReads \o rest) /\ NoSpecial(UsmReads \o rest)
      BY <2>3, <3>1, SpecialJoined, ConcatProperties
    <3> QED
      BY <2>1, <3>2 DEF rest
  <2>6. Opened' /\ Planned' /\ Slack' = 10
    BY <2>2, <2>4, <2>5 DEF Opened, Planned, Slack
  <2>7. Counted'
    <3>1. PICK after : /\ Placed(frames', after)
                       /\ start[1] \in Nat /\ after[1] \in Nat
                       /\ frames[1].pos \in Nat /\ frames'[1].pos \in Nat
                       /\ start[1] + frames[1].pos + 2 <= after[1] + frames'[1].pos
      BY <2>2
    <3>2. 2 * Len(fields') <= after[1] + frames'[1].pos + Slack'
      <4>1. Len(fields) \in Nat
        BY <1>3
      <4> QED
        BY <1>4, <1>7, <2>1, <2>6, <3>1, <4>1
    <3> QED
      BY <1>3, <2>1, <3>1, <3>2 DEF Counted
  <2> QED
    BY <1>1, <1>8, <2>6, <2>7 DEF DecoderInv
<1> QED
  BY <1>9, <1>10

LEMMA LeaveStep == DecoderInv /\ LeaveTlv => DecoderInv'
<1> SUFFICES ASSUME DecoderInv, LeaveTlv PROVE DecoderInv'
  OBVIOUS
<1>1. /\ todo # <<>> /\ Item.op = "leave"
      /\ frames' = Tail(frames) /\ todo' = Tail(todo) /\ fields' = fields
      /\ status' = "reading" /\ message' = message /\ harm' = harm
  BY DEF LeaveTlv, Doing, Goes
<1>2. Opened /\ Planned /\ frames # <<>> /\ Len(frames) \in Nat \ {0}
  BY OpenedIs DEF DecoderInv
<1>3. PICK S : fields \in Seq(S)
  BY DEF DecoderInv, Counted
<1>4. PICK start : /\ Placed(frames, start)
                   /\ 2 * Len(fields) <= start[1] + frames[1].pos + Slack
  BY DEF DecoderInv, Counted
<1>5. Deeper(Item) = -1 /\ Len(frames) + (-1) = Len(frames) - 1
  BY <1>1, <1>2 DEF Deeper
<1>6. Len(frames) - 1 \in Nat \ {0} /\ Len(frames) >= 2
  <2>1. Len(frames) + Deeper(Item) \in Nat \ {0}
    BY <1>1, <1>2, ItemTaken
  <2> QED
    BY <1>2, <1>5, <2>1
<1>7. PICK last \in Nat \ {0} : Leads(Tail(todo), Len(frames) - 1, last)
  BY <1>1, <1>2, <1>5, ItemTaken
<1>8. /\ frames' \in Seq(Slices) /\ Len(frames') = Len(frames) - 1
  BY <1>1, <1>2, LeftIs DEF Opened
<1>9. /\ NestedIn(frames')
      /\ \E new : /\ Placed(frames', new)
                  /\ start[1] + frames[1].pos <= new[1] + frames'[1].pos
  BY <1>1, <1>2, <1>4, <1>6, LeftNested DEF Opened
<1>10. Opened' /\ Planned'
  BY <1>1, <1>2, <1>7, <1>8, <1>9, ItemTaken DEF Opened, Planned
<1>11. Slack \in {0, 10} /\ Slack' \in {0, 10} /\ Slack <= Slack'
  BY <1>1, <1>2, ItemTaken DEF Slack
<1>12. Counted'
  <2>1. PICK new : /\ Placed(frames', new)
                   /\ start[1] + frames[1].pos <= new[1] + frames'[1].pos
    BY <1>9
  <2>2. /\ 1 \in 1..Len(frames) /\ 1 \in 1..Len(frames')
        /\ frames[1] \in Slices /\ frames'[1] \in Slices
    BY <1>2, <1>6, <1>8 DEF Opened
  <2>3. /\ start[1] \in Nat /\ new[1] \in Nat
        /\ frames[1].pos \in Nat /\ frames'[1].pos \in Nat
    BY <1>4, <2>1, <2>2, SliceIs DEF Placed
  <2>4. 2 * Len(fields') <= new[1] + frames'[1].pos + Slack'
    <3> DEFINE was == start[1] + frames[1].pos
               now == new[1] + frames'[1].pos
    <3>1. was \in Nat /\ now \in Nat /\ was <= now
      BY <2>1, <2>3
    <3>2. Len(fields) \in Nat /\ 2 * Len(fields) <= was + Slack
      BY <1>3, <1>4
    <3> HIDE DEF was, now
    <3>3. was + 2 * (Len(fields) - Len(fields)) <= now
      BY <3>1, <3>2
    <3>4. 2 * Len(fields) <= now + Slack'
      BY <1>11, <3>1, <3>2, <3>3, Budget
    <3> QED
      BY <1>1, <3>4 DEF now
  <2> QED
    BY <1>1, <1>3, <2>1, <2>4 DEF Counted
<1>13. PanicsOnHugeLengthOnly'
  BY <1>1 DEF PanicsOnHugeLengthOnly
<1> QED
  BY <1>1, <1>10, <1>12, <1>13 DEF DecoderInv

LEMMA BindingStep == DecoderInv /\ NextBinding => DecoderInv'
<1> SUFFICES ASSUME DecoderInv, NextBinding PROVE DecoderInv'
  OBVIOUS
<1> DEFINE binding == <<Sequence, Read("oid"), Read("value"), Leave>>
<1>1. /\ todo # <<>> /\ Item.op = "bindings"
      /\ frames' = frames /\ fields' = fields
      /\ todo' = binding \o todo \/ todo' = Tail(todo)
      /\ status' = "reading" /\ message' = message /\ harm' = harm
  BY DEF NextBinding, Doing, Goes
<1>2. Opened /\ Planned /\ frames # <<>> /\ Len(frames) \in Nat \ {0}
  BY OpenedIs DEF DecoderInv
<1>3. PICK last : Leads(todo, Len(frames), last)
  BY <1>2 DEF Planned
<1>4. Planned' /\ (NoSpecial(todo) => NoSpecial(todo'))
  <2>1. CASE todo' = Tail(todo)
    <3>1. Deeper(Item) = 0 /\ Len(frames) + 0 = Len(frames)
      BY <1>1, <1>2 DEF Deeper
    <3> QED
      BY <1>1, <1>2, <2>1, <3>1, ItemTaken DEF Planned
  <2>2. CASE todo' = binding \o todo
    <3>1. binding \in Seq(Simple)
      BY SimpleReads
    <3>2. Leads(binding, 1, 1)
      <4> DEFINE depth == <<1, 2, 2, 2, 1>>
      <4>1. /\ depth \in [1..5 -> Nat \ {0}] /\ Len(binding) = 4
            /\ \A k \in 1..4 : depth[k + 1] = depth[k] + Deeper(binding[k])
        BY SimpleReads
      <4>2. depth[1] = 1 /\ depth[5] = 1
        OBVIOUS
      <4> HIDE DEF depth, binding
      <4> QED
        BY <4>1, <4>2 DEF Leads
    <3> HIDE DEF binding
    <3>3. Simple \subseteq Items
      BY SimpleIs
    <3>4. binding \in Seq(Items) /\ NoSpecial(binding) /\ todo \in Seq(Items)
      BY <1>2, <3>1, <3>3, SimpleList DEF Planned
    <3>5. Leads(binding, Len(frames), Len(frames))
      <4>1. Len(frames) - 1 \in Nat /\ 1 + (Len(frames) - 1) = Len(frames)
        BY <1>2
      <4> QED
        BY <3>1, <3>2, <4>1, LeadsHigher
    <3>6. Leads(todo', Len(frames), last)
      BY <1>3, <2>2, <3>4, <3>5, LeadsOn
    <3>7. /\ todo' \in Seq(Items) /\ OneSpecial(todo')
          /\ NoSpecial(todo) => NoSpecial(todo')
      BY <1>2, <2>2, <3>4, SpecialJoined DEF Planned
    <3> QED
      BY <1>1, <3>6, <3>7 DEF Planned
  <2> QED
    BY <1>1, <2>1, <2>2
<1>5. Opened'
  BY <1>1, <1>2 DEF Opened
<1>6. Counted'
  <2>1. PICK S : fields \in Seq(S)
    BY DEF DecoderInv, Counted
  <2>2. PICK start : /\ Placed(frames, start)
                     /\ 2 * Len(fields) <= start[1] + frames[1].pos + Slack
    BY DEF DecoderInv, Counted
  <2>3. Slack \in {0, 10} /\ Slack' \in {0, 10} /\ Slack <= Slack'
    BY <1>4 DEF Slack
  <2>4. /\ start[1] \in Nat /\ frames[1].pos \in Nat
    BY <1>2, <2>2, OpenedIs, SliceIs DEF Placed
  <2>5. 2 * Len(fields') <= start[1] + frames'[1].pos + Slack'
    <3>1. Len(fields) \in Nat
      BY <2>1
    <3> QED
      BY <1>1, <2>2, <2>3, <2>4, <3>1
  <2> QED
    BY <1>1, <2>1, <2>2, <2>5 DEF Counted
<1>7. PanicsOnHugeLengthOnly'
  BY <1>1 DEF PanicsOnHugeLengthOnly
<1> QED
  BY <1>1, <1>4, <1>5, <1>6, <1>7 DEF DecoderInv

LEMMA FailStep == DecoderInv /\ (EnterFails \/ ReadFails) => DecoderInv'
<1> SUFFICES ASSUME DecoderInv, EnterFails \/ ReadFails PROVE DecoderInv'
  OBVIOUS
<1>1. todo # <<>> /\ (End("error") \/ (Current.status # "ok" /\ End(Current.status)))
  BY DEF EnterFails, ReadFails, Doing
<1>2. Current.status \in {"ok", "error", "panic"}
  <2>1. Opened /\ Planned /\ frames[1] \in Slices
    BY OpenedIs DEF DecoderInv
  <2>2. frames[1].data \in Seq(Byte) /\ frames[1].pos \in Nat
    BY <2>1, SliceIs
  <2>3. ReadTlv(frames[1].data, frames[1].pos).status \in {"ok", "error", "panic"}
    <3>1. \A data \in Seq(Byte) : \A pos \in Nat :
             ReadTlv(data, pos).status \in {"ok", "error", "panic"}
      <4> TAKE data \in Seq(Byte)
      <4> TAKE pos \in Nat
      <4>1. \/ ReadTlv(data, pos).status = "error"
            \/ \E from, len \in Nat : TlvOf(data, pos, from, len)
        BY ReadTlvIs
      <4>2. ASSUME NEW from \in Nat, NEW len \in Nat, TlvOf(data, pos, from, len)
            PROVE  ReadTlv(data, pos).status \in {"ok", "panic"}
        <5>1. CASE ReadTlv(data, pos).status = "panic"
          BY <5>1
        <5>2. CASE ReadTlv(data, pos) =
                     [status |-> "ok", tag |-> data[pos + 1],
                      value |-> SubSeq(data, from + 1, from + len), pos |-> from + len,
                      full |-> SubSeq(data, pos + 1, from + len)]
          BY <5>2
        <5> QED
          BY <4>2, <5>1, <5>2 DEF TlvOf
      <4> QED
        BY <4>1, <4>2
    <3> QED
      BY <2>2, <3>1
  <2> QED
    BY <2>1, <2>3, CurrentIs
<1>3. CASE End("error")
  BY <1>3, EndKeeps
<1>4. CASE Current.status # "ok" /\ End(Current.status)
  BY <1>1, <1>2, <1>4, EndKeeps
<1> QED
  BY <1>1, <1>3, <1>4

LEMMA NextDecoder == DecoderInv /\ [Next]_vars => DecoderInv'
<1> SUFFICES ASSUME DecoderInv, [Next]_vars PROVE DecoderInv'
  OBVIOUS
<1>1. CASE UNCHANGED vars
  BY <1>1 DEF vars, DecoderInv, Opened, Planned, Counted, Slack,
              PanicsOnHugeLengthOnly, Top
<1>2. CASE Finish
  BY <1>2, EndKeeps DEF Finish
<1> QED
  BY <1>1, <1>2, EnterStep, ReadFieldStep, ReadUsmStep, LeaveStep, BindingStep,
     FailStep DEF Next

LEMMA DecoderAlways == Spec => []DecoderInv
BY InitDecoder, NextDecoder, PTL DEF Spec

\* The decoders of a message are always slices of one another, and there is
\* always one to read with: no function of codec.rs, v3.rs or trap.rs goes on
\* with an outer decoder that it does not have.
THEOREM TypeCorrect == Spec => []TypeOK
<1>1. DecoderInv => TypeOK
  <2> SUFFICES ASSUME DecoderInv PROVE TypeOK
    OBVIOUS
  <2>1. Opened /\ frames # <<>>
    BY OpenedIs DEF DecoderInv
  <2>2. \A i \in DOMAIN frames : frames[i] \in Slices
    BY <2>1 DEF Opened
  <2>3. \A i \in DOMAIN frames : frames[i].pos \in 0..Len(frames[i].data)
    BY <2>2, SliceIs
  <2>4. Nested
    BY <2>1 DEF Opened, NestedIn, Nested
  <2>5. message.decoder \in DOMAIN Reads
    BY DecoderAssumption DEF DecoderInv
  <2> QED
    BY <2>1, <2>3, <2>4, <2>5 DEF TypeOK, DecoderInv
<1> QED
  BY <1>1, DecoderAlways, PTL

\* A decoder panics at a length of as many bytes as usize that reaches past it
\* with its position, and at nothing else, whatever a byte was changed to.
THEOREM PanicsAtHugeLength == Spec => []PanicsOnHugeLengthOnly
<1>1. DecoderInv => PanicsOnHugeLengthOnly
  BY DEF DecoderInv
<1> QED
  BY <1>1, DecoderAlways, PTL

\* What a decoder reads is bounded by the message: the loop over the bindings
\* (decode_varbinds) takes two bytes for every field at least.
THEOREM WorkIsBounded == Spec => []WorkBounded
<1>1. DecoderInv => WorkBounded
  <2> SUFFICES ASSUME DecoderInv PROVE WorkBounded
    OBVIOUS
  <2>1. Opened /\ Len(frames) \in Nat \ {0} /\ frames[1] \in Slices
    BY OpenedIs DEF DecoderInv
  <2>2. PICK start : /\ Placed(frames, start)
                     /\ 2 * Len(fields) <= start[1] + frames[1].pos + Slack
    BY DEF DecoderInv, Counted
  <2>3. PICK S : fields \in Seq(S)
    BY DEF DecoderInv, Counted
  <2>4. 1 \in 1..Len(frames) /\ Len(frames) \in 1..Len(frames)
    BY <2>1
  <2>5. frames[Len(frames)] \in Slices
    BY <2>1, <2>4 DEF Opened
  <2>6. /\ start[1] \in Nat
        /\ start[1] + Len(frames[1].data) <= Len(frames[Len(frames)].data)
    BY <2>2, <2>4 DEF Placed
  <2>7. /\ frames[1].pos \in Nat /\ Len(frames[1].data) \in Nat
        /\ frames[1].pos <= Len(frames[1].data)
        /\ Len(frames[Len(frames)].data) \in Nat
    BY <2>1, <2>5, SliceIs
  <2>8. Slack \in {0, 10} /\ Len(fields) \in Nat
    BY <2>3 DEF Slack
  <2> DEFINE s == start[1]
             q == frames[1].pos
             l == Len(frames[1].data)
             total == Len(frames[Len(frames)].data)
  <2>9. /\ s \in Nat /\ q \in Nat /\ l \in Nat /\ total \in Nat
        /\ q <= l /\ s + l <= total /\ 2 * Len(fields) <= s + q + Slack
    BY <2>2, <2>6, <2>7
  <2>10. WorkBounded <=> 2 * Len(fields) <= total + 10
    BY DEF WorkBounded
  <2> HIDE DEF s, q, l, total
  <2> QED
    BY <2>8, <2>9, <2>10
<1> QED
  BY <1>1, DecoderAlways, PTL
-----------------------------------------------------------------------------
\* What a decoding comes to, when nothing of the message was lost or changed.

\* What is read, apart from the message: the decoders, the reads still to be
\* made and what was read so far.
Config(stack, list, read) == [frames |-> stack, todo |-> list, fields |-> read]

Now == Config(frames, todo, fields)

NextTlv(c) == ReadTlv(Head(c.frames).data, Head(c.frames).pos)

\* A read of c's that is not refused, and the c that it leaves.
Enters(c, d) ==
    /\ Head(c.todo).op = "enter"
    /\ Head(c.frames).pos < Len(Head(c.frames).data)
    /\ Head(c.frames).data[Head(c.frames).pos + 1] \in Head(c.todo).tags
    /\ NextTlv(c).status = "ok"
    /\ d = Config(<<Frame(NextTlv(c).value)>> \o AdvancedOn(c.frames, NextTlv(c).pos),
                  Tail(c.todo),
                  IF Head(c.todo).tags = AnyTag THEN Append(c.fields, NextTlv(c).tag)
                  ELSE c.fields)

Takes(c) ==
    /\ Head(c.todo).op = "read"
    /\ NextTlv(c).status = "ok"
    /\ Acceptable(Head(c.todo).as, NextTlv(c).tag, NextTlv(c).value)

Chosen(as, field) ==
    IF as = "version" THEN field ELSE field # <<>> /\ (field[1] \div 2) % 2 = 1

Gets(c, d) ==
    /\ Takes(c)
    /\ Head(c.todo).as \notin {"version", "usm"} /\ "next" \notin DOMAIN Head(c.todo)
    /\ d = Config(AdvancedOn(c.frames, NextTlv(c).pos), Tail(c.todo),
                  Append(c.fields, FieldOf(Head(c.todo).as, NextTlv(c))))

Chooses(c, d) ==
    LET as == Head(c.todo).as
        field == FieldOf(as, NextTlv(c))
    IN  /\ Takes(c) /\ as # "usm" /\ "next" \in DOMAIN Head(c.todo)
        /\ Chosen(as, field) \in DOMAIN Head(c.todo).next
        /\ d = Config(AdvancedOn(c.frames, NextTlv(c).pos),
                      Tail(c.todo) \o Head(c.todo).next[Chosen(as, field)],
                      Append(c.fields, field))

GetsUsm(c, d) ==
    /\ Takes(c) /\ Head(c.todo).as = "usm"
    /\ d = IF NextTlv(c).value = <<>>
           THEN Config(AdvancedOn(c.frames, NextTlv(c).pos), Tail(c.todo),
                       c.fields \o << <<>>, 0, 0, <<>>, <<>>, <<>> >>)
           ELSE Config(<<Frame(NextTlv(c).value)>> \o AdvancedOn(c.frames, NextTlv(c).pos),
                       UsmReads \o Tail(c.todo), c.fields)

Leaves(c, d) ==
    /\ Head(c.todo).op = "leave"
    /\ d = Config(Tail(c.frames), Tail(c.todo), c.fields)

Repeats(c, d) ==
    /\ Head(c.todo).op = "bindings"
    /\ d = Config(c.frames,
                  IF Head(c.frames).pos < Len(Head(c.frames).data)
                  THEN <<Sequence, Read("oid"), Read("value"), Leave>> \o c.todo
                  ELSE Tail(c.todo),
                  c.fields)

Moves(c, d) ==
    /\ c.todo # <<>>
    /\ \/ Enters(c, d) \/ Gets(c, d) \/ Chooses(c, d) \/ GetsUsm(c, d)
       \/ Leaves(c, d) \/ Repeats(c, d)

\* The reads from c on are all made, and the fields are then all.
Runs(c, all) ==
    \E n \in Nat : \E f :
        /\ f[0] = c
        /\ \A k \in 0..(n - 1) : Moves(f[k], f[k + 1])
        /\ f[n].todo = <<>> /\ f[n].fields = all

LEMMA RunsDone ==
    ASSUME NEW c, NEW all, c.todo = <<>>, c.fields = all
    PROVE  Runs(c, all)
<1> DEFINE f == [k \in {0} |-> c]
<1>1. f[0] = c /\ \A k \in 0..(0 - 1) : Moves(f[k], f[k + 1])
  OBVIOUS
<1> HIDE DEF f
<1>2. 0 \in Nat /\ f[0].todo = <<>> /\ f[0].fields = all
  BY <1>1
<1> QED
  BY <1>1, <1>2 DEF Runs

LEMMA RunsFrom ==
    ASSUME NEW c, NEW d, NEW all, Moves(c, d), Runs(d, all)
    PROVE  Runs(c, all)
<1>1. PICK n \in Nat : \E f :
         /\ f[0] = d
         /\ \A k \in 0..(n - 1) : Moves(f[k], f[k + 1])
         /\ f[n].todo = <<>> /\ f[n].fields = all
  BY DEF Runs
<1>2. PICK f : /\ f[0] = d
               /\ \A k \in 0..(n - 1) : Moves(f[k], f[k + 1])
               /\ f[n].todo = <<>> /\ f[n].fields = all
  BY <1>1
<1> DEFINE g == [k \in 0..(n + 1) |-> IF k = 0 THEN c ELSE f[k - 1]]
<1>3. g[0] = c /\ \A k \in 0..n : g[k + 1] = f[k]
  <2>1. \A k \in 0..n : k + 1 \in 0..(n + 1) /\ k + 1 # 0 /\ (k + 1) - 1 = k
    OBVIOUS
  <2>2. 0 \in 0..(n + 1)
    OBVIOUS
  <2> QED
    BY <2>1, <2>2
<1> HIDE DEF g
<1>4. \A k \in 0..((n + 1) - 1) : Moves(g[k], g[k + 1])
  <2> TAKE k \in 0..((n + 1) - 1)
  <2>1. CASE k = 0
    <3>1. 0 \in 0..n /\ g[0 + 1] = f[0]
      BY <1>3
    <3> QED
      BY <1>2, <1>3, <2>1, <3>1
  <2>2. CASE k # 0
    <3>1. k \in 0..n /\ k - 1 \in 0..n /\ k - 1 \in 0..(n - 1) /\ (k - 1) + 1 = k
      BY <2>2
    <3>2. g[k + 1] = f[k]
      BY <1>3, <3>1
    <3>3. g[k] = f[k - 1]
      BY <1>3, <3>1
    <3>4. Moves(f[k - 1], f[k])
      BY <1>2, <3>1
    <3> QED
      BY <3>2, <3>3, <3>4
  <2> QED
    BY <2>1, <2>2
<1>5. n + 1 \in Nat /\ g[n + 1] = f[n]
  BY <1>3
<1> QED
  BY <1>2, <1>3, <1>4, <1>5 DEF Runs

LEMMA RunsOn ==
    ASSUME NEW c, NEW all, Runs(c, all)
    PROVE  \/ c.todo = <<>> /\ c.fields = all
           \/ \E d : Moves(c, d) /\ Runs(d, all)
<1>1. PICK n \in Nat : \E f :
         /\ f[0] = c
         /\ \A k \in 0..(n - 1) : Moves(f[k], f[k + 1])
         /\ f[n].todo = <<>> /\ f[n].fields = all
  BY DEF Runs
<1>2. PICK f : /\ f[0] = c
               /\ \A k \in 0..(n - 1) : Moves(f[k], f[k + 1])
               /\ f[n].todo = <<>> /\ f[n].fields = all
  BY <1>1
<1>3. CASE n = 0
  BY <1>2, <1>3
<1>4. CASE n # 0
  <2> DEFINE g == [k \in 0..(n - 1) |-> f[k + 1]]
  <2>1. n - 1 \in Nat /\ 0 \in 0..(n - 1) /\ n - 1 \in 0..(n - 1) /\ (n - 1) + 1 = n
    BY <1>4
  <2>2. \A k \in 0..(n - 1) : g[k] = f[k + 1]
    OBVIOUS
  <2> HIDE DEF g
  <2>3. g[0] = f[1] /\ g[n - 1] = f[n]
    BY <2>1, <2>2
  <2>4. \A k \in 0..((n - 1) - 1) : Moves(g[k], g[k + 1])
    <3> TAKE k \in 0..((n - 1) - 1)
    <3>1. k \in 0..(n - 1) /\ k + 1 \in 0..(n - 1)
      BY <2>1
    <3>2. g[k] = f[k + 1] /\ g[k + 1] = f[(k + 1) + 1]
      BY <2>2, <3>1
    <3>3. Moves(f[k + 1], f[(k + 1) + 1])
      BY <1>2, <3>1
    <3> QED
      BY <3>2, <3>3
  <2>5. Runs(f[1], all)
    BY <1>2, <2>1, <2>3, <2>4 DEF Runs
  <2>6. Moves(c, f[1])
    <3>1. Moves(f[0], f[0 + 1])
      BY <1>2, <2>1
    <3> QED
      BY <1>2, <3>1
  <2> QED
    BY <2>5, <2>6
<1> QED
  BY <1>3, <1>4

LEMMA NowIs ==
    /\ Now.frames = frames /\ Now.todo = todo /\ Now.fields = fields
    /\ Head(Now.frames) = Top /\ Head(Now.todo) = Item /\ NextTlv(Now) = Current
    /\ \A pos : AdvancedTo(pos) = AdvancedOn(frames, pos)
BY DEF Now, Config, NextTlv, Top, Item, Current, AdvancedTo, AdvancedOn

\* The decoding of a list that is not refused goes the one way there is.
LEMMA NextMoves ==
    ASSUME status = "reading", NEW d, Moves(Now, d), Next
    PROVE  Now' = d /\ status' = "reading" /\ UNCHANGED <<message, harm>>
<1>1. todo # <<>> /\ ~Finish
  BY NowIs DEF Moves, Finish
<1>2. \/ EnterTlv \/ EnterFails \/ ReadField \/ ReadUsm \/ ReadFails \/ LeaveTlv
      \/ NextBinding
  BY <1>1 DEF Next
<1>3. ASSUME Goes PROVE status' = "reading" /\ UNCHANGED <<message, harm>>
  BY <1>3 DEF Goes
<1>4. CASE Enters(Now, d)
  <2>1. /\ Item.op = "enter" /\ TagFits /\ Current.status = "ok"
        /\ d = Config(<<Frame(Current.value)>> \o AdvancedTo(Current.pos), Tail(todo),
                      IF Item.tags = AnyTag THEN Append(fields, Current.tag) ELSE fields)
    BY <1>4, NowIs DEF Enters, TagFits
  <2>2. EnterTlv
    BY <1>2, <2>1 DEF Doing, EnterFails, ReadField, ReadUsm, ReadFails, LeaveTlv,
                     NextBinding
  <2> QED
    BY <1>3, <2>1, <2>2 DEF EnterTlv, Now, Config
<1>5. CASE Gets(Now, d)
  <2>1. /\ Item.op = "read" /\ Current.status = "ok"
        /\ Acceptable(Item.as, Current.tag, Current.value)
        /\ Item.as \notin {"version", "usm"} /\ "next" \notin DOMAIN Item
        /\ d = Config(AdvancedTo(Current.pos), Tail(todo),
                      Append(fields, FieldOf(Item.as, Current)))
    BY <1>5, NowIs DEF Gets, Takes
  <2>2. ReadField
    BY <1>2, <2>1 DEF Doing, EnterTlv, EnterFails, ReadUsm, ReadFails, LeaveTlv,
                     NextBinding
  <2> QED
    BY <1>3, <2>1, <2>2 DEF ReadField, Now, Config
<1>6. CASE Chooses(Now, d)
  <2> DEFINE field == FieldOf(Item.as, Current)
  <2>1. /\ Item.op = "read" /\ Current.status = "ok"
        /\ Acceptable(Item.as, Current.tag, Current.value)
        /\ Item.as # "usm" /\ "next" \in DOMAIN Item
        /\ Chosen(Item.as, field) \in DOMAIN Item.next
        /\ d = Config(AdvancedTo(Current.pos),
                      Tail(todo) \o Item.next[Chosen(Item.as, field)],
                      Append(fields, field))
    BY <1>6, NowIs DEF Chooses, Takes
  <2>2. Chosen(Item.as, field) = Key(field)
    BY DEF Chosen, Key
  <2>3. Item.as = "version" => FieldOf("version", Current) \in DOMAIN Item.next
    BY <2>1 DEF Chosen
  <2>4. ReadField
    BY <1>2, <2>1, <2>3 DEF Doing, EnterTlv, EnterFails, ReadUsm, ReadFails, LeaveTlv,
                     NextBinding
  <2>5. /\ todo' = Tail(todo) \o Item.next[Key(field)]
        /\ fields' = Append(fields, field)
        /\ frames' = AdvancedTo(Current.pos) /\ Goes
    BY <2>1, <2>4 DEF ReadField
  <2> HIDE DEF field
  <2> QED
    BY <1>3, <2>1, <2>2, <2>5 DEF Now, Config
<1>7. CASE GetsUsm(Now, d)
  <2>1. /\ Item.op = "read" /\ Current.status = "ok" /\ Item.as = "usm"
        /\ Acceptable(Item.as, Current.tag, Current.value)
        /\ d = IF Current.value = <<>>
               THEN Config(AdvancedTo(Current.pos), Tail(todo),
                           fields \o << <<>>, 0, 0, <<>>, <<>>, <<>> >>)
               ELSE Config(<<Frame(Current.value)>> \o AdvancedTo(Current.pos),
                           UsmReads \o Tail(todo), fields)
    BY <1>7, NowIs DEF GetsUsm, Takes
  <2>2. ReadUsm
    BY <1>2, <2>1 DEF Doing, EnterTlv, EnterFails, ReadField, ReadFails, LeaveTlv,
                     NextBinding
  <2> QED
    BY <1>3, <2>1, <2>2 DEF ReadUsm, Now, Config
<1>8. CASE Leaves(Now, d)
  <2>1. Item.op = "leave" /\ d = Config(Tail(frames), Tail(todo), fields)
    BY <1>8, NowIs DEF Leaves
  <2>2. LeaveTlv
    BY <1>2, <2>1 DEF Doing, EnterTlv, EnterFails, ReadField, ReadUsm, ReadFails,
                     NextBinding
  <2> QED
    BY <1>3, <2>1, <2>2 DEF LeaveTlv, Now, Config
<1>9. CASE Repeats(Now, d)
  <2>1. /\ Item.op = "bindings"
        /\ d = Config(frames,
                      IF Top.pos < Len(Top.data)
                      THEN <<Sequence, Read("oid"), Read("value"), Leave>> \o todo
                      ELSE Tail(todo),
                      fields)
    BY <1>9, NowIs DEF Repeats
  <2>2. NextBinding
    BY <1>2, <2>1 DEF Doing, EnterTlv, EnterFails, ReadField, ReadUsm, ReadFails,
                     LeaveTlv
  <2> QED
    BY <1>3, <2>1, <2>2 DEF NextBinding, Now, Config
<1> QED
  BY <1>4, <1>5, <1>6, <1>7, <1>8, <1>9 DEF Moves

\* A decoding that runs to its end with some fields has them in the end.
Running(all) ==
    IF status = "reading" THEN Runs(Now, all) ELSE status = "ok" /\ fields = all

LEMMA RunningStep ==
    ASSUME NEW all, Running(all), [Next]_vars
    PROVE  Running(all)'
<1>1. CASE UNCHANGED vars
  <2>1. Now' = Now /\ status' = status /\ fields' = fields
    BY <1>1 DEF vars, Now, Config
  <2> QED
    BY <2>1 DEF Running
<1>2. CASE Next /\ status = "reading"
  <2>1. Runs(Now, all)
    BY <1>2 DEF Running
  <2>2. CASE Now.todo = <<>> /\ Now.fields = all
    <3>1. todo = <<>> /\ fields = all
      BY <2>2, NowIs
    <3>2. Finish
      BY <1>2, <3>1 DEF Next, Doing, EnterTlv, EnterFails, ReadField, ReadUsm,
                       ReadFails, LeaveTlv, NextBinding
    <3> QED
      BY <3>1, <3>2 DEF Finish, End, Running
  <2>3. CASE \E d : Moves(Now, d) /\ Runs(d, all)
    <3>1. PICK d : Moves(Now, d) /\ Runs(d, all)
      BY <2>3
    <3>2. Now' = d /\ status' = "reading"
      BY <1>2, <3>1, NextMoves
    <3> QED
      BY <3>1, <3>2 DEF Running
  <2> QED
    BY <2>1, <2>2, <2>3, RunsOn
<1>3. CASE Next /\ status # "reading"
  <2>1. FALSE
    BY <1>3 DEF Next, Doing, EnterTlv, EnterFails, ReadField, ReadUsm,
                ReadFails, LeaveTlv, NextBinding, Finish
  <2> QED
    BY <2>1
<1> QED
  BY <1>1, <1>2, <1>3

-----------------------------------------------------------------------------
\* How the reads of a list take the bytes of what was encoded.

\* What is read: numbers, octets and object identifiers, and values.
Types ==
    {"Integer", "OctetString", "Opaque", "ObjectIdentifier", "IpAddress", "Counter32",
     "Gauge32", "TimeTicks", "Counter64", "Null", "NoSuchObject", "NoSuchInstance",
     "EndOfMibView"}

Field == Int \cup Seq(Nat) \cup [type : Types, of : Int \cup Seq(Nat)]

Reader(data, pos) == [data |-> data, pos |-> pos]

Stack(data, pos, rest) == <<Reader(data, pos)>> \o rest

\* Wherever the bytes stand, the reads take them all and leave those fields,
\* and what they have chosen to be read in the end.
Consumes(reads, bytes, out, chosen) ==
    \A data \in Seq(Byte), pos \in Nat, rest \in Seq(Slices), next \in Seq(Items),
       done \in Seq(Field) : \A all :
        /\ 2 * Len(data) < 256^U64Bytes /\ Len(bytes) \in Sizes /\ At(data, pos, bytes)
        /\ Runs(Config(Stack(data, pos + Len(bytes), rest), next \o chosen,
                       done \o out), all)
        => Runs(Config(Stack(data, pos, rest), reads \o next, done), all)

\* Wherever the bytes stand, the reads end with those fields.
Concludes(reads, bytes, out) ==
    \A data \in Seq(Byte), pos \in Nat, rest \in Seq(Slices), done \in Seq(Field) :
        2 * Len(data) < 256^U64Bytes /\ Len(bytes) \in Sizes /\ At(data, pos, bytes)
        => Runs(Config(Stack(data, pos, rest), reads, done), done \o out)

LEMMA EmptyEnds ==
    ASSUME NEW S, NEW x \in Seq(S)
    PROVE  x \o <<>> = x /\ <<>> \o x = x
OBVIOUS

LEMMA SizesAre ==
    ASSUME NEW x \in Seq(Byte), NEW y \in Seq(Byte), Len(x \o y) \in Sizes
    PROVE  Len(x) \in Sizes /\ Len(y) \in Sizes
<1> DEFINE p == 256^3
           q == 256^U64Bytes
           m == Len(x)
           n == Len(y)
<1>1. m \in Nat /\ n \in Nat /\ Len(x \o y) = m + n
  OBVIOUS
<1>2. p \in Int /\ q \in Int
  BY PowersOf256, WidthAssumption
<1>3. m + n < p /\ m + n < q
  BY <1>1 DEF Sizes
<1> HIDE DEF p, q, m, n
<1>4. m < p /\ m < q /\ n < p /\ n < q
  BY <1>1, <1>2, <1>3
<1> QED
  BY <1>1, <1>4 DEF Sizes, p, q, m, n

LEMMA ConsumesBoth ==
    ASSUME NEW r1 \in Seq(Items), NEW r2 \in Seq(Items),
           NEW b1 \in Seq(Byte), NEW b2 \in Seq(Byte),
           NEW o1 \in Seq(Field), NEW o2 \in Seq(Field),
           NEW c1 \in Seq(Items), NEW c2 \in Seq(Items),
           Consumes(r1, b1, o1, c1), Consumes(r2, b2, o2, c2)
    PROVE  Consumes(r1 \o r2, b1 \o b2, o1 \o o2, c1 \o c2)
<1>1. \A next \in Seq(Items) :
         /\ next \o (c1 \o c2) = (next \o c1) \o c2 /\ next \o c1 \in Seq(Items)
         /\ r2 \o (next \o c1) = (r2 \o next) \o c1 /\ r2 \o next \in Seq(Items)
         /\ (r1 \o r2) \o next = r1 \o (r2 \o next)
  <2> TAKE next \in Seq(Items)
  <2>1. next \o (c1 \o c2) = (next \o c1) \o c2
    BY SMTT(60)
  <2>2. r2 \o (next \o c1) = (r2 \o next) \o c1
    BY SMTT(60)
  <2>3. (r1 \o r2) \o next = r1 \o (r2 \o next)
    BY SMTT(60)
  <2>4. next \o c1 \in Seq(Items) /\ r2 \o next \in Seq(Items)
    OBVIOUS
  <2> QED
    BY <2>1, <2>2, <2>3, <2>4
<1>2. \A done \in Seq(Field) :
          done \o (o1 \o o2) = (done \o o1) \o o2 /\ done \o o1 \in Seq(Field)
  BY SMTT(60)
<1> SUFFICES ASSUME NEW data \in Seq(Byte), NEW pos \in Nat, NEW rest \in Seq(Slices),
                    NEW next \in Seq(Items), NEW done \in Seq(Field), NEW all,
                    2 * Len(data) < 256^U64Bytes, Len(b1 \o b2) \in Sizes,
                    At(data, pos, b1 \o b2),
                    Runs(Config(Stack(data, pos + Len(b1 \o b2), rest),
                                next \o (c1 \o c2), done \o (o1 \o o2)), all)
             PROVE  Runs(Config(Stack(data, pos, rest), (r1 \o r2) \o next, done), all)
  BY ZenonT(60) DEF Consumes
<1>3. Len(b1) \in Sizes /\ Len(b2) \in Sizes
  BY SizesAre
<1>4. At(data, pos, b1) /\ At(data, pos + Len(b1), b2)
  BY AtParts
<1>5. pos + Len(b1) \in Nat /\ pos + Len(b1 \o b2) = (pos + Len(b1)) + Len(b2)
  OBVIOUS
<1>6. /\ next \o (c1 \o c2) = (next \o c1) \o c2 /\ next \o c1 \in Seq(Items)
      /\ r2 \o (next \o c1) = (r2 \o next) \o c1 /\ r2 \o next \in Seq(Items)
      /\ (r1 \o r2) \o next = r1 \o (r2 \o next)
  BY <1>1
<1>7. done \o (o1 \o o2) = (done \o o1) \o o2 /\ done \o o1 \in Seq(Field)
  BY <1>2
<1>8. Runs(Config(Stack(data, (pos + Len(b1)) + Len(b2), rest),
                  (next \o c1) \o c2, (done \o o1) \o o2), all)
  BY <1>5, <1>6, <1>7
<1>9. Runs(Config(Stack(data, pos + Len(b1), rest),
                  r2 \o (next \o c1), done \o o1), all)
  BY <1>3, <1>4, <1>5, <1>6, <1>7, <1>8, ZenonT(60) DEF Consumes
<1>10. Runs(Config(Stack(data, pos + Len(b1), rest),
                  (r2 \o next) \o c1, done \o o1), all)
  BY <1>6, <1>9
<1>11. Runs(Config(Stack(data, pos, rest), r1 \o (r2 \o next), done), all)
  BY <1>3, <1>4, <1>6, <1>10, ZenonT(60) DEF Consumes
<1> QED
  BY <1>6, <1>11

\* The same when the second list ends with what was chosen by the first.
LEMMA ConcludesBoth ==
    ASSUME NEW r1 \in Seq(Items), NEW r2 \in Seq(Items),
           NEW b1 \in Seq(Byte), NEW b2 \in Seq(Byte),
           NEW o1 \in Seq(Field), NEW o2 \in Seq(Field), NEW c \in Seq(Items),
           Consumes(r1, b1, o1, c), Concludes(r2 \o c, b2, o2)
    PROVE  Concludes(r1 \o r2, b1 \o b2, o1 \o o2)
<1>1. \A done \in Seq(Field) :
          done \o (o1 \o o2) = (done \o o1) \o o2 /\ done \o o1 \in Seq(Field)
  BY SMTT(60)
<1> SUFFICES ASSUME NEW data \in Seq(Byte), NEW pos \in Nat, NEW rest \in Seq(Slices),
                    NEW done \in Seq(Field),
                    2 * Len(data) < 256^U64Bytes, Len(b1 \o b2) \in Sizes,
                    At(data, pos, b1 \o b2)
             PROVE  Runs(Config(Stack(data, pos, rest), r1 \o r2, done),
                         done \o (o1 \o o2))
  BY ZenonT(60) DEF Concludes
<1>2. Len(b1) \in Sizes /\ Len(b2) \in Sizes
  BY SizesAre
<1>3. At(data, pos, b1) /\ At(data, pos + Len(b1), b2)
  BY AtParts
<1>4. pos + Len(b1) \in Nat
  OBVIOUS
<1>5. done \o (o1 \o o2) = (done \o o1) \o o2 /\ done \o o1 \in Seq(Field)
  BY <1>1
<1>6. Runs(Config(Stack(data, pos + Len(b1), rest), r2 \o c, done \o o1),
           (done \o o1) \o o2)
  BY <1>2, <1>3, <1>4, <1>5, ZenonT(60) DEF Concludes
<1>7. Runs(Config(Stack(data, pos, rest), r1 \o r2, done), (done \o o1) \o o2)
  BY <1>2, <1>3, <1>5, <1>6, ZenonT(60) DEF Consumes
<1> QED
  BY <1>5, <1>7

LEMMA ConsumedConcludes ==
    ASSUME NEW r \in Seq(Items), NEW b \in Seq(Byte), NEW o \in Seq(Field),
           Consumes(r, b, o, <<>>)
    PROVE  Concludes(r, b, o)
<1> SUFFICES ASSUME NEW data \in Seq(Byte), NEW pos \in Nat, NEW rest \in Seq(Slices),
                    NEW done \in Seq(Field),
                    2 * Len(data) < 256^U64Bytes, Len(b) \in Sizes, At(data, pos, b)
             PROVE  Runs(Config(Stack(data, pos, rest), r, done), done \o o)
  BY ZenonT(60) DEF Concludes
<1> DEFINE end == Config(Stack(data, pos + Len(b), rest), <<>> \o <<>>, done \o o)
<1>1. end.todo = <<>> /\ end.fields = done \o o
  BY DEF Config
<1> HIDE DEF end
<1>2. Runs(end, done \o o)
  BY <1>1, RunsDone
<1>3. <<>> \in Seq(Items) /\ r \o <<>> = r
  BY EmptyEnds
<1>4. Runs(Config(Stack(data, pos, rest), r \o <<>>, done), done \o o)
  BY <1>2, <1>3, ZenonT(60) DEF Consumes, end
<1> QED
  BY <1>3, <1>4

LEMMA Pushed ==
    ASSUME NEW S, NEW s \in Seq(S), NEW x
    PROVE  /\ Head(<<x>> \o s) = x /\ Tail(<<x>> \o s) = s /\ <<x>> \o s # <<>>
<1>1. s \in Seq(S \cup {x}) /\ x \in S \cup {x}
  OBVIOUS
<1> QED
  BY <1>1

LEMMA ReaderMoves ==
    ASSUME NEW data, NEW pos, NEW rest \in Seq(Slices), NEW end
    PROVE  /\ Head(Stack(data, pos, rest)).data = data
           /\ Head(Stack(data, pos, rest)).pos = pos
           /\ AdvancedOn(Stack(data, pos, rest), end) = Stack(data, end, rest)
           /\ Tail(Stack(data, pos, rest)) = rest
           /\ Reader(data, pos) \in Slices => Stack(data, pos, rest) \in Seq(Slices)
<1> DEFINE x == Reader(data, pos)
<1>1. x.data = data /\ x.pos = pos /\ [x EXCEPT !.pos = end] = Reader(data, end)
  BY DEF Reader
<1> HIDE DEF x
<1>2. Head(<<x>> \o rest) = x /\ Tail(<<x>> \o rest) = rest
  BY Pushed
<1> QED
  BY <1>1, <1>2 DEF AdvancedOn, Stack, x

\* A TLV as it is read.
TlvAs(tag, content, end) ==
    [status |-> "ok", tag |-> tag, value |-> content, pos |-> end,
     full |-> Tlv(tag, content)]

LEMMA TlvAsIs ==
    ASSUME NEW tag, NEW content, NEW end
    PROVE  /\ TlvAs(tag, content, end).status = "ok"
           /\ TlvAs(tag, content, end).tag = tag
           /\ TlvAs(tag, content, end).value = content
           /\ TlvAs(tag, content, end).pos = end
           /\ TlvAs(tag, content, end).full = Tlv(tag, content)
BY DEF TlvAs

\* The bytes of a TLV, however long it is.
LEMMA TlvBytes ==
    ASSUME NEW tag \in Byte, NEW content \in Seq(Byte)
    PROVE  /\ Tlv(tag, content) \in Seq(Byte) /\ Len(Tlv(tag, content)) > 0
           /\ Len(Tlv(tag, content)) \in Sizes => Len(content) \in Sizes
<1> DEFINE n == Len(content)
           l == Length(n)
<1>1. n \in Nat
  OBVIOUS
<1>2. l \in Seq(Byte)
  <2>1. CASE n < 128
    <3>1. l = <<n>>
      BY <2>1 DEF Length
    <3> HIDE DEF n
    <3>2. n \in Byte
      BY <1>1, <2>1 DEF Byte
    <3> QED
      BY <3>1, <3>2
  <2>2. CASE ~(n < 128)
    <3> DEFINE T == {j \in 1..3 : j = 3 \/ n < 256^j}
    <3>1. T \subseteq 1..3 /\ 3 \in T
      OBVIOUS
    <3> DEFINE k == Min(T)
    <3>2. l = <<128 + k>> \o BeBytes(n, k)
      BY <2>2 DEF Length
    <3>3. k \in 1..3
      <4> HIDE DEF T
      <4>1. T \in SUBSET Nat /\ T # {}
        BY <3>1
      <4> QED
        BY <3>1, <4>1, MinIs
    <3> HIDE DEF T, k
    <3>4. \A i \in 1..k : (n \div 256^(k - i)) % 256 \in Byte
      <4> TAKE i \in 1..k
      <4>1. k - i \in 0..2
        BY <3>3
      <4>2. 2 \in 0..U64Bytes
        BY WidthAssumption
      <4>3. 256^(k - i) \in Nat \ {0}
        <5>1. k - i \in 0..U64Bytes
          BY <4>1, <4>2, WidthAssumption
        <5> QED
          BY <5>1, PowersOf256
      <4> DEFINE p == 256^(k - i)
      <4> HIDE DEF p
      <4>4. p \in Nat \ {0}
        BY <4>3 DEF p
      <4> DEFINE q == n \div p
      <4>5. q \in Int
        BY <1>1, <4>4
      <4> HIDE DEF q
      <4>6. q % 256 \in 0..255
        BY <4>5
      <4> QED
        BY <4>6 DEF Byte, q, p
    <3>5. BeBytes(n, k) \in Seq(Byte)
      <4>1. BeBytes(n, k) \in [1..k -> Byte]
        BY <3>4 DEF BeBytes
      <4> QED
        BY <3>3, <4>1
    <3>6. <<128 + k>> \in Seq(Byte)
      BY <3>3 DEF Byte
    <3> QED
      BY <3>2, <3>5, <3>6
  <2> QED
    BY <2>1, <2>2
<1>3. Tlv(tag, content) = (<<tag>> \o l) \o content
  BY DEF Tlv
<1> HIDE DEF l
<1>4. <<tag>> \o l \in Seq(Byte)
  BY <1>2
<1> DEFINE h == <<tag>> \o l
<1> HIDE DEF h
<1>5. h \o content \in Seq(Byte)
  BY <1>4 DEF h
<1>6. Len(h \o content) \in Sizes => Len(content) \in Sizes
  BY <1>4, SizesAre DEF h
<1> QED
  BY <1>3, <1>5, <1>6 DEF h

\* The TLV in front of a decoder.
LEMMA TlvInFront ==
    ASSUME NEW tag \in Byte, NEW content \in Seq(Byte), Len(Tlv(tag, content)) \in Sizes,
           NEW data \in Seq(Byte), 2 * Len(data) < 256^U64Bytes,
           NEW pos \in Nat, At(data, pos, Tlv(tag, content))
    PROVE  /\ ReadTlv(data, pos) = TlvAs(tag, content, pos + Len(Tlv(tag, content)))
           /\ pos < Len(data) /\ data[pos + 1] = tag
           /\ content \in Seq(Byte) /\ Len(content) \in Sizes
           /\ 2 * Len(content) < 256^U64Bytes
           /\ Reader(data, pos + Len(Tlv(tag, content))) \in Slices
<1> DEFINE whole == Tlv(tag, content)
           w == 256^U64Bytes
           n == Len(content)
           l == Len(Length(n))
           len == Len(data)
<1>1. Len(content) \in Sizes
  BY TlvBytes
<1>2. /\ whole \in Seq(Byte) /\ whole = (<<tag>> \o Length(n)) \o content
      /\ Len(whole) = 1 + l + n /\ l \in Nat /\ n \in Nat
      /\ Length(n) \in Seq(Byte)
  BY <1>1, TlvIs
<1>3. w \in Nat /\ len \in Nat
  BY PowersOf256, WidthAssumption
<1>4. /\ pos + Len(whole) <= len
      /\ \A i \in 1..Len(whole) : data[pos + i] = whole[i]
  BY DEF At
<1>5. 2 * len < w
  OBVIOUS
<1>6. whole[1] = tag
  <2>1. <<tag>> \o Length(n) \in Seq(Byte) /\ Len(<<tag>> \o Length(n)) = 1 + l
        /\ (<<tag>> \o Length(n))[1] = tag
    BY <1>2
  <2> DEFINE h == <<tag>> \o Length(n)
  <2> HIDE DEF h
  <2>2. (h \o content)[1] = h[1]
    BY <1>2, <2>1 DEF h
  <2> QED
    BY <1>2, <2>1, <2>2 DEF h
<1> HIDE DEF w, n, l, len, whole
<1>7. len < w
  BY <1>3, <1>5
<1>8. ReadTlv(data, pos) = TlvAs(tag, content, pos + Len(whole))
  BY <1>1, <1>7, TlvReadBack DEF TlvAs, w, whole, len
<1>9. pos < len /\ 1 \in 1..Len(whole) /\ n <= len /\ pos + Len(whole) \in Nat
  BY <1>2, <1>3, <1>4
<1>10. data[pos + 1] = tag
  BY <1>4, <1>6, <1>9
<1>11. 2 * n < w
  BY <1>2, <1>3, <1>5, <1>9
<1>12. Reader(data, pos + Len(whole)) \in Slices
  <2> DEFINE end == pos + Len(whole)
  <2>1. end \in Nat /\ end <= Len(data) /\ 2 * Len(data) < 256^U64Bytes
    BY <1>4, <1>9 DEF len
  <2> HIDE DEF end
  <2>2. Reader(data, end) \in [data : Seq(Byte), pos : Nat]
        /\ Reader(data, end).data = data /\ Reader(data, end).pos = end
    BY <2>1 DEF Reader
  <2> QED
    BY <2>1, <2>2 DEF Slices, end
<1> QED
  BY <1>1, <1>8, <1>9, <1>10, <1>11, <1>12 DEF n, w, whole, len

\* A read takes a TLV whole.
LEMMA ConsumesTlv ==
    ASSUME NEW as \in {"i32", "u32", "octets", "oid", "address", "value", "full"},
           NEW tag \in Byte, NEW content \in Seq(Byte),
           Acceptable(as, tag, content), NEW field \in Field,
           \A end : FieldOf(as, TlvAs(tag, content, end)) = field
    PROVE  Consumes(<<Read(as)>>, Tlv(tag, content), <<field>>, <<>>)
<1> DEFINE whole == Tlv(tag, content)
<1>1. \A next \in Seq(Items) :
         next \o <<>> = next /\ Head(<<Read(as)>> \o next) = Read(as)
         /\ Tail(<<Read(as)>> \o next) = next /\ <<Read(as)>> \o next # <<>>
  BY EmptyEnds, Pushed
<1>2. \A done \in Seq(Field) : done \o <<field>> = Append(done, field)
  OBVIOUS
<1>3. Read(as).op = "read" /\ Read(as).as = as /\ "next" \notin DOMAIN Read(as)
  BY DEF Read
<1> SUFFICES ASSUME NEW data \in Seq(Byte), NEW pos \in Nat, NEW rest \in Seq(Slices),
                    NEW next \in Seq(Items), NEW done \in Seq(Field), NEW all,
                    2 * Len(data) < 256^U64Bytes, Len(whole) \in Sizes,
                    At(data, pos, whole),
                    Runs(Config(Stack(data, pos + Len(whole), rest),
                                next \o <<>>, done \o <<field>>), all)
             PROVE  Runs(Config(Stack(data, pos, rest),
                                <<Read(as)>> \o next, done), all)
  BY ZenonT(60) DEF Consumes
<1> DEFINE end == pos + Len(whole)
           c == Config(Stack(data, pos, rest), <<Read(as)>> \o next, done)
           d == Config(Stack(data, end, rest), next, Append(done, field))
           tlv == TlvAs(tag, content, end)
<1>4. ReadTlv(data, pos) = tlv
  BY TlvInFront
<1>5. Runs(d, all)
  BY <1>1, <1>2
<1> HIDE DEF end, whole
<1>6. /\ c.todo # <<>> /\ Head(c.todo) = Read(as) /\ Tail(c.todo) = next
      /\ c.fields = done /\ c.frames = Stack(data, pos, rest)
  BY <1>1 DEF Config
<1>7. tlv.status = "ok" /\ tlv.tag = tag /\ tlv.value = content /\ tlv.pos = end
  BY TlvAsIs
<1>8. FieldOf(as, tlv) = field
  BY Zenon
<1> HIDE DEF c, tlv
<1>9. /\ Head(c.frames).data = data /\ Head(c.frames).pos = pos
      /\ AdvancedOn(c.frames, end) = Stack(data, end, rest)
  <2>1. /\ Head(Stack(data, pos, rest)).data = data
        /\ Head(Stack(data, pos, rest)).pos = pos
        /\ AdvancedOn(Stack(data, pos, rest), end) = Stack(data, end, rest)
    BY ReaderMoves
  <2> QED
    BY <1>6, <2>1, Zenon
<1>10. NextTlv(c) = tlv
  BY <1>4, <1>9 DEF NextTlv
<1>11. Moves(c, d)
  BY <1>3, <1>6, <1>10, <1>7, <1>8, <1>9 DEF Moves, Gets, Takes
<1> HIDE DEF d
<1> QED
  BY <1>5, <1>11, RunsFrom DEF c

\* A read that chooses what is read in the end.
LEMMA ConsumesChoice ==
    ASSUME NEW item \in Items, item.op = "read", item.as \in {"version", "flags"},
           "next" \in DOMAIN item,
           NEW tag \in Byte, NEW content \in Seq(Byte),
           Acceptable(item.as, tag, content), NEW field \in Field,
           \A end : FieldOf(item.as, TlvAs(tag, content, end)) = field,
           Chosen(item.as, field) \in DOMAIN item.next
    PROVE  Consumes(<<item>>, Tlv(tag, content), <<field>>,
                    item.next[Chosen(item.as, field)])
<1> DEFINE whole == Tlv(tag, content)
           then == item.next[Chosen(item.as, field)]
<1>1. \A next \in Seq(Items) :
         /\ Head(<<item>> \o next) = item
         /\ Tail(<<item>> \o next) = next /\ <<item>> \o next # <<>>
  BY Pushed
<1>2. \A done \in Seq(Field) : done \o <<field>> = Append(done, field)
  OBVIOUS
<1> SUFFICES ASSUME NEW data \in Seq(Byte), NEW pos \in Nat, NEW rest \in Seq(Slices),
                    NEW next \in Seq(Items), NEW done \in Seq(Field), NEW all,
                    2 * Len(data) < 256^U64Bytes, Len(whole) \in Sizes,
                    At(data, pos, whole),
                    Runs(Config(Stack(data, pos + Len(whole), rest),
                                next \o then, done \o <<field>>), all)
             PROVE  Runs(Config(Stack(data, pos, rest),
                                <<item>> \o next, done), all)
  BY ZenonT(60) DEF Consumes
<1> DEFINE end == pos + Len(whole)
           c == Config(Stack(data, pos, rest), <<item>> \o next, done)
           d == Config(Stack(data, end, rest), next \o then, Append(done, field))
           tlv == TlvAs(tag, content, end)
<1>3. ReadTlv(data, pos) = tlv
  BY TlvInFront
<1>4. Runs(d, all)
  BY <1>2
<1> HIDE DEF end, whole
<1>5. /\ c.todo # <<>> /\ Head(c.todo) = item /\ Tail(c.todo) = next
      /\ c.fields = done /\ c.frames = Stack(data, pos, rest)
  BY <1>1 DEF Config
<1>6. tlv.status = "ok" /\ tlv.tag = tag /\ tlv.value = content /\ tlv.pos = end
  BY TlvAsIs
<1>7. FieldOf(item.as, tlv) = field
  BY Zenon
<1> HIDE DEF c, tlv
<1>8. /\ Head(c.frames).data = data /\ Head(c.frames).pos = pos
      /\ AdvancedOn(c.frames, end) = Stack(data, end, rest)
  <2>1. /\ Head(Stack(data, pos, rest)).data = data
        /\ Head(Stack(data, pos, rest)).pos = pos
        /\ AdvancedOn(Stack(data, pos, rest), end) = Stack(data, end, rest)
    BY ReaderMoves
  <2> QED
    BY <1>5, <2>1, Zenon
<1>9. NextTlv(c) = tlv
  BY <1>3, <1>8 DEF NextTlv
<1>10. Chooses(c, d)
  BY <1>5, <1>9, <1>6, <1>7, <1>8 DEF Chooses, Takes
<1>11. Moves(c, d)
  BY <1>5, <1>10 DEF Moves
<1> HIDE DEF d
<1> QED
  BY <1>4, <1>11, RunsFrom DEF c

\* A TLV entered, and what is read of its contents.
LEMMA Entered ==
    ASSUME NEW tags, NEW tag \in Byte, tag \in tags, NEW content \in Seq(Byte),
           Len(Tlv(tag, content)) \in Sizes,
           NEW data \in Seq(Byte), 2 * Len(data) < 256^U64Bytes,
           NEW pos \in Nat, At(data, pos, Tlv(tag, content)),
           NEW rest \in Seq(Slices), NEW list \in Seq(Items), NEW done \in Seq(Field),
           NEW all,
           LET outer == Stack(data, pos + Len(Tlv(tag, content)), rest)
               read == IF tags = AnyTag THEN Append(done, tag) ELSE done
           IN  Runs(Config(Stack(content, 0, outer), list, read), all)
    PROVE  Runs(Config(Stack(data, pos, rest), <<Enter(tags)>> \o list, done), all)
<1> DEFINE end == pos + Len(Tlv(tag, content))
           outer == Stack(data, end, rest)
           read == IF tags = AnyTag THEN Append(done, tag) ELSE done
           c == Config(Stack(data, pos, rest), <<Enter(tags)>> \o list, done)
           d == Config(Stack(content, 0, outer), list, read)
           tlv == TlvAs(tag, content, end)
<1>1. Runs(d, all)
  OBVIOUS
<1>2. ReadTlv(data, pos) = tlv /\ pos < Len(data) /\ data[pos + 1] = tag
  BY TlvInFront
<1>3. /\ Head(<<Enter(tags)>> \o list) = Enter(tags) /\ Tail(<<Enter(tags)>> \o list) = list
      /\ <<Enter(tags)>> \o list # <<>>
  BY Pushed
<1>4. Enter(tags).op = "enter" /\ Enter(tags).tags = tags
  BY DEF Enter
<1>5. /\ c.todo # <<>> /\ Head(c.todo) = Enter(tags) /\ Tail(c.todo) = list
      /\ c.fields = done /\ c.frames = Stack(data, pos, rest)
  BY <1>3 DEF Config
<1> HIDE DEF end
<1>6. tlv.status = "ok" /\ tlv.tag = tag /\ tlv.value = content /\ tlv.pos = end
  BY TlvAsIs
<1>7. Frame(content) = Reader(content, 0)
  BY DEF Frame, Reader
<1> HIDE DEF c, tlv
<1>8. /\ Head(c.frames).data = data /\ Head(c.frames).pos = pos
      /\ AdvancedOn(c.frames, end) = outer
  <2>1. /\ Head(Stack(data, pos, rest)).data = data
        /\ Head(Stack(data, pos, rest)).pos = pos
        /\ AdvancedOn(Stack(data, pos, rest), end) = Stack(data, end, rest)
    BY ReaderMoves
  <2> QED
    BY <1>5, <2>1, Zenon
<1>9. NextTlv(c) = tlv
  BY <1>2, <1>8 DEF NextTlv
<1> HIDE DEF outer
<1>10. Enters(c, d)
  BY <1>2, <1>4, <1>5, <1>9, <1>6, <1>7, <1>8 DEF Enters, Stack
<1>11. Moves(c, d)
  BY <1>5, <1>10 DEF Moves
<1> HIDE DEF d
<1> QED
  BY <1>1, <1>11, RunsFrom DEF c

LEMMA AtAll ==
    ASSUME NEW content \in Seq(Byte)
    PROVE  At(content, 0, content) /\ 0 + Len(content) = Len(content)
BY DEF At

\* A TLV whose contents are read to the end of the message.
LEMMA ConcludesEnclosed ==
    ASSUME NEW tags, NEW tag \in Byte, tag \in tags, NEW content \in Seq(Byte),
           NEW reads \in Seq(Items), NEW out \in Seq(Field),
           NEW first, first = IF tags = AnyTag THEN <<tag>> ELSE <<>>,
           Concludes(reads, content, out)
    PROVE  Concludes(<<Enter(tags)>> \o reads, Tlv(tag, content), first \o out)
<1> DEFINE whole == Tlv(tag, content)
           Got(done) == IF tags = AnyTag THEN Append(done, tag) ELSE done
<1>1. \A done \in Seq(Field) :
         Got(done) \in Seq(Field) /\ done \o (first \o out) = Got(done) \o out
  <2> TAKE done \in Seq(Field)
  <2>1. CASE tags = AnyTag
    <3>1. tag \in Field
      BY DEF Field, Byte
    <3>2. first = <<tag>> /\ Got(done) = Append(done, tag)
      BY <2>1
    <3>3. <<tag>> \in Seq(Field) /\ Append(done, tag) = done \o <<tag>>
      BY <3>1
    <3>4. done \o (<<tag>> \o out) = (done \o <<tag>>) \o out
      BY <3>3
    <3> QED
      BY <3>1, <3>2, <3>3, <3>4
  <2>2. CASE tags # AnyTag
    <3>1. first = <<>> /\ Got(done) = done
      BY <2>2
    <3> QED
      BY <3>1
  <2> QED
    BY <2>1, <2>2
<1> SUFFICES ASSUME NEW data \in Seq(Byte), NEW pos \in Nat, NEW rest \in Seq(Slices),
                    NEW done \in Seq(Field),
                    2 * Len(data) < 256^U64Bytes, Len(whole) \in Sizes,
                    At(data, pos, whole)
             PROVE  Runs(Config(Stack(data, pos, rest), <<Enter(tags)>> \o reads,
                                done), done \o (first \o out))
  BY ZenonT(60) DEF Concludes
<1> DEFINE end == pos + Len(whole)
           outer == Stack(data, end, rest)
<1>2. /\ Len(content) \in Sizes /\ 2 * Len(content) < 256^U64Bytes
      /\ Reader(data, end) \in Slices
  BY TlvInFront
<1>3. outer \in Seq(Slices)
  BY <1>2, ReaderMoves
<1>4. At(content, 0, content) /\ 0 \in Nat
  BY AtAll
<1>5. Runs(Config(Stack(content, 0, outer), reads, Got(done)), Got(done) \o out)
  <2> HIDE DEF outer, Got
  <2> QED
    BY <1>1, <1>2, <1>3, <1>4, ZenonT(60) DEF Concludes
<1>6. Runs(Config(Stack(content, 0, outer), reads, Got(done)),
           done \o (first \o out))
  BY <1>1, <1>5
<1> QED
  BY <1>6, Entered

\* A TLV whose contents are read before the outer decoder goes on.
LEMMA ConsumesEnclosed ==
    ASSUME NEW tag \in Byte, NEW content \in Seq(Byte),
           NEW reads \in Seq(Items), NEW out \in Seq(Field), NEW chosen \in Seq(Items),
           Consumes(reads, content, out, chosen)
    PROVE  Consumes(<<Enter({tag})>> \o reads \o <<Leave>>, Tlv(tag, content), out, chosen)
<1> DEFINE whole == Tlv(tag, content)
<1>1. {tag} # AnyTag
  <2>1. 0 \in AnyTag /\ 1 \in AnyTag
    BY DEF AnyTag
  <2> QED
    BY <2>1
<1>2. Leave \in Items /\ Leave.op = "leave"
  BY SimpleReads, SimpleIs DEF Leave
<1>3. \A next \in Seq(Items) :
        /\ <<Leave>> \o next \in Seq(Items) /\ <<Leave>> \o (next \o chosen) \in Seq(Items)
        /\ reads \o (<<Leave>> \o next) \in Seq(Items)
        /\ (<<Leave>> \o next) \o chosen = <<Leave>> \o (next \o chosen)
  <2> TAKE next \in Seq(Items)
  <2>1. (<<Leave>> \o next) \o chosen = <<Leave>> \o (next \o chosen)
    BY <1>2
  <2> QED
    BY <1>2, <2>1
<1>4. \A next \in Seq(Items) : \A item :
        (<<item>> \o reads \o <<Leave>>) \o next = <<item>> \o (reads \o (<<Leave>> \o next))
  <2> TAKE next \in Seq(Items)
  <2> TAKE item
  <2>1. <<item>> \in Seq(Items \cup {item}) /\ reads \in Seq(Items \cup {item})
        /\ <<Leave>> \in Seq(Items \cup {item}) /\ next \in Seq(Items \cup {item})
    BY <1>2
  <2> QED
    BY <2>1
<1>5. \A next \in Seq(Items) :
        /\ Head(<<Leave>> \o (next \o chosen)) = Leave
        /\ Tail(<<Leave>> \o (next \o chosen)) = next \o chosen
        /\ <<Leave>> \o (next \o chosen) # <<>>
  BY Pushed
<1> SUFFICES ASSUME NEW data \in Seq(Byte), NEW pos \in Nat, NEW rest \in Seq(Slices),
                    NEW next \in Seq(Items), NEW done \in Seq(Field), NEW all,
                    2 * Len(data) < 256^U64Bytes, Len(whole) \in Sizes,
                    At(data, pos, whole),
                    Runs(Config(Stack(data, pos + Len(whole), rest),
                                next \o chosen, done \o out), all)
             PROVE  Runs(Config(Stack(data, pos, rest),
                                (<<Enter({tag})>> \o reads \o <<Leave>>) \o next, done), all)
  BY ZenonT(60) DEF Consumes
<1> DEFINE end == pos + Len(whole)
           outer == Stack(data, end, rest)
           last == Stack(content, 0 + Len(content), outer)
<1>6. /\ Len(content) \in Sizes /\ 2 * Len(content) < 256^U64Bytes
      /\ Reader(data, end) \in Slices
  BY TlvInFront
<1>7. outer \in Seq(Slices)
  BY <1>6, ReaderMoves
<1>8. At(content, 0, content) /\ 0 \in Nat
  BY AtAll
<1>9. Runs(Config(last, (<<Leave>> \o next) \o chosen, done \o out), all)
  <2> DEFINE c == Config(last, <<Leave>> \o (next \o chosen), done \o out)
             d == Config(outer, next \o chosen, done \o out)
  <2>1. Runs(d, all)
    OBVIOUS
  <2> HIDE DEF outer
  <2>2. Tail(last) = outer
    BY <1>7, ReaderMoves
  <2>3. /\ c.todo # <<>> /\ Head(c.todo) = Leave /\ Tail(c.todo) = next \o chosen
        /\ c.fields = done \o out /\ Tail(c.frames) = outer
    BY <1>5, <2>2 DEF Config
  <2> HIDE DEF c
  <2>4. Leaves(c, d)
    BY <1>2, <2>3 DEF Leaves
  <2>5. Moves(c, d)
    BY <2>3, <2>4 DEF Moves
  <2> HIDE DEF d
  <2>6. Runs(c, all)
    BY <2>1, <2>5, RunsFrom
  <2> QED
    BY <1>3, <2>6 DEF c
<1>10. Runs(Config(Stack(content, 0, outer), reads \o (<<Leave>> \o next), done), all)
  <2> HIDE DEF outer
  <2> QED
    BY <1>3, <1>6, <1>7, <1>8, <1>9, ZenonT(60) DEF Consumes
<1>11. Runs(Config(Stack(data, pos, rest),
                  <<Enter({tag})>> \o (reads \o (<<Leave>> \o next)), done), all)
  BY <1>1, <1>3, <1>10, Entered
<1> QED
  BY <1>4, <1>11

-----------------------------------------------------------------------------
\* The fields of a message, each in the TLV that it is written in.

LEMMA SeqGrows ==
    ASSUME NEW S, NEW T, S \subseteq T
    PROVE  Seq(S) \subseteq Seq(T)
OBVIOUS

LEMMA FieldsAre ==
    /\ \A v \in Int : v \in Field
    /\ \A b \in Seq(Byte) : b \in Field
    /\ \A oid \in Oid : OidReadAs(oid) \in Seq(Nat) /\ OidReadAs(oid) \in Field
    /\ \A oid \in Oid : oid \in Seq(Nat)
<1>1. \A v \in Int : v \in Field
  BY DEF Field
<1>2. \A b \in Seq(Byte) : b \in Seq(Nat)
  <2>1. Byte \subseteq Nat
    BY DEF Byte
  <2>2. Seq(Byte) \subseteq Seq(Nat)
    BY <2>1, SeqGrows
  <2> QED
    BY <2>2
<1>3. \A oid \in Oid : oid \in Seq(Nat)
  <2>1. Unsigned(U32Bytes) \subseteq Nat
    BY DEF Unsigned
  <2> QED
    BY <2>1 DEF Oid
<1>4. ASSUME NEW oid \in Oid PROVE OidReadAs(oid) \in Seq(Nat)
  <2>1. CASE Len(oid) < 2
    BY <2>1 DEF OidReadAs
  <2>2. CASE ~(Len(oid) < 2)
    <3> DEFINE b == FirstByte(oid)
    <3>1. oid \in Seq(Nat) /\ Len(oid) \in Nat
      BY <1>3
    <3>2. b \in Nat
      <4>1. oid[1] \in Nat /\ oid[2] \in Nat
        BY <2>2, <3>1
      <4> DEFINE x == oid[1] * 40 + oid[2]
      <4>2. x \in Nat
        BY <4>1
      <4> HIDE DEF x
      <4>3. x % 256 \in 0..255
        BY <4>2
      <4> QED
        BY <4>3 DEF FirstByte, x
    <3> HIDE DEF b
    <3>3. b \div 40 \in Nat /\ b % 40 \in Nat
      BY <3>2
    <3>4. OidReadAs(oid) = [i \in 1..Len(oid) |-> IF i = 1 THEN b \div 40
                                                  ELSE IF i = 2 THEN b % 40
                                                  ELSE oid[i]]
      BY <2>2 DEF OidReadAs, b
    <3> DEFINE c == b \div 40
               d == b % 40
    <3> HIDE DEF c, d
    <3>5. c \in Nat /\ d \in Nat
      BY <3>3 DEF c, d
    <3>6. OidReadAs(oid) = [i \in 1..Len(oid) |-> IF i = 1 THEN c
                                                  ELSE IF i = 2 THEN d ELSE oid[i]]
      BY <3>4 DEF c, d
    <3>7. \A i \in 1..Len(oid) : oid[i] \in Nat
      BY <3>1
    <3>8. [i \in 1..Len(oid) |-> IF i = 1 THEN c ELSE IF i = 2 THEN d ELSE oid[i]]
            \in [1..Len(oid) -> Nat]
      BY <3>5, <3>7
    <3> QED
      BY <3>1, <3>6, <3>8
  <2> QED
    BY <2>1, <2>2
<1> QED
  BY <1>1, <1>2, <1>3, <1>4 DEF Field

LEMMA ValueFields ==
    ASSUME NEW value \in Value
    PROVE  ValueReadAs(value) \in Field /\ value \in Field
<1> DEFINE ty == value.type
           of == value.of
<1>1. value = ValueOf(ty, of)
  BY DEF Value, ValueOf
<1>2. \/ of \in Signed(U64Bytes) \/ of \in Seq(Byte) \/ of \in Oid
      \/ of \in Unsigned(U32Bytes) \/ of \in Unsigned(U64Bytes)
      \/ of = <<>>
  BY DEF Value
<1>3. ty \in Types
  BY DEF Value, Types
<1>4. /\ \A v \in Signed(U64Bytes) : v \in Int
      /\ \A v \in Unsigned(U32Bytes) : v \in Int
      /\ \A v \in Unsigned(U64Bytes) : v \in Int
  BY DEF Signed, Unsigned
<1>5. \A b \in Seq(Byte) : b \in Seq(Nat)
  <2>1. Byte \subseteq Nat
    BY DEF Byte
  <2>2. Seq(Byte) \subseteq Seq(Nat)
    BY <2>1, SeqGrows
  <2> QED
    BY <2>2
<1>6. of \in Int \cup Seq(Nat)
  <2> HIDE DEF of
  <2>1. <<>> \in Seq(Nat)
    OBVIOUS
  <2> QED
    BY <1>2, <1>4, <1>5, <2>1, FieldsAre
<1>7. \A t \in Types : \A x \in Int \cup Seq(Nat) : ValueOf(t, x) \in Field
  BY DEF ValueOf, Field
<1>8. ty = "ObjectIdentifier" => of \in Oid
  BY DEF Value
<1>9. value \in Field
  BY <1>1, <1>3, <1>6, <1>7, Zenon
<1>10. ValueReadAs(value) \in Field
  <2>1. CASE ty \in DOMAIN MarkerTag
    <3>1. <<>> \in Int \cup Seq(Nat) /\ "Null" \in Types
      BY DEF Types
    <3>2. ValueReadAs(value) = ValueOf("Null", <<>>)
      BY <2>1, Markers DEF ValueReadAs
    <3> QED
      BY <1>7, <3>1, <3>2, Zenon
  <2>2. CASE ty = "ObjectIdentifier"
    <3>1. ValueReadAs(value) = ValueOf("ObjectIdentifier", OidReadAs(of))
      BY <2>2, Markers DEF ValueReadAs
    <3>2. OidReadAs(of) \in Int \cup Seq(Nat) /\ "ObjectIdentifier" \in Types
      BY <1>8, <2>2, FieldsAre DEF Types
    <3> QED
      BY <1>7, <3>1, <3>2, Zenon
  <2>3. CASE ty \notin DOMAIN MarkerTag /\ ty # "ObjectIdentifier"
    <3>1. ValueReadAs(value) = value
      BY <2>3 DEF ValueReadAs
    <3> QED
      BY <1>9, <3>1
  <2> QED
    BY <2>1, <2>2, <2>3
<1> QED
  BY <1>9, <1>10

LEMMA TagsAre ==
    /\ INTEGER \in Byte /\ OCTET_STRING \in Byte /\ OBJECT_ID \in Byte
    /\ SEQUENCE \in Byte /\ RESPONSE \in Byte /\ TRAP_V1 \in Byte /\ TRAP_V2 \in Byte
    /\ ApplicationTag.IpAddress \in Byte /\ AnyTag = Byte
BY DEF INTEGER, OCTET_STRING, OBJECT_ID, SEQUENCE, RESPONSE, TRAP_V1, TRAP_V2,
       ApplicationTag, AnyTag, Byte

\* An i32 and a u32 are read at their width from the integer of 64 bits.
LEMMA NumberRead ==
    /\ \A v \in Signed(U32Bytes) :
          Consumes(<<Read("i32")>>, Integer(v), <<v>>, <<>>)
    /\ \A v \in Unsigned(U32Bytes) :
          Consumes(<<Read("u32")>>, Integer(v), <<v>>, <<>>)
<1>1. ASSUME NEW v \in Signed(U64Bytes)
      PROVE  /\ IntegerBytes(v) \in Seq(Byte) /\ DecodeInteger(IntegerBytes(v)) = v
             /\ v \in Field /\ Integer(v) = Tlv(INTEGER, IntegerBytes(v))
  BY NumberTypes, IntegerReadBack, FieldsAre DEF Signed, Integer
<1>2. ASSUME NEW v \in Signed(U32Bytes)
      PROVE  Consumes(<<Read("i32")>>, Integer(v), <<v>>, <<>>)
  <2>1. v \in Signed(U64Bytes) /\ U32Bytes \in 1..U64Bytes
    BY WidthsNest
  <2>2. AsSigned(v, U32Bytes) = v
    BY <2>1, AsSignedIs
  <2>3. \A end : FieldOf("i32", TlvAs(INTEGER, IntegerBytes(v), end)) = v
    BY <1>1, <2>1, <2>2, TlvAsIs DEF FieldOf
  <2>4. Acceptable("i32", INTEGER, IntegerBytes(v))
    BY DEF Acceptable
  <2> QED
    BY <1>1, <2>1, <2>3, <2>4, TagsAre, ConsumesTlv
<1>3. ASSUME NEW v \in Unsigned(U32Bytes)
      PROVE  Consumes(<<Read("u32")>>, Integer(v), <<v>>, <<>>)
  <2>1. v \in Signed(U64Bytes) /\ U32Bytes \in 1..U64Bytes
    BY WidthsNest
  <2>2. v % 256^U32Bytes = v
    <3> DEFINE p == 256^U32Bytes
    <3>1. p \in Nat \ {0}
      BY PowersOf256, <2>1
    <3>2. v \in Int /\ 0 <= v /\ v < p
      BY DEF Unsigned
    <3> HIDE DEF p
    <3>3. v % p = v
      BY <3>1, <3>2, Within
    <3> QED
      BY <3>3 DEF p
  <2>3. \A end : FieldOf("u32", TlvAs(INTEGER, IntegerBytes(v), end)) = v
    <3>1. \A end : FieldOf("u32", TlvAs(INTEGER, IntegerBytes(v), end)) =
                     DecodeInteger(IntegerBytes(v)) % 256^U32Bytes
      BY TlvAsIs DEF FieldOf
    <3> QED
      BY <1>1, <2>1, <2>2, <3>1
  <2>4. Acceptable("u32", INTEGER, IntegerBytes(v))
    BY DEF Acceptable
  <2> QED
    BY <1>1, <2>1, <2>3, <2>4, TagsAre, ConsumesTlv
<1> QED
  BY <1>2, <1>3

LEMMA OctetsRead ==
    ASSUME NEW bytes \in Seq(Byte)
    PROVE  Consumes(<<Read("octets")>>, OctetString(bytes), <<bytes>>, <<>>)
<1>1. \A end : FieldOf("octets", TlvAs(OCTET_STRING, bytes, end)) = bytes
  BY TlvAsIs DEF FieldOf
<1>2. Acceptable("octets", OCTET_STRING, bytes)
  BY DEF Acceptable
<1> QED
  BY <1>1, <1>2, TagsAre, FieldsAre, ConsumesTlv DEF OctetString

LEMMA OidFieldRead ==
    ASSUME NEW oid \in Oid
    PROVE  Consumes(<<Read("oid")>>, Tlv(OBJECT_ID, OidBytes(oid)), <<OidReadAs(oid)>>,
                    <<>>)
<1>1. /\ OidBytes(oid) \in Seq(Byte) /\ ~TruncatedOid(OidBytes(oid))
      /\ DecodeOid(OidBytes(oid)) = OidReadAs(oid)
  BY OidReadBack
<1>2. \A end : FieldOf("oid", TlvAs(OBJECT_ID, OidBytes(oid), end)) = OidReadAs(oid)
  BY <1>1, TlvAsIs DEF FieldOf
<1>3. Acceptable("oid", OBJECT_ID, OidBytes(oid))
  BY <1>1 DEF Acceptable
<1> QED
  BY <1>1, <1>2, <1>3, TagsAre, FieldsAre, ConsumesTlv

LEMMA AddressRead ==
    ASSUME NEW bytes \in Seq(Byte), bytes = <<>> \/ Len(bytes) = 4
    PROVE  Consumes(<<Read("address")>>, Tlv(ApplicationTag.IpAddress, bytes), <<bytes>>,
                    <<>>)
<1>1. \A end : FieldOf("address", TlvAs(ApplicationTag.IpAddress, bytes, end)) = bytes
  BY TlvAsIs DEF FieldOf
<1>2. Acceptable("address", ApplicationTag.IpAddress, bytes)
  BY DEF Acceptable
<1> QED
  BY <1>1, <1>2, TagsAre, FieldsAre, ConsumesTlv

LEMMA ValueRead ==
    ASSUME NEW value \in Value
    PROVE  Consumes(<<Read("value")>>, EncodeValue(value), <<ValueReadAs(value)>>, <<>>)
<1>1. PICK tag, bytes : Holds(tag, bytes, value)
  BY ValueReadBack
<1>2. /\ tag \in Byte /\ bytes \in Seq(Byte) /\ EncodeValue(value) = Tlv(tag, bytes)
      /\ DecodeValue(tag, bytes) = ValueReadAs(value)
      /\ tag = OBJECT_ID => ~TruncatedOid(bytes)
  BY <1>1 DEF Holds
<1>3. \A end : FieldOf("value", TlvAs(tag, bytes, end)) = ValueReadAs(value)
  BY <1>2, TlvAsIs DEF FieldOf
<1>4. Acceptable("value", tag, bytes)
  BY <1>2 DEF Acceptable
<1> QED
  BY <1>2, <1>3, <1>4, ValueFields, ConsumesTlv

LEMMA FullRead ==
    ASSUME NEW tag \in Byte, NEW bytes \in Seq(Byte)
    PROVE  Consumes(<<Read("full")>>, Tlv(tag, bytes), <<Tlv(tag, bytes)>>, <<>>)
<1>1. \A end : FieldOf("full", TlvAs(tag, bytes, end)) = Tlv(tag, bytes)
  BY TlvAsIs DEF FieldOf
<1>2. Acceptable("full", tag, bytes)
  BY DEF Acceptable
<1>3. Tlv(tag, bytes) \in Field
  BY TlvBytes, FieldsAre
<1> QED
  BY <1>1, <1>2, <1>3, ConsumesTlv

LEMMA VersionRead ==
    ASSUME NEW next, Version(next) \in Items, NEW v \in DOMAIN next,
           v \in Signed(U64Bytes)
    PROVE  Consumes(<<Version(next)>>, Integer(v), <<v>>, next[v])
<1> DEFINE item == Version(next)
<1>1. item.op = "read" /\ item.as = "version" /\ "next" \in DOMAIN item /\ item.next = next
  BY DEF Version
<1>2. /\ IntegerBytes(v) \in Seq(Byte) /\ DecodeInteger(IntegerBytes(v)) = v
      /\ v \in Field /\ Integer(v) = Tlv(INTEGER, IntegerBytes(v))
  BY NumberTypes, IntegerReadBack, FieldsAre DEF Signed, Integer
<1>3. \A end : FieldOf("version", TlvAs(INTEGER, IntegerBytes(v), end)) = v
  BY <1>2, TlvAsIs DEF FieldOf
<1>4. Acceptable("version", INTEGER, IntegerBytes(v)) /\ Chosen("version", v) = v
  BY DEF Acceptable, Chosen
<1> HIDE DEF item
<1>5. Consumes(<<item>>, Tlv(INTEGER, IntegerBytes(v)), <<v>>,
               item.next[Chosen(item.as, v)])
  BY <1>1, <1>2, <1>3, <1>4, TagsAre, ConsumesChoice DEF item
<1> QED
  BY <1>1, <1>2, <1>4, <1>5 DEF item

LEMMA FlagsRead ==
    ASSUME NEW next, Flags(next) \in Items, DOMAIN next = BOOLEAN, NEW flags \in Byte
    PROVE  Consumes(<<Flags(next)>>, OctetString(<<flags>>), << <<flags>> >>,
                    next[(flags \div 2) % 2 = 1])
<1> DEFINE item == Flags(next)
           field == <<flags>>
           key == (flags \div 2) % 2 = 1
<1>1. item.op = "read" /\ item.as = "flags" /\ "next" \in DOMAIN item /\ item.next = next
  BY DEF Flags
<1>2. field \in Seq(Byte) /\ field \in Field
  BY FieldsAre
<1>3. \A end : FieldOf("flags", TlvAs(OCTET_STRING, field, end)) = field
  BY TlvAsIs DEF FieldOf
<1>4. Acceptable("flags", OCTET_STRING, field)
  BY DEF Acceptable
<1>5. Chosen("flags", field) = key
  BY DEF Chosen
<1>6. key \in BOOLEAN
  OBVIOUS
<1> HIDE DEF item, field, key
<1>7. Consumes(<<item>>, Tlv(OCTET_STRING, field), <<field>>,
               item.next[Chosen(item.as, field)])
  BY <1>1, <1>2, <1>3, <1>4, <1>5, <1>6, TagsAre, ConsumesChoice DEF item
<1> QED
  BY <1>1, <1>5, <1>7 DEF item, field, key, OctetString

\* A list with one more at its end, or at its front.
LEMMA OneMore ==
    ASSUME NEW S, NEW p \in Seq(S), NEW y \in S, NEW r \in Seq(S),
           Len(r) = Len(p) + 1, \A k \in 1..Len(p) : r[k] = p[k], r[Len(p) + 1] = y
    PROVE  r = p \o <<y>>
<1> DEFINE q == <<y>>
           t == p \o q
<1>1. q \in Seq(S)
  OBVIOUS
<1>2. Len(q) = 1 /\ q[1] = y
  OBVIOUS
<1> HIDE DEF q
<1>3. /\ t \in Seq(S) /\ Len(t) = Len(p) + Len(q)
      /\ \A k \in 1..Len(p) : t[k] = p[k]
      /\ \A k \in 1..Len(q) : t[Len(p) + k] = q[k]
  BY <1>1, Joined
<1>4. Len(p) \in Nat
  OBVIOUS
<1> HIDE DEF t
<1>5. t[Len(p) + 1] = y
  BY <1>2, <1>3, <1>4
<1>6. ASSUME NEW i \in 1..Len(r) PROVE t[i] = r[i]
  <2>1. i \in 1..Len(p) \/ i = Len(p) + 1
    BY <1>4
  <2> QED
    BY <1>3, <1>5, <2>1
<1>7. t = r
  BY <1>2, <1>3, <1>6
<1> QED
  BY <1>7 DEF t, q

LEMMA OneBefore ==
    ASSUME NEW S, NEW q \in Seq(S), NEW y \in S, NEW r \in Seq(S),
           Len(r) = 1 + Len(q), r[1] = y, \A k \in 1..Len(q) : r[1 + k] = q[k]
    PROVE  r = <<y>> \o q
<1> DEFINE p == <<y>>
           t == p \o q
<1>1. p \in Seq(S)
  OBVIOUS
<1>2. Len(p) = 1 /\ p[1] = y
  OBVIOUS
<1> HIDE DEF p
<1>3. /\ t \in Seq(S) /\ Len(t) = Len(p) + Len(q)
      /\ \A k \in 1..Len(p) : t[k] = p[k]
      /\ \A k \in 1..Len(q) : t[Len(p) + k] = q[k]
  BY <1>1, Joined
<1>4. Len(q) \in Nat
  OBVIOUS
<1> HIDE DEF t
<1>5. t[1] = y
  BY <1>2, <1>3
<1>6. ASSUME NEW i \in 1..Len(r) PROVE t[i] = r[i]
  <2>1. i = 1 \/ (i - 1 \in 1..Len(q) /\ 1 + (i - 1) = i)
    BY <1>4
  <2> QED
    BY <1>2, <1>3, <1>5, <2>1
<1>7. t = r
  BY <1>2, <1>3, <1>6
<1> QED
  BY <1>7 DEF t, p

\* A row of so many, and its last or its first.
LEMMA LastOf2 ==
    ASSUME NEW a, NEW b
    PROVE  <<a, b>> = <<a>> \o <<b>>
<1> DEFINE p == <<a>>
           r == <<a, b>>
<1>1. p \in Seq({a, b}) /\ r \in Seq({a, b}) /\ Len(r) = Len(p) + 1
  OBVIOUS
<1>2. r[Len(p) + 1] = b /\ \A k \in 1..Len(p) : r[k] = p[k]
  OBVIOUS
<1> HIDE DEF p, r
<1>3. r = p \o <<b>>
  BY <1>1, <1>2, OneMore
<1> QED
  BY <1>3 DEF p, r

LEMMA LastOf3 ==
    ASSUME NEW a, NEW b, NEW c
    PROVE  <<a, b, c>> = <<a, b>> \o <<c>>
<1>1. <<a, b, c>> \in Seq({a, b, c}) /\ <<a, b>> \in Seq({a, b, c})
  OBVIOUS
<1> QED
  BY <1>1, OneMore

LEMMA FirstOf3 ==
    ASSUME NEW a, NEW b, NEW c
    PROVE  <<a, b, c>> = <<a>> \o <<b, c>>
<1>1. <<a, b, c>> \in Seq({a, b, c}) /\ <<b, c>> \in Seq({a, b, c})
  OBVIOUS
<1> QED
  BY <1>1, OneBefore

LEMMA LastOf4 ==
    ASSUME NEW a, NEW b, NEW c, NEW d
    PROVE  <<a, b, c, d>> = <<a, b, c>> \o <<d>>
<1>1. <<a, b, c, d>> \in Seq({a, b, c, d}) /\ <<a, b, c>> \in Seq({a, b, c, d})
  OBVIOUS
<1> QED
  BY <1>1, OneMore

LEMMA FirstOf4 ==
    ASSUME NEW a, NEW b, NEW c, NEW d
    PROVE  <<a, b, c, d>> = <<a>> \o <<b, c, d>>
<1>1. <<a, b, c, d>> \in Seq({a, b, c, d}) /\ <<b, c, d>> \in Seq({a, b, c, d})
  OBVIOUS
<1> QED
  BY <1>1, OneBefore

LEMMA LastOf5 ==
    ASSUME NEW a, NEW b, NEW c, NEW d, NEW e
    PROVE  <<a, b, c, d, e>> = <<a, b, c, d>> \o <<e>>
<1>1. <<a, b, c, d, e>> \in Seq({a, b, c, d, e}) /\ <<a, b, c, d>> \in Seq({a, b, c, d, e})
  OBVIOUS
<1> QED
  BY <1>1, OneMore

LEMMA FirstOf5 ==
    ASSUME NEW a, NEW b, NEW c, NEW d, NEW e
    PROVE  <<a, b, c, d, e>> = <<a>> \o <<b, c, d, e>>
<1>1. <<a, b, c, d, e>> \in Seq({a, b, c, d, e}) /\ <<b, c, d, e>> \in Seq({a, b, c, d, e})
  OBVIOUS
<1> QED
  BY <1>1, OneBefore

LEMMA LastOf6 ==
    ASSUME NEW a, NEW b, NEW c, NEW d, NEW e, NEW f
    PROVE  <<a, b, c, d, e, f>> = <<a, b, c, d, e>> \o <<f>>
<1>1. <<a, b, c, d, e, f>> \in Seq({a, b, c, d, e, f}) /\ <<a, b, c, d, e>> \in Seq({a, b, c, d, e, f})
  OBVIOUS
<1> QED
  BY <1>1, OneMore

LEMMA FirstOf6 ==
    ASSUME NEW a, NEW b, NEW c, NEW d, NEW e, NEW f
    PROVE  <<a, b, c, d, e, f>> = <<a>> \o <<b, c, d, e, f>>
<1>1. <<a, b, c, d, e, f>> \in Seq({a, b, c, d, e, f})
      /\ <<b, c, d, e, f>> \in Seq({a, b, c, d, e, f})
  OBVIOUS
<1> QED
  BY <1>1, OneBefore

LEMMA LastOf7 ==
    ASSUME NEW a, NEW b, NEW c, NEW d, NEW e, NEW f, NEW g
    PROVE  <<a, b, c, d, e, f, g>> = <<a, b, c, d, e, f>> \o <<g>>
<1>1. <<a, b, c, d, e, f, g>> \in Seq({a, b, c, d, e, f, g}) /\ <<a, b, c, d, e, f>> \in Seq({a, b, c, d, e, f, g})
  OBVIOUS
<1> QED
  BY <1>1, OneMore

LEMMA FirstOf7 ==
    ASSUME NEW a, NEW b, NEW c, NEW d, NEW e, NEW f, NEW g
    PROVE  <<a, b, c, d, e, f, g>> = <<a>> \o <<b, c, d, e, f, g>>
<1>1. <<a, b, c, d, e, f, g>> \in Seq({a, b, c, d, e, f, g}) /\ <<b, c, d, e, f, g>> \in Seq({a, b, c, d, e, f, g})
  OBVIOUS
<1> QED
  BY <1>1, OneBefore

LEMMA LastOf8 ==
    ASSUME NEW a, NEW b, NEW c, NEW d, NEW e, NEW f, NEW g, NEW h
    PROVE  <<a, b, c, d, e, f, g, h>> = <<a, b, c, d, e, f, g>> \o <<h>>
<1>1. <<a, b, c, d, e, f, g, h>> \in Seq({a, b, c, d, e, f, g, h}) /\ <<a, b, c, d, e, f, g>> \in Seq({a, b, c, d, e, f, g, h})
  OBVIOUS
<1> QED
  BY <1>1, OneMore

LEMMA FirstOf8 ==
    ASSUME NEW a, NEW b, NEW c, NEW d, NEW e, NEW f, NEW g, NEW h
    PROVE  <<a, b, c, d, e, f, g, h>> = <<a>> \o <<b, c, d, e, f, g, h>>
<1>1. <<a, b, c, d, e, f, g, h>> \in Seq({a, b, c, d, e, f, g, h}) /\ <<b, c, d, e, f, g, h>> \in Seq({a, b, c, d, e, f, g, h})
  OBVIOUS
<1> QED
  BY <1>1, OneBefore

LEMMA LastOf9 ==
    ASSUME NEW a, NEW b, NEW c, NEW d, NEW e, NEW f, NEW g, NEW h, NEW i
    PROVE  <<a, b, c, d, e, f, g, h, i>> = <<a, b, c, d, e, f, g, h>> \o <<i>>
<1>1. <<a, b, c, d, e, f, g, h, i>> \in Seq({a, b, c, d, e, f, g, h, i}) /\ <<a, b, c, d, e, f, g, h>> \in Seq({a, b, c, d, e, f, g, h, i})
  OBVIOUS
<1> QED
  BY <1>1, OneMore

LEMMA FirstOf9 ==
    ASSUME NEW a, NEW b, NEW c, NEW d, NEW e, NEW f, NEW g, NEW h, NEW i
    PROVE  <<a, b, c, d, e, f, g, h, i>> = <<a>> \o <<b, c, d, e, f, g, h, i>>
<1>1. <<a, b, c, d, e, f, g, h, i>> \in Seq({a, b, c, d, e, f, g, h, i}) /\ <<b, c, d, e, f, g, h, i>> \in Seq({a, b, c, d, e, f, g, h, i})
  OBVIOUS
<1> QED
  BY <1>1, OneBefore

-----------------------------------------------------------------------------
\* The bindings.

Binding == [oid : Oid, value : Value]

PairReadAs(vb) == <<OidReadAs(vb.oid), ValueReadAs(vb.value)>>

BindingsReadAs(varbinds) ==
    FlattenSeq([i \in DOMAIN varbinds |-> PairReadAs(varbinds[i])])

BindingReads == <<Sequence, Read("oid"), Read("value"), Leave>>

LEMMA BindingRead ==
    ASSUME NEW vb \in Binding
    PROVE  /\ EncodeBinding(vb) \in Seq(Byte) /\ Len(EncodeBinding(vb)) > 0
           /\ PairReadAs(vb) \in Seq(Field)
           /\ Consumes(BindingReads, EncodeBinding(vb), PairReadAs(vb), <<>>)
<1> DEFINE oid == vb.oid
           value == vb.value
           x == Tlv(OBJECT_ID, OidBytes(oid))
           y == EncodeValue(value)
           a == OidReadAs(oid)
           b == ValueReadAs(value)
<1>1. oid \in Oid /\ value \in Value
  BY DEF Binding
<1>2. EncodeBinding(vb) = Tlv(SEQUENCE, x \o y) /\ PairReadAs(vb) = <<a, b>>
  BY DEF EncodeBinding, PairReadAs
<1> HIDE DEF oid, value
<1>3. a \in Field /\ b \in Field
  BY <1>1, FieldsAre, ValueFields
<1>4. x \in Seq(Byte)
  BY <1>1, OidReadBack, TagsAre, TlvBytes
<1>5. y \in Seq(Byte)
  <2>1. PICK tag, bytes : Holds(tag, bytes, value)
    BY <1>1, ValueReadBack
  <2> QED
    BY <2>1, TlvBytes DEF Holds
<1>6. Consumes(<<Read("oid")>>, x, <<a>>, <<>>)
  BY <1>1, OidFieldRead
<1>7. Consumes(<<Read("value")>>, y, <<b>>, <<>>)
  BY <1>1, ValueRead
<1> HIDE DEF x, y, a, b
<1>8. /\ <<Read("oid")>> \in Seq(Items) /\ <<Read("value")>> \in Seq(Items)
      /\ <<>> \in Seq(Items) /\ <<a>> \in Seq(Field) /\ <<b>> \in Seq(Field)
  BY <1>3, SimpleReads, SimpleIs
<1>9. Consumes(<<Read("oid")>> \o <<Read("value")>>, x \o y, <<a>> \o <<b>>,
               <<>> \o <<>>)
  BY <1>4, <1>5, <1>6, <1>7, <1>8, ConsumesBoth
<1>10. <<Read("oid")>> \o <<Read("value")>> = <<Read("oid"), Read("value")>>
  BY LastOf2
<1>a. <<a>> \o <<b>> = <<a, b>>
  BY LastOf2
<1>b. <<>> \o <<>> = <<>>
  OBVIOUS
<1> DEFINE r == <<Read("oid"), Read("value")>>
<1>11. Consumes(r, x \o y, <<a, b>>, <<>>)
  BY <1>9, <1>10, <1>a, <1>b
<1>c. r \in Seq(Items)
  BY <1>8
<1>d. <<a, b>> \in Seq(Field) /\ x \o y \in Seq(Byte) /\ SEQUENCE \in Byte
  BY <1>3, <1>4, <1>5, TagsAre
<1>12. <<Enter({SEQUENCE})>> \o r \o <<Leave>> = BindingReads
  <2>1. r = <<Read("oid"), Read("value")>>
    OBVIOUS
  <2> DEFINE e == Enter({SEQUENCE})
             o == Read("oid")
             v == Read("value")
  <2>2. BindingReads = <<e, o, v, Leave>>
    BY DEF BindingReads, Sequence
  <2> HIDE DEF e, o, v, r
  <2>3. <<e, o, v, Leave>> = <<e, o, v>> \o <<Leave>>
    BY LastOf4
  <2>4. <<e, o, v>> = <<e>> \o <<o, v>>
    BY FirstOf3
  <2> QED
    BY <2>1, <2>2, <2>3, <2>4 DEF e, o, v
<1> HIDE DEF r
<1>13. Consumes(<<Enter({SEQUENCE})>> \o r \o <<Leave>>, Tlv(SEQUENCE, x \o y),
                <<a, b>>, <<>>)
  BY <1>8, <1>11, <1>c, <1>d, ConsumesEnclosed
<1> QED
  BY <1>2, <1>d, <1>12, <1>13, TlvBytes

LEMMA SizeBelow ==
    ASSUME NEW m \in Nat, NEW n \in Sizes, m <= n
    PROVE  m \in Sizes
<1> DEFINE p == 256^3
           q == 256^U64Bytes
<1>1. p \in Int /\ q \in Int
  BY PowersOf256, WidthAssumption
<1>2. n \in Nat /\ n < p /\ n < q
  BY DEF Sizes
<1> HIDE DEF p, q
<1>3. m < p /\ m < q
  BY <1>1, <1>2
<1> QED
  BY <1>3 DEF Sizes, p, q

\* The loop over the bindings (decode_varbinds) reads each, and stops at the
\* end of the last.
LEMMA BindingsRead ==
    ASSUME NEW varbinds \in Seq(Binding), NEW content,
           content = FlattenSeq([i \in DOMAIN varbinds |-> EncodeBinding(varbinds[i])])
    PROVE  /\ content \in Seq(Byte) /\ BindingsReadAs(varbinds) \in Seq(Field)
           /\ 2 * Len(content) < 256^U64Bytes /\ Len(content) \in Sizes =>
                \A outer \in Seq(Slices), done \in Seq(Field) :
                   Runs(Config(Stack(content, 0, outer), <<Bindings>>, done),
                        done \o BindingsReadAs(varbinds))
<1> DEFINE n == Len(varbinds)
           b == [i \in DOMAIN varbinds |-> EncodeBinding(varbinds[i])]
           p == [i \in DOMAIN varbinds |-> PairReadAs(varbinds[i])]
<1>1. /\ n \in Nat /\ DOMAIN varbinds = 1..n
      /\ \A i \in 1..n : varbinds[i] \in Binding
  OBVIOUS
<1>2. /\ \A i \in 1..n : b[i] \in Seq(Byte) /\ Len(b[i]) > 0 /\ p[i] \in Seq(Field)
      /\ \A i \in 1..n : Consumes(BindingReads, b[i], p[i], <<>>)
  BY <1>1, BindingRead
<1>3. b \in Seq(Seq(Byte)) /\ p \in Seq(Seq(Field)) /\ Len(b) = n /\ Len(p) = n
  BY <1>1, <1>2
<1>4. content = FlattenSeq(b) /\ BindingsReadAs(varbinds) = FlattenSeq(p)
  BY DEF BindingsReadAs
<1> HIDE DEF n, b, p
<1>5. PICK f : Flattens(f, b, Byte) /\ content = f[n]
  BY <1>3, <1>4, FlattenIs
<1>6. PICK g : Flattens(g, p, Field) /\ BindingsReadAs(varbinds) = g[n]
  BY <1>3, <1>4, FlattenIs
<1>7. /\ \A i \in 0..n : f[i] \in Seq(Byte) /\ g[i] \in Seq(Field)
      /\ f[0] = <<>> /\ g[0] = <<>>
      /\ \A i \in 1..n : g[i] = g[i - 1] \o p[i]
  BY <1>3, <1>5, <1>6 DEF Flattens
<1>8. content \in Seq(Byte) /\ BindingsReadAs(varbinds) \in Seq(Field)
  <2>1. n \in 0..n
    BY <1>1
  <2> QED
    BY <1>5, <1>6, <1>7, <2>1
<1>9. PartsStand(content, 0, f, b)
  <2>1. At(content, 0, content)
    BY <1>8, AtAll
  <2>2. At(content, 0, f[Len(b)])
    BY <1>3, <1>5, <2>1
  <2> QED
    BY <1>3, <1>5, <1>8, <2>2, PartsAt
<1>10. /\ \A i \in 0..n : Len(f[i]) \in Nat
       /\ \A i \in 1..n : /\ At(content, Len(f[i - 1]), b[i])
                          /\ Len(f[i]) = Len(f[i - 1]) + Len(b[i])
       /\ \A i \in 0..n : Len(f[i]) <= Len(content)
  <2>1. /\ \A i \in 0..n : At(content, 0, f[i]) /\ Len(f[i]) \in Nat
        /\ \A i \in 1..n : /\ At(content, 0 + Len(f[i - 1]), b[i])
                           /\ Len(f[i]) = Len(f[i - 1]) + Len(b[i])
    BY <1>3, <1>9 DEF PartsStand
  <2>2. \A i \in 1..n : i - 1 \in 0..n /\ 0 + Len(f[i - 1]) = Len(f[i - 1])
    <3>1. \A i \in 1..n : i - 1 \in 0..n
      BY <1>1
    <3> QED
      BY <2>1, <3>1
  <2>3. ASSUME NEW i \in 0..n PROVE Len(f[i]) <= Len(content)
    <3>1. 0 + Len(f[i]) <= Len(content)
      BY <2>1 DEF At
    <3> QED
      BY <2>1, <3>1
  <2> QED
    BY <2>1, <2>2, <2>3
<1> SUFFICES ASSUME 2 * Len(content) < 256^U64Bytes, Len(content) \in Sizes,
                    NEW outer \in Seq(Slices), NEW done \in Seq(Field)
             PROVE  Runs(Config(Stack(content, 0, outer), <<Bindings>>, done),
                         done \o g[n])
  BY <1>6, <1>8
<1> DEFINE From(k) == Config(Stack(content, Len(f[k]), outer), <<Bindings>>, done \o g[k])
           all == done \o g[n]
           T == {m \in 0..n : ~Runs(From(n - m), all)}
<1>11. /\ <<Bindings>> \in Seq(Items) /\ <<>> \in Seq(Items) /\ Bindings.op = "bindings"
       /\ <<Bindings>> # <<>> /\ Head(<<Bindings>>) = Bindings /\ Tail(<<Bindings>>) = <<>>
       /\ <<Bindings>> \o <<>> = <<Bindings>>
  BY SimpleReads, SimpleIs DEF Bindings
<1>12. ASSUME NEW k \in 0..n
       PROVE  /\ From(k).todo = <<Bindings>> /\ From(k).fields = done \o g[k]
              /\ From(k).frames = Stack(content, Len(f[k]), outer)
              /\ Head(From(k).frames).pos = Len(f[k])
              /\ Head(From(k).frames).data = content
  <2>1. /\ From(k).todo = <<Bindings>> /\ From(k).fields = done \o g[k]
        /\ From(k).frames = Stack(content, Len(f[k]), outer)
    BY DEF Config
  <2>2. /\ Head(Stack(content, Len(f[k]), outer)).pos = Len(f[k])
        /\ Head(Stack(content, Len(f[k]), outer)).data = content
    BY ReaderMoves
  <2> HIDE DEF From
  <2> QED
    BY <2>1, <2>2
<1>13. Runs(From(n), all)
  <2> DEFINE d == Config(Stack(content, Len(f[n]), outer), <<>>, done \o g[n])
  <2>1. d.todo = <<>> /\ d.fields = all
    BY DEF Config
  <2>2. n \in 0..n /\ ~(Len(f[n]) < Len(content))
    BY <1>1, <1>5, <1>8
  <2> HIDE DEF d
  <2>3. Runs(d, all)
    BY <2>1, RunsDone
  <2>4. Moves(From(n), d)
    <3> DEFINE c == From(n)
    <3>1. /\ c.todo = <<Bindings>> /\ c.fields = done \o g[n]
          /\ c.frames = Stack(content, Len(f[n]), outer)
          /\ Head(c.frames).pos = Len(f[n]) /\ Head(c.frames).data = content
      BY <1>12, <2>2
    <3> HIDE DEF c
    <3>2. Repeats(c, d)
      BY <1>11, <2>2, <3>1 DEF Repeats, d
    <3>3. Moves(c, d)
      BY <1>11, <3>1, <3>2 DEF Moves
    <3> QED
      BY <3>3 DEF c
  <2> QED
    BY <2>3, <2>4, RunsFrom
<1>14. ASSUME NEW k \in 1..n, Runs(From(k), all)
       PROVE  Runs(From(k - 1), all)
  <2> DEFINE start == Len(f[k - 1])
             read == done \o g[k - 1]
             d == Config(Stack(content, start, outer), BindingReads \o <<Bindings>>, read)
  <2>1. k - 1 \in 0..n /\ k \in 0..n
    BY <1>1
  <2>2. /\ start \in Nat /\ At(content, start, b[k]) /\ Len(f[k]) = start + Len(b[k])
        /\ Len(f[k]) <= Len(content) /\ b[k] \in Seq(Byte) /\ Len(b[k]) > 0
        /\ p[k] \in Seq(Field) /\ Consumes(BindingReads, b[k], p[k], <<>>)
    BY <1>2, <1>10, <2>1
  <2>3. Len(b[k]) \in Sizes /\ start < Len(content)
    <3>1. Len(b[k]) \in Nat /\ Len(content) \in Nat
      BY <1>8, <2>2
    <3>2. Len(b[k]) <= Len(content) /\ start < Len(content)
      <4> DEFINE len == Len(b[k])
                 whole == Len(content)
                 end == Len(f[k])
      <4>1. len \in Nat /\ whole \in Nat /\ end = start + len /\ end <= whole /\ len > 0
            /\ start \in Nat
        BY <2>2, <3>1
      <4> HIDE DEF len, whole, end, start
      <4>2. len <= whole /\ start < whole
        BY <4>1
      <4> QED
        BY <4>2 DEF len, whole
    <3> QED
      BY <3>1, <3>2, SizeBelow
  <2>4. read \in Seq(Field) /\ done \o g[k] = read \o p[k]
    <3>1. g[k - 1] \in Seq(Field) /\ g[k] = g[k - 1] \o p[k]
      BY <1>7, <2>1
    <3> DEFINE x == g[k - 1]
               y == p[k]
    <3>2. x \in Seq(Field) /\ y \in Seq(Field)
      BY <2>2, <3>1
    <3> HIDE DEF x, y
    <3>3. done \o (x \o y) = (done \o x) \o y /\ done \o x \in Seq(Field)
      BY <3>2
    <3> QED
      BY <3>1, <3>3 DEF x, y
  <2>5. Runs(Config(Stack(content, start + Len(b[k]), outer), <<Bindings>> \o <<>>,
                    read \o p[k]), all)
    BY <1>11, <1>14, <2>2, <2>4
  <2> DEFINE c == From(k - 1)
  <2>6. /\ c.todo = <<Bindings>> /\ c.fields = read
        /\ c.frames = Stack(content, start, outer)
        /\ Head(c.frames).pos = start /\ Head(c.frames).data = content
    BY <1>12, <2>1
  <2> HIDE DEF all, From, start, read
  <2>7. Runs(d, all)
    BY <1>8, <1>11, <2>2, <2>3, <2>4, <2>5, ZenonT(60) DEF Consumes
  <2> HIDE DEF c
  <2>8. Repeats(c, d)
    BY <1>11, <2>3, <2>6 DEF Repeats, BindingReads
  <2>9. Moves(c, d)
    BY <1>11, <2>8, <2>6 DEF Moves
  <2> HIDE DEF d
  <2> QED
    BY <2>7, <2>9, RunsFrom DEF c
<1> HIDE DEF all, From
<1>15. ASSUME T # {} PROVE FALSE
  <2>1. PICK m \in T : \A i \in T : m <= i
    <3>1. T \subseteq Nat
      BY <1>1
    <3> HIDE DEF T
    <3> QED
      BY <1>15, <3>1, Least
  <2>2. m \in 0..n /\ ~Runs(From(n - m), all)
    BY <2>1
  <2>3. m # 0
    <3>1. n - 0 = n
      BY <1>1
    <3> QED
      BY <1>13, <2>2, <3>1
  <2>4. m - 1 \in 0..n /\ n - (m - 1) \in 1..n /\ n - (m - 1) - 1 = n - m /\ m - 1 < m
    BY <1>1, <2>2, <2>3
  <2>5. m - 1 \notin T
    <3> HIDE DEF T
    <3>1. m - 1 \in Int /\ m \in Int /\ ~(m <= m - 1)
      BY <2>2, <2>4
    <3> QED
      BY <2>1, <3>1
  <2>6. Runs(From(n - (m - 1)), all)
    BY <2>4, <2>5
  <2>7. Runs(From(n - (m - 1) - 1), all)
    BY <1>14, <2>4, <2>6
  <2> QED
    BY <2>2, <2>4, <2>7
<1>16. Runs(From(0), all)
  <2>1. n \in 0..n /\ n - n = 0
    BY <1>1
  <2> QED
    BY <1>15, <2>1
<1>17. From(0) = Config(Stack(content, 0, outer), <<Bindings>>, done)
  <2>1. Len(f[0]) = 0 /\ done \o g[0] = done
    BY <1>7
  <2> QED
    BY <2>1 DEF From
<1> QED
  BY <1>16, <1>17 DEF all

\* The list of bindings, the last that there is in a message.
LEMMA ListRead ==
    ASSUME NEW varbinds \in Seq(Binding), NEW content,
           content = FlattenSeq([i \in DOMAIN varbinds |-> EncodeBinding(varbinds[i])])
    PROVE  Concludes(<<Sequence, Bindings>>, Tlv(SEQUENCE, content),
                     BindingsReadAs(varbinds))
<1> DEFINE whole == Tlv(SEQUENCE, content)
           out == BindingsReadAs(varbinds)
<1>1. /\ content \in Seq(Byte) /\ out \in Seq(Field)
      /\ 2 * Len(content) < 256^U64Bytes /\ Len(content) \in Sizes =>
            \A outer \in Seq(Slices), done \in Seq(Field) :
               Runs(Config(Stack(content, 0, outer), <<Bindings>>, done), done \o out)
  BY BindingsRead
<1> HIDE DEF out
<1>2. SEQUENCE \in Byte /\ SEQUENCE \in {SEQUENCE} /\ {SEQUENCE} # AnyTag
  <2>1. 0 \in AnyTag /\ 1 \in AnyTag
    BY DEF AnyTag
  <2> QED
    BY <2>1, TagsAre
<1>3. <<Sequence, Bindings>> = <<Enter({SEQUENCE})>> \o <<Bindings>>
      /\ <<Bindings>> \in Seq(Items)
  BY SimpleReads, SimpleIs DEF Sequence
<1> SUFFICES ASSUME NEW data \in Seq(Byte), NEW pos \in Nat, NEW rest \in Seq(Slices),
                    NEW done \in Seq(Field),
                    2 * Len(data) < 256^U64Bytes, Len(whole) \in Sizes,
                    At(data, pos, whole)
             PROVE  Runs(Config(Stack(data, pos, rest), <<Sequence, Bindings>>, done),
                         done \o out)
  BY ZenonT(60) DEF Concludes, out
<1> DEFINE outer == Stack(data, pos + Len(whole), rest)
<1>4. /\ Len(content) \in Sizes /\ 2 * Len(content) < 256^U64Bytes
      /\ Reader(data, pos + Len(whole)) \in Slices
  BY <1>1, <1>2, TlvInFront
<1>5. outer \in Seq(Slices)
  BY <1>4, ReaderMoves
<1>6. Runs(Config(Stack(content, 0, outer), <<Bindings>>, done), done \o out)
  <2> HIDE DEF outer
  <2> QED
    BY <1>1, <1>4, <1>5
<1>7. Runs(Config(Stack(data, pos, rest), <<Enter({SEQUENCE})>> \o <<Bindings>>, done),
           done \o out)
  BY <1>1, <1>2, <1>3, <1>6, Entered
<1> QED
  BY <1>3, <1>7

-----------------------------------------------------------------------------
\* The messages.

Consuming(reads, bytes, out, chosen) ==
    /\ reads \in Seq(Items) /\ bytes \in Seq(Byte) /\ out \in Seq(Field)
    /\ chosen \in Seq(Items) /\ Consumes(reads, bytes, out, chosen)

Concluding(reads, bytes, out) ==
    /\ reads \in Seq(Items) /\ bytes \in Seq(Byte) /\ out \in Seq(Field)
    /\ Concludes(reads, bytes, out)

\* What each read takes.
LEMMA ConsumingOne ==
    /\ \A v \in Signed(U32Bytes) : Consuming(<<Read("i32")>>, Integer(v), <<v>>, <<>>)
    /\ \A v \in Unsigned(U32Bytes) : Consuming(<<Read("u32")>>, Integer(v), <<v>>, <<>>)
    /\ \A b \in Seq(Byte) : Consuming(<<Read("octets")>>, OctetString(b), <<b>>, <<>>)
    /\ \A oid \in Oid : Consuming(<<Read("oid")>>, Tlv(OBJECT_ID, OidBytes(oid)),
                                  <<OidReadAs(oid)>>, <<>>)
    /\ \A b \in Seq(Byte) : b = <<>> \/ Len(b) = 4 =>
          Consuming(<<Read("address")>>, Tlv(ApplicationTag.IpAddress, b), <<b>>, <<>>)
    /\ \A tag \in Byte, b \in Seq(Byte) :
          Consuming(<<Read("full")>>, Tlv(tag, b), <<Tlv(tag, b)>>, <<>>)
<1>1. <<>> \in Seq(Items)
  OBVIOUS
<1>2. \A as \in {"i32", "u32", "octets", "oid", "address", "full"} :
         <<Read(as)>> \in Seq(Items)
  <2> TAKE as \in {"i32", "u32", "octets", "oid", "address", "full"}
  <2> DEFINE x == Read(as)
  <2>1. x \in Items
    BY SimpleReads, SimpleIs
  <2> HIDE DEF x
  <2>2. <<x>> \in Seq(Items)
    BY <2>1
  <2> QED
    BY <2>2 DEF x
<1>3. \A v \in Int : v \in Signed(U64Bytes) => Integer(v) \in Seq(Byte) /\ v \in Field
  BY NumberTypes, TagsAre, TlvBytes, FieldsAre DEF Integer
<1>4. \A f \in Field : <<f>> \in Seq(Field)
  OBVIOUS
<1>5. ASSUME NEW v \in Signed(U32Bytes)
      PROVE  Consuming(<<Read("i32")>>, Integer(v), <<v>>, <<>>)
  <2>1. v \in Int /\ v \in Signed(U64Bytes)
    BY WidthsNest DEF Signed
  <2> QED
    BY <1>1, <1>2, <1>3, <1>4, <2>1, NumberRead DEF Consuming
<1>6. ASSUME NEW v \in Unsigned(U32Bytes)
      PROVE  Consuming(<<Read("u32")>>, Integer(v), <<v>>, <<>>)
  <2>1. v \in Int /\ v \in Signed(U64Bytes)
    BY WidthsNest DEF Signed
  <2> QED
    BY <1>1, <1>2, <1>3, <1>4, <2>1, NumberRead DEF Consuming
<1>7. ASSUME NEW b \in Seq(Byte)
      PROVE  Consuming(<<Read("octets")>>, OctetString(b), <<b>>, <<>>)
  <2>1. OctetString(b) \in Seq(Byte) /\ b \in Field
    BY TagsAre, TlvBytes, FieldsAre DEF OctetString
  <2> QED
    BY <1>1, <1>2, <1>4, <2>1, OctetsRead DEF Consuming
<1>8. ASSUME NEW oid \in Oid
      PROVE  Consuming(<<Read("oid")>>, Tlv(OBJECT_ID, OidBytes(oid)),
                       <<OidReadAs(oid)>>, <<>>)
  <2>1. Tlv(OBJECT_ID, OidBytes(oid)) \in Seq(Byte) /\ OidReadAs(oid) \in Field
    BY OidReadBack, TagsAre, TlvBytes, FieldsAre
  <2> QED
    BY <1>1, <1>2, <1>4, <2>1, OidFieldRead DEF Consuming
<1>9. ASSUME NEW b \in Seq(Byte), b = <<>> \/ Len(b) = 4
      PROVE  Consuming(<<Read("address")>>, Tlv(ApplicationTag.IpAddress, b), <<b>>, <<>>)
  <2>1. Tlv(ApplicationTag.IpAddress, b) \in Seq(Byte) /\ b \in Field
    BY TagsAre, TlvBytes, FieldsAre
  <2> QED
    BY <1>1, <1>2, <1>4, <1>9, <2>1, AddressRead DEF Consuming
<1>10. ASSUME NEW tag \in Byte, NEW b \in Seq(Byte)
       PROVE  Consuming(<<Read("full")>>, Tlv(tag, b), <<Tlv(tag, b)>>, <<>>)
  <2>1. Tlv(tag, b) \in Seq(Byte) /\ Tlv(tag, b) \in Field
    BY TlvBytes, FieldsAre
  <2> QED
    BY <1>1, <1>2, <1>4, <2>1, FullRead DEF Consuming
<1> QED
  BY <1>5, <1>6, <1>7, <1>8, <1>9, <1>10

LEMMA ConsumingBoth ==
    ASSUME NEW r1, NEW r2, NEW b1, NEW b2, NEW o1, NEW o2, NEW c1, NEW c2,
           Consuming(r1, b1, o1, c1), Consuming(r2, b2, o2, c2),
           c1 = <<>> \/ c2 = <<>>,
           NEW r, r = r1 \o r2, NEW o, o = o1 \o o2
    PROVE  Consuming(r, b1 \o b2, o, IF c1 = <<>> THEN c2 ELSE c1)
<1> DEFINE c == IF c1 = <<>> THEN c2 ELSE c1
<1>1. /\ r1 \in Seq(Items) /\ b1 \in Seq(Byte) /\ o1 \in Seq(Field) /\ c1 \in Seq(Items)
      /\ r2 \in Seq(Items) /\ b2 \in Seq(Byte) /\ o2 \in Seq(Field) /\ c2 \in Seq(Items)
      /\ Consumes(r1, b1, o1, c1) /\ Consumes(r2, b2, o2, c2)
  BY Zenon DEF Consuming
<1>2. Consumes(r1 \o r2, b1 \o b2, o1 \o o2, c1 \o c2)
  BY <1>1, ConsumesBoth
<1>3. c1 \o c2 = c /\ c \in Seq(Items)
  <2>1. c1 \o <<>> = c1 /\ <<>> \o c2 = c2
    BY <1>1, EmptyEnds
  <2> QED
    BY <1>1, <2>1
<1>4. r \in Seq(Items) /\ b1 \o b2 \in Seq(Byte) /\ o \in Seq(Field)
  BY <1>1
<1> HIDE DEF c
<1>5. Consumes(r, b1 \o b2, o, c)
  BY <1>2, <1>3
<1> QED
  BY <1>3, <1>4, <1>5 DEF Consuming, c

LEMMA ConcludingBoth ==
    ASSUME NEW r1, NEW r2 \in Seq(Items), NEW b1, NEW b2, NEW o1, NEW o2, NEW c,
           Consuming(r1, b1, o1, c), Concluding(r2 \o c, b2, o2),
           NEW r, r = r1 \o r2
    PROVE  Concluding(r, b1 \o b2, o1 \o o2)
<1>1. /\ r1 \in Seq(Items) /\ b1 \in Seq(Byte) /\ o1 \in Seq(Field) /\ c \in Seq(Items)
      /\ b2 \in Seq(Byte) /\ o2 \in Seq(Field)
      /\ Consumes(r1, b1, o1, c) /\ Concludes(r2 \o c, b2, o2)
  BY Zenon DEF Consuming, Concluding
<1>2. Concludes(r1 \o r2, b1 \o b2, o1 \o o2)
  BY <1>1, ConcludesBoth
<1>3. r \in Seq(Items) /\ b1 \o b2 \in Seq(Byte) /\ o1 \o o2 \in Seq(Field)
  BY <1>1
<1> QED
  BY <1>2, <1>3 DEF Concluding

LEMMA ConsumingEnclosed ==
    ASSUME NEW tag \in Byte, NEW r1, NEW b, NEW o, NEW c, Consuming(r1, b, o, c),
           NEW r, r = <<Enter({tag})>> \o r1 \o <<Leave>>
    PROVE  Consuming(r, Tlv(tag, b), o, c)
<1>1. /\ r1 \in Seq(Items) /\ b \in Seq(Byte) /\ o \in Seq(Field) /\ c \in Seq(Items)
      /\ Consumes(r1, b, o, c)
  BY Zenon DEF Consuming
<1>2. Consumes(r, Tlv(tag, b), o, c)
  BY <1>1, ConsumesEnclosed
<1>3. r \in Seq(Items) /\ Tlv(tag, b) \in Seq(Byte)
  <2>1. Enter({tag}) \in Items /\ Leave \in Items
    <3>1. {tag} \in SUBSET AnyTag
      BY TagsAre
    <3> QED
      BY <3>1, SimpleReads, SimpleIs
  <2>2. <<Enter({tag})>> \in Seq(Items) /\ <<Leave>> \in Seq(Items)
    BY <2>1
  <2> QED
    BY <1>1, <2>2, TlvBytes
<1> QED
  BY <1>1, <1>2, <1>3 DEF Consuming

LEMMA ConcludingEnclosed ==
    ASSUME NEW tags \in SUBSET Byte, NEW tag \in tags, NEW r1, NEW b, NEW o,
           Concluding(r1, b, o), NEW r, r = <<Enter(tags)>> \o r1
    PROVE  /\ tags # AnyTag => Concluding(r, Tlv(tag, b), o)
           /\ tags = AnyTag => Concluding(r, Tlv(tag, b), <<tag>> \o o)
<1> DEFINE first == IF tags = AnyTag THEN <<tag>> ELSE <<>>
<1>1. /\ r1 \in Seq(Items) /\ b \in Seq(Byte) /\ o \in Seq(Field)
      /\ Concludes(r1, b, o)
  BY Zenon DEF Concluding
<1>2. tag \in Byte /\ tag \in Field
  BY FieldsAre DEF Byte
<1>3. Concludes(r, Tlv(tag, b), first \o o)
  BY <1>1, <1>2, ConcludesEnclosed
<1>4. r \in Seq(Items) /\ Tlv(tag, b) \in Seq(Byte) /\ <<tag>> \o o \in Seq(Field)
  <2>1. Enter(tags) \in Items
    BY TagsAre, SimpleReads, SimpleIs
  <2>2. <<Enter(tags)>> \in Seq(Items) /\ <<tag>> \in Seq(Field)
    BY <1>2, <2>1
  <2> QED
    BY <1>1, <1>2, <2>2, TlvBytes
<1>5. ASSUME tags # AnyTag PROVE Concluding(r, Tlv(tag, b), o)
  <2>1. first \o o = o
    BY <1>1, <1>5, EmptyEnds
  <2> QED
    BY <1>1, <1>3, <1>4, <2>1 DEF Concluding
<1>6. ASSUME tags = AnyTag PROVE Concluding(r, Tlv(tag, b), <<tag>> \o o)
  <2>1. first = <<tag>>
    BY <1>6
  <2> QED
    BY <1>3, <1>4, <2>1 DEF Concluding
<1> QED
  BY <1>5, <1>6

\* Two numbers, three, of any kind that a read takes.
Numbered(as, S) ==
    \A v \in S : Consuming(<<Read(as)>>, Integer(v), <<v>>, <<>>)

LEMMA NumbersRead ==
    ASSUME NEW as1, NEW as2, NEW as3, NEW S1, NEW S2, NEW S3,
           Numbered(as1, S1), Numbered(as2, S2), Numbered(as3, S3),
           NEW v1 \in S1, NEW v2 \in S2, NEW v3 \in S3
    PROVE  Consuming(<<Read(as1), Read(as2), Read(as3)>>,
                     Integer(v1) \o Integer(v2) \o Integer(v3), <<v1, v2, v3>>, <<>>)
<1> DEFINE x1 == Read(as1)
           x2 == Read(as2)
           x3 == Read(as3)
<1>1. /\ Consuming(<<x1>>, Integer(v1), <<v1>>, <<>>)
      /\ Consuming(<<x2>>, Integer(v2), <<v2>>, <<>>)
      /\ Consuming(<<x3>>, Integer(v3), <<v3>>, <<>>)
  BY DEF Numbered
<1> HIDE DEF x1, x2, x3
<1>2. <<x1, x2>> = <<x1>> \o <<x2>>
  BY LastOf2
<1>3. <<x1, x2, x3>> = <<x1, x2>> \o <<x3>>
  BY LastOf3
<1>4. <<v1, v2>> = <<v1>> \o <<v2>>
  BY LastOf2
<1>5. <<v1, v2, v3>> = <<v1, v2>> \o <<v3>>
  BY LastOf3
<1>6. Consuming(<<x1, x2>>, Integer(v1) \o Integer(v2), <<v1, v2>>, <<>>)
  BY <1>1, <1>2, <1>4, ConsumingBoth
<1>7. Consuming(<<x1, x2, x3>>, Integer(v1) \o Integer(v2) \o Integer(v3),
                <<v1, v2, v3>>, <<>>)
  BY <1>1, <1>3, <1>5, <1>6, ConsumingBoth
<1> QED
  BY <1>7 DEF x1, x2, x3

LEMMA NumbersAre ==
    Numbered("i32", Signed(U32Bytes)) /\ Numbered("u32", Unsigned(U32Bytes))
BY ConsumingOne DEF Numbered

BindingsBytes(varbinds) ==
    Tlv(SEQUENCE, FlattenSeq([i \in DOMAIN varbinds |-> EncodeBinding(varbinds[i])]))

LEMMA ConcludingBindings ==
    ASSUME NEW varbinds \in Seq(Binding)
    PROVE  Concluding(<<Sequence, Bindings>>, BindingsBytes(varbinds),
                      BindingsReadAs(varbinds))
<1> DEFINE content == FlattenSeq([i \in DOMAIN varbinds |-> EncodeBinding(varbinds[i])])
<1>1. content \in Seq(Byte) /\ BindingsReadAs(varbinds) \in Seq(Field)
  BY BindingsRead
<1>2. Concludes(<<Sequence, Bindings>>, Tlv(SEQUENCE, content), BindingsReadAs(varbinds))
  BY ListRead
<1>3. BindingsBytes(varbinds) = Tlv(SEQUENCE, content)
  BY DEF BindingsBytes
<1> HIDE DEF content
<1>4. Tlv(SEQUENCE, content) \in Seq(Byte)
  BY <1>1, TagsAre, TlvBytes
<1>5. <<Sequence, Bindings>> \in Seq(Items)
  <2>1. Sequence \in Items /\ Bindings \in Items
    BY SimpleReads, SimpleIs
  <2> HIDE DEF Sequence, Bindings
  <2> QED
    BY <2>1
<1> QED
  BY <1>1, <1>2, <1>3, <1>4, <1>5 DEF Concluding

\* The contents of the PDU of a response, or of a trap of the second version.
PduContent(id, errorStatus, index, varbinds) ==
    Integer(id) \o Integer(errorStatus) \o Integer(index) \o BindingsBytes(varbinds)

LEMMA PduRead ==
    ASSUME NEW id \in Signed(U32Bytes), NEW errorStatus \in Unsigned(U32Bytes),
           NEW index \in Unsigned(U32Bytes), NEW varbinds \in Seq(Binding)
    PROVE  Concluding(PduReads, PduContent(id, errorStatus, index, varbinds),
                      <<id, errorStatus, index>> \o BindingsReadAs(varbinds))
<1> DEFINE i == Read("i32")
           u == Read("u32")
           s == Sequence
           t == Bindings
<1>1. Consuming(<<i, u, u>>, Integer(id) \o Integer(errorStatus) \o Integer(index),
                <<id, errorStatus, index>>, <<>>)
  BY NumbersAre, NumbersRead
<1>2. Concluding(<<s, t>>, BindingsBytes(varbinds), BindingsReadAs(varbinds))
  BY ConcludingBindings
<1>3. PduReads = <<i, u, u, s, t>> /\ s \in Items /\ t \in Items /\ i \in Items /\ u \in Items
  BY SimpleReads, SimpleIs DEF PduReads
<1> HIDE DEF i, u, s, t
<1>4. <<s, t>> \in Seq(Items) /\ <<i, u, u>> \in Seq(Items) /\ <<t>> \in Seq(Items)
      /\ <<s>> \in Seq(Items)
  BY <1>3
<1>5. <<i, u, u, s, t>> = <<i, u, u>> \o <<s, t>>
  <2>1. <<i, u, u, s, t>> = <<i, u, u, s>> \o <<t>>
    BY LastOf5
  <2>2. <<i, u, u, s>> = <<i, u, u>> \o <<s>>
    BY LastOf4
  <2>3. <<s, t>> = <<s>> \o <<t>>
    BY LastOf2
  <2> DEFINE p == <<i, u, u>>
             q == <<s>>
             r == <<t>>
  <2>4. p \in Seq(Items) /\ q \in Seq(Items) /\ r \in Seq(Items)
    BY <1>4
  <2> HIDE DEF p, q, r
  <2>5. (p \o q) \o r = p \o (q \o r)
    BY <2>4
  <2> QED
    BY <2>1, <2>2, <2>3, <2>5 DEF p, q, r
<1>6. Concluding(<<s, t>> \o <<>>, BindingsBytes(varbinds), BindingsReadAs(varbinds))
  BY <1>2, <1>4, EmptyEnds
<1>7. Concluding(PduReads, Integer(id) \o Integer(errorStatus) \o Integer(index)
                              \o BindingsBytes(varbinds),
                 <<id, errorStatus, index>> \o BindingsReadAs(varbinds))
  BY <1>1, <1>3, <1>4, <1>5, <1>6, ConcludingBoth
<1> QED
  BY <1>7 DEF PduContent

LEMMA EncodePduIs ==
    ASSUME NEW tag, NEW id, NEW errorStatus, NEW index, NEW varbinds
    PROVE  EncodePdu(tag, id, errorStatus, index, varbinds) =
              Tlv(tag, PduContent(id, errorStatus, index, varbinds))
BY DEF EncodePdu, PduContent, BindingsBytes

\* A community and the PDU in a message of the first two versions.
LEMMA CommunityRead ==
    ASSUME NEW community \in Seq(Byte), NEW tag \in Byte, NEW pdu, NEW list, NEW out,
           Concluding(list, pdu, out)
    PROVE  Concluding(<<Read("octets"), Enter({tag})>> \o list,
                      OctetString(community) \o Tlv(tag, pdu), <<community>> \o out)
<1> DEFINE o == Read("octets")
           e == Enter({tag})
<1>1. Consuming(<<o>>, OctetString(community), <<community>>, <<>>)
  BY ConsumingOne
<1>2. {tag} \in SUBSET Byte /\ {tag} # AnyTag
  <2>1. 0 \in AnyTag /\ 1 \in AnyTag
    BY DEF AnyTag
  <2> QED
    BY <2>1
<1>3. o \in Items /\ e \in Items /\ list \in Seq(Items)
  BY <1>2, TagsAre, SimpleReads, SimpleIs DEF Concluding
<1>4. Concluding(<<e>> \o list, Tlv(tag, pdu), out)
  BY <1>2, ConcludingEnclosed
<1> HIDE DEF o, e
<1>5. <<o>> \in Seq(Items) /\ <<e>> \in Seq(Items) /\ <<e>> \o list \in Seq(Items)
  BY <1>3
<1>6. <<o, e>> \o list = <<o>> \o (<<e>> \o list)
  <2>1. <<o, e>> = <<o>> \o <<e>>
    BY LastOf2
  <2>2. (<<o>> \o <<e>>) \o list = <<o>> \o (<<e>> \o list)
    <3> DEFINE p == <<o>>
               q == <<e>>
    <3>1. p \in Seq(Items) /\ q \in Seq(Items)
      BY <1>5
    <3> HIDE DEF p, q
    <3>2. (p \o q) \o list = p \o (q \o list)
      BY <1>3, <3>1
    <3> QED
      BY <3>2 DEF p, q
  <2> QED
    BY <2>1, <2>2
<1>7. (<<e>> \o list) \o <<>> = <<e>> \o list
  BY <1>5, EmptyEnds
<1>8. Concluding(<<o, e>> \o list, OctetString(community) \o Tlv(tag, pdu),
                 <<community>> \o out)
  BY <1>1, <1>4, <1>5, <1>6, <1>7, ConcludingBoth
<1> QED
  BY <1>8 DEF o, e

\* A message whole: what its version has read of the rest.
LEMMA WholeRead ==
    ASSUME NEW next, Version(next) \in Items, NEW v \in DOMAIN next, v \in {0, 1, 3},
           NEW rest, NEW out, Concluding(next[v], rest, out)
    PROVE  Concluding(<<Sequence, Version(next)>>, Tlv(SEQUENCE, Integer(v) \o rest),
                      <<v>> \o out)
<1> DEFINE item == Version(next)
           s == Sequence
<1>1. v \in Signed(U64Bytes) /\ v \in Int
  <2>1. v \in Unsigned(U32Bytes)
    <3> DEFINE p == 256^U32Bytes
               q == 256^(U32Bytes - 1)
    <3>1. p = 256 * q /\ q \in Nat \ {0}
      BY PowersOf256, WidthsNest
    <3> HIDE DEF p, q
    <3>2. v \in Nat /\ v < p
      BY <3>1
    <3> QED
      BY <3>2 DEF Unsigned, p
  <2> QED
    BY <2>1, WidthsNest
<1>2. Consumes(<<item>>, Integer(v), <<v>>, next[v])
  BY <1>1, VersionRead
<1>3. next[v] \in Seq(Items)
  BY DEF Concluding
<1> HIDE DEF item
<1>4. <<item>> \in Seq(Items) /\ Integer(v) \in Seq(Byte) /\ <<v>> \in Seq(Field)
  BY <1>1, NumberTypes, TagsAre, TlvBytes, FieldsAre DEF Integer, item
<1>5. Consuming(<<item>>, Integer(v), <<v>>, next[v])
  BY <1>2, <1>3, <1>4 DEF Consuming
<1>6. <<>> \o next[v] = next[v] /\ <<item>> \o <<>> = <<item>> /\ <<>> \in Seq(Items)
  BY <1>3, <1>4, EmptyEnds
<1>7. Concluding(<<item>>, Integer(v) \o rest, <<v>> \o out)
  BY <1>5, <1>6, ConcludingBoth
<1>8. <<s, item>> = <<s>> \o <<item>>
  BY LastOf2
<1>9. {SEQUENCE} \in SUBSET Byte /\ SEQUENCE \in {SEQUENCE} /\ {SEQUENCE} # AnyTag
  <2>1. 0 \in AnyTag /\ 1 \in AnyTag
    BY DEF AnyTag
  <2> QED
    BY <2>1, TagsAre
<1>10. Concluding(<<s, item>>, Tlv(SEQUENCE, Integer(v) \o rest), <<v>> \o out)
  BY <1>7, <1>8, <1>9, ConcludingEnclosed DEF Sequence
<1> QED
  BY <1>10 DEF item

\* Three lists one after another, either way.
LEMMA Regrouped ==
    ASSUME NEW S, NEW p \in Seq(S), NEW q \in Seq(S), NEW r \in Seq(S)
    PROVE  /\ p \o (q \o r) = (p \o q) \o r
           /\ p \o q \in Seq(S) /\ q \o r \in Seq(S) /\ (p \o q) \o r \in Seq(S)
<1>1. p \o (q \o r) = (p \o q) \o r
  OBVIOUS
<1>2. p \o q \in Seq(S) /\ q \o r \in Seq(S)
  OBVIOUS
<1> QED
  BY <1>1, <1>2

LEMMA SmallNumbers ==
    ASSUME NEW v \in {0, 1, 2, 3}
    PROVE  v \in Unsigned(U32Bytes) /\ v \in Signed(U64Bytes)
<1> DEFINE p == 256^U32Bytes
           q == 256^(U32Bytes - 1)
<1>1. p = 256 * q /\ q \in Nat \ {0}
  BY PowersOf256, WidthsNest
<1> HIDE DEF p, q
<1>2. v \in Nat /\ v < p
  BY <1>1
<1>3. v \in Unsigned(U32Bytes)
  BY <1>2 DEF Unsigned, p
<1> QED
  BY <1>3, WidthsNest

\* What is read of the message is what it was encoded from, but for what the
\* bindings are read as.
Carries(m, header) ==
    /\ m.varbinds \in Seq(Binding) /\ header \in Seq(Field) /\ m.bytes \in Seq(Byte)
    /\ m.decoder \in DOMAIN Reads
    /\ m.fields = header \o BindingFields(m.varbinds)
    /\ ~m.zeroRun
    /\ Concluding(Reads[m.decoder], m.bytes, header \o BindingsReadAs(m.varbinds))

LEMMA MessageCarries ==
    ASSUME NEW decoder \in DOMAIN Reads, NEW bytes, NEW header \in Seq(Field),
           NEW varbinds \in Seq(Binding),
           Concluding(Reads[decoder], bytes, header \o BindingsReadAs(varbinds))
    PROVE  Carries(Message(decoder, bytes, header, varbinds), header)
<1> DEFINE m == Message(decoder, bytes, header, varbinds)
<1>1. /\ m.decoder = decoder /\ m.bytes = bytes /\ m.varbinds = varbinds
      /\ m.zeroRun = FALSE /\ m.fields = header \o BindingFields(varbinds)
  BY DEF Message
<1>2. bytes \in Seq(Byte)
  BY DEF Concluding
<1> HIDE DEF m
<1>3. Carries(m, header)
  BY <1>1, <1>2 DEF Carries
<1> QED
  BY <1>3 DEF m

\* The decoders that look at the version first.
LEMMA VersionsAre ==
    /\ DOMAIN Reads = {"response", "trap", "v3", "scoped"}
    /\ \E next : /\ Reads["response"] = <<Sequence, Version(next)>> /\ Version(next) \in Items
                 /\ DOMAIN next = {0, 1, 3}
                 /\ next[0] = ResponseReads /\ next[1] = ResponseReads
                 /\ next[3] = ResponseReads
    /\ \E next : /\ Reads["trap"] = <<Sequence, Version(next)>> /\ Version(next) \in Items
                 /\ DOMAIN next = {0, 1, 3}
                 /\ next[0] = TrapV1Reads /\ next[1] = TrapV2cReads
                 /\ next[3] = TrapV3Reads
    /\ \E next : /\ Reads["v3"] = <<Sequence, Version(next)>> /\ Version(next) \in Items
                 /\ DOMAIN next = {3} /\ next[3] = V3Reads
    /\ Reads["scoped"] = ScopedReads
<1>1. /\ DOMAIN Reads = {"response", "trap", "v3", "scoped"}
      /\ Reads["scoped"] = ScopedReads
      /\ Reads["response"] = <<Sequence, Version([v \in {0, 1, 3} |-> ResponseReads])>>
      /\ Reads["trap"] = <<Sequence, Version([v \in {0, 1, 3} |->
                             CASE v = 0 -> TrapV1Reads [] v = 1 -> TrapV2cReads
                               [] v = 3 -> TrapV3Reads])>>
      /\ Reads["v3"] = <<Sequence, Version([v \in {3} |-> V3Reads])>>
  BY DEF Reads
<1>2. \A next : <<Sequence, Version(next)>> \in Plans(Items) => Version(next) \in Items
  <2> TAKE next
  <2> DEFINE x == Version(next)
             p == <<Sequence, x>>
  <2> HAVE p \in Plans(Items)
  <2>1. p \in Seq(Items)
    BY DEF Plans
  <2>2. Len(p) = 2 /\ p[2] = x
    OBVIOUS
  <2> HIDE DEF p, x
  <2>3. x \in Items
    BY <2>1, <2>2
  <2> QED
    BY <2>3 DEF x
<1> DEFINE next1 == [v \in {0, 1, 3} |-> ResponseReads]
           next2 == [v \in {0, 1, 3} |->
                       CASE v = 0 -> TrapV1Reads [] v = 1 -> TrapV2cReads
                         [] v = 3 -> TrapV3Reads]
           next3 == [v \in {3} |-> V3Reads]
<1>3. /\ Version(next1) \in Items /\ Version(next2) \in Items /\ Version(next3) \in Items
  BY <1>1, <1>2, ReadsArePlans
<1>4. /\ DOMAIN next1 = {0, 1, 3} /\ next1[0] = ResponseReads
      /\ next1[1] = ResponseReads /\ next1[3] = ResponseReads
  OBVIOUS
<1>5. /\ DOMAIN next2 = {0, 1, 3} /\ next2[0] = TrapV1Reads
      /\ next2[1] = TrapV2cReads /\ next2[3] = TrapV3Reads
  OBVIOUS
<1>6. DOMAIN next3 = {3} /\ next3[3] = V3Reads
  OBVIOUS
<1>7. /\ Reads["response"] = <<Sequence, Version(next1)>>
      /\ Reads["trap"] = <<Sequence, Version(next2)>>
      /\ Reads["v3"] = <<Sequence, Version(next3)>>
  BY <1>1
<1> HIDE DEF next1, next2, next3
<1> QED
  BY <1>1, <1>3, <1>4, <1>5, <1>6, <1>7

\* A number and a list.
LEMMA HeaderReadsOn ==
    ASSUME NEW x \in Field, NEW h \in Seq(Field), NEW rest \in Seq(Field)
    PROVE  <<x>> \o (h \o rest) = (<<x>> \o h) \o rest
<1> DEFINE p == <<x>>
<1>1. p \in Seq(Field)
  OBVIOUS
<1> HIDE DEF p
<1>2. p \o (h \o rest) = (p \o h) \o rest
  BY <1>1, Regrouped
<1> QED
  BY <1>2 DEF p

LEMMA EncodeMessageIs ==
    ASSUME NEW version \in {0, 1, 3}, NEW community \in Seq(Byte), NEW pdu \in Seq(Byte)
    PROVE  EncodeMessage(version, community, pdu) =
              Tlv(SEQUENCE, Integer(version) \o (OctetString(community) \o pdu))
<1> DEFINE i == Integer(version)
           c == OctetString(community)
<1>1. i \in Seq(Byte) /\ c \in Seq(Byte)
  BY SmallNumbers, NumberTypes, TagsAre, TlvBytes DEF Integer, OctetString
<1>2. EncodeMessage(version, community, pdu) = Tlv(SEQUENCE, (i \o c) \o pdu)
  BY DEF EncodeMessage
<1> HIDE DEF i, c
<1>3. i \o (c \o pdu) = (i \o c) \o pdu
  BY <1>1, Regrouped
<1> QED
  BY <1>2, <1>3 DEF i, c

\* A message of the first two versions, or of a response.
LEMMA VersionedRead ==
    ASSUME NEW decoder \in DOMAIN Reads, NEW next,
           Reads[decoder] = <<Sequence, Version(next)>>, Version(next) \in Items,
           NEW version \in {0, 1, 3}, version \in DOMAIN next,
           NEW tag \in Byte, NEW list,
           next[version] = <<Read("octets"), Enter({tag})>> \o list,
           NEW community \in Seq(Byte), NEW content,
           NEW h \in Seq(Field), NEW out \in Seq(Field),
           Concluding(list, content, h \o out)
    PROVE  Concluding(Reads[decoder], EncodeMessage(version, community, Tlv(tag, content)),
                      (<<version>> \o (<<community>> \o h)) \o out)
<1> DEFINE i == Integer(version)
           c == OctetString(community)
           t == Tlv(tag, content)
<1>1. Concluding(next[version], c \o t, <<community>> \o (h \o out))
  BY CommunityRead
<1>2. Concluding(Reads[decoder], Tlv(SEQUENCE, i \o (c \o t)),
                 <<version>> \o (<<community>> \o (h \o out)))
  <2> HIDE DEF c, t
  <2> QED
    BY <1>1, WholeRead
<1>3. t \in Seq(Byte)
  <2>1. content \in Seq(Byte)
    BY DEF Concluding
  <2> QED
    BY <2>1, TlvBytes
<1> HIDE DEF i, c, t
<1>4. EncodeMessage(version, community, t) = Tlv(SEQUENCE, i \o (c \o t))
  BY <1>3, EncodeMessageIs DEF i, c
<1>5. version \in Field /\ community \in Field
  BY FieldsAre
<1>6. <<community>> \o h \in Seq(Field)
  BY <1>5
<1>7. <<community>> \o (h \o out) = (<<community>> \o h) \o out
  BY <1>5, HeaderReadsOn
<1>8. <<version>> \o ((<<community>> \o h) \o out)
         = (<<version>> \o (<<community>> \o h)) \o out
  BY <1>5, <1>6, HeaderReadsOn
<1> QED
  BY <1>2, <1>4, <1>7, <1>8 DEF t

LEMMA ResponseCarries ==
    ASSUME NEW version \in {0, 1, 3}, NEW community \in Seq(Byte),
           NEW id \in Signed(U32Bytes), NEW errorStatus \in Unsigned(U32Bytes),
           NEW index \in Unsigned(U32Bytes), NEW varbinds \in Seq(Binding)
    PROVE  \E header :
              Carries(Response(version, community, id, errorStatus, index, varbinds), header)
<1> DEFINE out == BindingsReadAs(varbinds)
           content == PduContent(id, errorStatus, index, varbinds)
           bytes == EncodeMessage(version, community,
                                  EncodePdu(RESPONSE, id, errorStatus, index, varbinds))
           header == <<version, community, id, errorStatus, index>>
           h == <<id, errorStatus, index>>
<1>1. Concluding(PduReads, content, h \o out)
  BY PduRead
<1>2. PICK next : /\ Reads["response"] = <<Sequence, Version(next)>>
                  /\ Version(next) \in Items
                  /\ DOMAIN next = {0, 1, 3}
                  /\ next[0] = ResponseReads /\ next[1] = ResponseReads
                  /\ next[3] = ResponseReads
  BY VersionsAre
<1>3. version \in DOMAIN next /\ next[version] = <<Read("octets"), Enter({RESPONSE})>> \o PduReads
  BY <1>2 DEF ResponseReads
<1>4. /\ h \in Seq(Field) /\ header \in Seq(Field) /\ out \in Seq(Field)
  <2>1. id \in Int /\ errorStatus \in Int /\ index \in Int /\ version \in Int
    BY DEF Signed, Unsigned
  <2>2. /\ id \in Field /\ errorStatus \in Field /\ index \in Field
        /\ version \in Field /\ community \in Field
    BY <2>1, FieldsAre
  <2>3. out \in Seq(Field)
    BY BindingsRead
  <2> QED
    BY <2>2, <2>3
<1>5. header = <<version>> \o (<<community>> \o h)
  <2>1. header = <<version>> \o <<community, id, errorStatus, index>>
    BY FirstOf5
  <2>2. <<community, id, errorStatus, index>> = <<community>> \o h
    BY FirstOf4
  <2> QED
    BY <2>1, <2>2
<1>6. bytes = EncodeMessage(version, community, Tlv(RESPONSE, content))
  BY EncodePduIs
<1>7. "response" \in DOMAIN Reads /\ RESPONSE \in Byte
  BY VersionsAre, TagsAre
<1> HIDE DEF bytes, header, content, out, h
<1>8. Concluding(Reads["response"], bytes, header \o out)
  BY <1>1, <1>2, <1>3, <1>4, <1>5, <1>6, <1>7, VersionedRead
<1>9. Carries(Message("response", bytes, header, varbinds), header)
  BY <1>4, <1>7, <1>8, MessageCarries DEF out
<1> QED
  BY <1>9 DEF Response, bytes, header

LEMMA TrapV2cCarries ==
    ASSUME NEW community \in Seq(Byte), NEW id \in Signed(U32Bytes),
           NEW varbinds \in Seq(Binding)
    PROVE  \E header : Carries(TrapV2c(community, id, varbinds), header)
<1> DEFINE out == BindingsReadAs(varbinds)
           content == PduContent(id, 0, 0, varbinds)
           bytes == EncodeMessage(1, community, EncodePdu(TRAP_V2, id, 0, 0, varbinds))
           header == <<1, community, id, 0, 0>>
           h == <<id, 0, 0>>
<1>1. Concluding(PduReads, content, h \o out)
  BY SmallNumbers, PduRead
<1>2. PICK next : /\ Reads["trap"] = <<Sequence, Version(next)>>
                  /\ Version(next) \in Items
                  /\ DOMAIN next = {0, 1, 3}
                  /\ next[0] = TrapV1Reads /\ next[1] = TrapV2cReads
                  /\ next[3] = TrapV3Reads
  BY VersionsAre
<1>3. 1 \in DOMAIN next /\ next[1] = <<Read("octets"), Enter({TRAP_V2})>> \o PduReads
  BY <1>2 DEF TrapV2cReads
<1>4. /\ h \in Seq(Field) /\ header \in Seq(Field) /\ out \in Seq(Field)
  <2>1. id \in Int
    BY DEF Signed
  <2>2. id \in Field /\ 0 \in Field /\ 1 \in Field /\ community \in Field
    BY <2>1, FieldsAre
  <2>3. out \in Seq(Field)
    BY BindingsRead
  <2> QED
    BY <2>2, <2>3
<1>5. header = <<1>> \o (<<community>> \o h)
  <2>1. header = <<1>> \o <<community, id, 0, 0>>
    BY FirstOf5
  <2>2. <<community, id, 0, 0>> = <<community>> \o h
    BY FirstOf4
  <2> QED
    BY <2>1, <2>2
<1>6. bytes = EncodeMessage(1, community, Tlv(TRAP_V2, content))
  BY EncodePduIs
<1>7. "trap" \in DOMAIN Reads /\ TRAP_V2 \in Byte
  BY VersionsAre, TagsAre
<1> HIDE DEF bytes, header, content, out, h
<1>8. Concluding(Reads["trap"], bytes, header \o out)
  BY <1>1, <1>2, <1>3, <1>4, <1>5, <1>6, <1>7, VersionedRead
<1>9. Carries(Message("trap", bytes, header, varbinds), header)
  BY <1>4, <1>7, <1>8, MessageCarries DEF out
<1> QED
  BY <1>9 DEF TrapV2c, bytes, header

\* The numbers of a trap of the first version, one after another.
LEMMA ThreeFlattened ==
    ASSUME NEW x \in Seq(Byte), NEW y \in Seq(Byte), NEW z \in Seq(Byte)
    PROVE  FlattenSeq(<<x, y, z>>) = (x \o y) \o z
<1> DEFINE s == <<x, y, z>>
<1>1. s \in Seq(Seq(Byte)) /\ Len(s) = 3 /\ s[1] = x /\ s[2] = y /\ s[3] = z
  OBVIOUS
<1> HIDE DEF s
<1>2. PICK f : Flattens(f, s, Byte) /\ FlattenSeq(s) = f[3]
  BY <1>1, FlattenIs
<1>3. f[0] = <<>> /\ f[1] = f[0] \o x /\ f[2] = f[1] \o y /\ f[3] = f[2] \o z
  <2>1. \A i \in 1..3 : f[i] = f[i - 1] \o s[i]
    BY <1>1, <1>2 DEF Flattens
  <2>2. f[1] = f[0] \o x
    <3>1. 1 \in 1..3 /\ 1 - 1 = 0
      OBVIOUS
    <3> QED
      BY <1>1, <2>1, <3>1
  <2>3. f[2] = f[1] \o y
    <3>1. 2 \in 1..3 /\ 2 - 1 = 1
      OBVIOUS
    <3> QED
      BY <1>1, <2>1, <3>1
  <2>4. f[3] = f[2] \o z
    <3>1. 3 \in 1..3 /\ 3 - 1 = 2
      OBVIOUS
    <3> QED
      BY <1>1, <2>1, <3>1
  <2>5. f[0] = <<>>
    BY <1>2 DEF Flattens
  <2> QED
    BY <2>2, <2>3, <2>4, <2>5
<1>4. <<>> \o x = x
  BY EmptyEnds
<1> QED
  BY <1>2, <1>3, <1>4 DEF s

TrapV1Content(enterprise, address, n1, n2, n3, varbinds) ==
    Tlv(OBJECT_ID, OidBytes(enterprise)) \o Tlv(ApplicationTag.IpAddress, address) \o
    (Integer(n1) \o Integer(n2) \o Integer(n3)) \o BindingsBytes(varbinds)

LEMMA EncodeTrapV1Is ==
    ASSUME NEW enterprise, NEW address, NEW n1 \in Signed(U32Bytes),
           NEW n2 \in Signed(U32Bytes), NEW n3 \in Unsigned(U32Bytes), NEW varbinds
    PROVE  EncodeTrapV1(enterprise, address, <<n1, n2, n3>>, varbinds) =
              Tlv(TRAP_V1, TrapV1Content(enterprise, address, n1, n2, n3, varbinds))
<1> DEFINE numbers == <<n1, n2, n3>>
           s == [i \in DOMAIN numbers |-> Integer(numbers[i])]
           x == Integer(n1)
           y == Integer(n2)
           z == Integer(n3)
<1>1. s = <<x, y, z>>
  OBVIOUS
<1>2. x \in Seq(Byte) /\ y \in Seq(Byte) /\ z \in Seq(Byte)
  BY ConsumingOne DEF Consuming
<1> HIDE DEF x, y, z, s
<1>3. FlattenSeq(s) = (x \o y) \o z
  BY <1>1, <1>2, ThreeFlattened
<1> QED
  BY <1>3 DEF EncodeTrapV1, TrapV1Content, BindingsBytes, s, x, y, z

TrapV1List ==
    <<Read("oid"), Read("address"), Read("i32"), Read("i32"), Read("u32"),
      Sequence, Bindings>>

LEMMA TrapV1ListIs ==
    /\ TrapV1Reads = <<Read("octets"), Enter({TRAP_V1})>> \o TrapV1List
    /\ TrapV1List = (<<Read("oid"), Read("address")>> \o
                     <<Read("i32"), Read("i32"), Read("u32")>>) \o <<Sequence, Bindings>>
<1> DEFINE o == Read("octets")
           e == Enter({TRAP_V1})
           d == Read("oid")
           a == Read("address")
           i == Read("i32")
           u == Read("u32")
           s == Sequence
           t == Bindings
           seven == <<d, a, i, i, u, s, t>>
<1>1. TrapV1Reads = <<o, e, d, a, i, i, u, s, t>> /\ TrapV1List = seven
  BY DEF TrapV1Reads, TrapV1List
<1> DEFINE S == {o, e, d, a, i, u, s, t}
<1> HIDE DEF o, e, d, a, i, u, s, t
<1>2. /\ o \in S /\ e \in S /\ d \in S /\ a \in S /\ i \in S /\ u \in S /\ s \in S
      /\ t \in S
  OBVIOUS
<1> HIDE DEF S
<1>3. <<o, e, d, a, i, i, u, s, t>> = <<o>> \o <<e, d, a, i, i, u, s, t>>
  BY FirstOf9
<1>4. <<e, d, a, i, i, u, s, t>> = <<e>> \o seven
  BY FirstOf8
<1>5. <<o, e>> = <<o>> \o <<e>>
  BY LastOf2
<1>6. seven = <<d, a, i, i, u, s>> \o <<t>>
  BY LastOf7
<1>7. <<d, a, i, i, u, s>> = <<d, a, i, i, u>> \o <<s>>
  BY LastOf6
<1>8. <<d, a, i, i, u>> = <<d>> \o <<a, i, i, u>>
  BY FirstOf5
<1>9. <<a, i, i, u>> = <<a>> \o <<i, i, u>>
  BY FirstOf4
<1>10. <<d, a>> = <<d>> \o <<a>> /\ <<s, t>> = <<s>> \o <<t>>
  <2>1. <<d, a>> = <<d>> \o <<a>>
    BY LastOf2
  <2>2. <<s, t>> = <<s>> \o <<t>>
    BY LastOf2
  <2> QED
    BY <2>1, <2>2
<1> DEFINE po == <<o>>
           pe == <<e>>
           pd == <<d>>
           pa == <<a>>
           pi == <<i, i, u>>
           ps == <<s>>
           pt == <<t>>
<1>11. /\ po \in Seq(S) /\ pe \in Seq(S) /\ pd \in Seq(S) /\ pa \in Seq(S)
       /\ pi \in Seq(S) /\ ps \in Seq(S) /\ pt \in Seq(S) /\ seven \in Seq(S)
  BY <1>2
<1> HIDE DEF po, pe, pd, pa, pi, ps, pt, seven
<1>12. po \o (pe \o seven) = (po \o pe) \o seven
  <2>1. po \in Seq(S) /\ pe \in Seq(S) /\ seven \in Seq(S)
    BY <1>11
  <2> QED
    BY <2>1
<1>13. pd \o (pa \o pi) = (pd \o pa) \o pi
  <2>1. pd \in Seq(S) /\ pa \in Seq(S) /\ pi \in Seq(S)
    BY <1>11
  <2> QED
    BY <2>1
<1> DEFINE front == (pd \o pa) \o pi
<1>14. front \in Seq(S)
  BY <1>11, Regrouped
<1> HIDE DEF front
<1>15. (front \o ps) \o pt = front \o (ps \o pt)
  <2>1. ps \in Seq(S) /\ pt \in Seq(S)
    BY <1>11
  <2> QED
    BY <1>14, <2>1
<1>16. <<o, e>> \o seven = <<o, e, d, a, i, i, u, s, t>>
  BY <1>3, <1>4, <1>5, <1>12 DEF po, pe
<1>17. seven = (<<d, a>> \o <<i, i, u>>) \o <<s, t>>
  BY <1>6, <1>7, <1>8, <1>9, <1>10, <1>13, <1>15 DEF pd, pa, pi, ps, pt, front
<1> QED
  BY <1>1, <1>16, <1>17 DEF o, e, d, a, i, u, s, t

LEMMA TrapV1ContentRead ==
    ASSUME NEW enterprise \in Oid, NEW address \in Seq(Byte),
           address = <<>> \/ Len(address) = 4,
           NEW n1 \in Signed(U32Bytes), NEW n2 \in Signed(U32Bytes),
           NEW n3 \in Unsigned(U32Bytes), NEW varbinds \in Seq(Binding)
    PROVE  Concluding(TrapV1List,
                      TrapV1Content(enterprise, address, n1, n2, n3, varbinds),
                      (<<OidReadAs(enterprise), address>> \o <<n1, n2, n3>>) \o
                         BindingsReadAs(varbinds))
<1> DEFINE d == Read("oid")
           a == Read("address")
           three == <<Read("i32"), Read("i32"), Read("u32")>>
           two == <<Sequence, Bindings>>
           oid == OidReadAs(enterprise)
           b1 == Tlv(OBJECT_ID, OidBytes(enterprise))
           b2 == Tlv(ApplicationTag.IpAddress, address)
           b3 == Integer(n1) \o Integer(n2) \o Integer(n3)
           b4 == BindingsBytes(varbinds)
           out == BindingsReadAs(varbinds)
           n == <<n1, n2, n3>>
<1>1. Consuming(<<d>>, b1, <<oid>>, <<>>) /\ Consuming(<<a>>, b2, <<address>>, <<>>)
  BY ConsumingOne
<1>2. Consuming(three, b3, n, <<>>)
  BY NumbersAre, NumbersRead
<1>3. Concluding(two, b4, out)
  BY ConcludingBindings
<1>4. TrapV1List = (<<d, a>> \o three) \o two
  BY TrapV1ListIs
<1>5. TrapV1Content(enterprise, address, n1, n2, n3, varbinds) = ((b1 \o b2) \o b3) \o b4
  BY DEF TrapV1Content
<1> HIDE DEF d, a, three, two, oid, b1, b2, b3, b4, out, n
<1>6. <<d, a>> = <<d>> \o <<a>>
  BY LastOf2
<1>7. <<oid, address>> = <<oid>> \o <<address>>
  BY LastOf2
<1>8. Consuming(<<d, a>>, b1 \o b2, <<oid, address>>, <<>>)
  BY <1>1, <1>6, <1>7, ConsumingBoth
<1>9. Consuming(<<d, a>> \o three, (b1 \o b2) \o b3, <<oid, address>> \o n, <<>>)
  BY <1>2, <1>8, ConsumingBoth
<1>10. two \in Seq(Items)
  BY <1>3 DEF Concluding
<1>11. Concluding(two \o <<>>, b4, out)
  BY <1>3, <1>10, EmptyEnds
<1>12. Concluding(TrapV1List, ((b1 \o b2) \o b3) \o b4, (<<oid, address>> \o n) \o out)
  BY <1>4, <1>9, <1>10, <1>11, ConcludingBoth
<1> QED
  BY <1>5, <1>12 DEF oid, n, out

\* What has an encoding is read back as it was, and nothing else is.
LEMMA OidRepresented ==
    ASSUME NEW oid \in Oid
    PROVE  OidReadAs(oid) = oid <=> RepresentableOid(oid)
<1> DEFINE n == Len(oid)
           a == oid[1]
           b == oid[2]
           first == FirstByte(oid)
           read == [i \in 1..n |-> IF i = 1 THEN first \div 40
                                   ELSE IF i = 2 THEN first % 40 ELSE oid[i]]
<1>1. n \in Nat /\ (n = 0 <=> oid = <<>>) /\ oid \in [1..n -> Unsigned(U32Bytes)]
  BY DEF Oid
<1>2. CASE n < 2
  <2>1. OidReadAs(oid) = <<>>
    BY <1>2 DEF OidReadAs
  <2>2. RepresentableOid(oid) <=> oid = <<>>
    BY <1>1, <1>2 DEF RepresentableOid
  <2> QED
    BY <2>1, <2>2
<1>3. CASE n >= 2
  <2>1. a \in Nat /\ b \in Nat
    <3>1. 1 \in 1..n /\ 2 \in 1..n
      BY <1>1, <1>3
    <3> QED
      BY <1>1, <3>1 DEF Unsigned
  <2>2. OidReadAs(oid) = read
    BY <1>1, <1>3 DEF OidReadAs
  <2>3. read = oid <=> first \div 40 = a /\ first % 40 = b
    <3> DEFINE q == first \div 40
               r == first % 40
    <3> HIDE DEF q, r, first
    <3>1. \A i \in 1..n : read[i] = IF i = 1 THEN q ELSE IF i = 2 THEN r ELSE oid[i]
      BY DEF q, r
    <3>2. read = oid <=> \A i \in 1..n : read[i] = oid[i]
      <4>1. DOMAIN read = 1..n /\ read = [i \in 1..n |-> read[i]]
        OBVIOUS
      <4> HIDE DEF read, n
      <4> QED
        BY <1>1, <4>1
    <3>3. 1 \in 1..n /\ 2 \in 1..n
      BY <1>1, <1>3
    <3> HIDE DEF read, n
    <3> QED
      BY <3>1, <3>2, <3>3 DEF q, r
  <2>4. first = (a * 40 + b) % 256
    BY DEF FirstByte
  <2>5. RepresentableOid(oid) <=> b < 40 /\ a * 40 + b < 256
    BY <1>1, <1>3 DEF RepresentableOid
  <2> HIDE DEF first, read, n, a, b
  <2>6. first \div 40 = a /\ first % 40 = b <=> b < 40 /\ a * 40 + b < 256
    BY <2>1, <2>4
  <2> QED
    BY <2>2, <2>3, <2>5, <2>6
<1> QED
  BY <1>1, <1>2, <1>3

LEMMA ValueRepresented ==
    ASSUME NEW value \in Value
    PROVE  ValueReadAs(value) = value <=> RepresentableValue(value)
<1>1. CASE value.type \in DOMAIN MarkerTag
  <2>1. ValueReadAs(value).type = "Null"
    BY <1>1, Markers DEF ValueReadAs, ValueOf
  <2>2. value.type # "Null"
    BY <1>1, Markers
  <2>3. ~RepresentableValue(value)
    BY <1>1 DEF RepresentableValue
  <2> QED
    BY <2>1, <2>2, <2>3
<1>2. CASE value.type = "ObjectIdentifier"
  <2>1. value.of \in Oid /\ value = [type |-> "ObjectIdentifier", of |-> value.of]
    BY <1>2 DEF Value
  <2>2. value.type \notin DOMAIN MarkerTag
    BY <1>2, Markers
  <2>3. ValueReadAs(value) = [type |-> "ObjectIdentifier", of |-> OidReadAs(value.of)]
    BY <1>2, <2>2 DEF ValueReadAs, ValueOf
  <2>4. RepresentableValue(value) <=> RepresentableOid(value.of)
    BY <1>2, <2>2 DEF RepresentableValue
  <2>5. ValueReadAs(value) = value <=> OidReadAs(value.of) = value.of
    <3> DEFINE x == value.of
               y == OidReadAs(value.of)
    <3>1. value = [type |-> "ObjectIdentifier", of |-> x]
          /\ ValueReadAs(value) = [type |-> "ObjectIdentifier", of |-> y]
      BY <2>1, <2>3
    <3> HIDE DEF x, y
    <3>2. [type |-> "ObjectIdentifier", of |-> x] = [type |-> "ObjectIdentifier", of |-> y]
             <=> x = y
      OBVIOUS
    <3> QED
      BY <3>1, <3>2 DEF x, y
  <2> QED
    BY <2>1, <2>4, <2>5, OidRepresented
<1>3. CASE value.type \notin DOMAIN MarkerTag /\ value.type # "ObjectIdentifier"
  <2>1. ValueReadAs(value) = value
    BY <1>3 DEF ValueReadAs
  <2>2. RepresentableValue(value)
    BY <1>3 DEF RepresentableValue
  <2> QED
    BY <2>1, <2>2
<1> QED
  BY <1>1, <1>2, <1>3

\* Bindings as they stand among the fields: an OID and a value each.
PairsIn(s, p, k) ==
    /\ s \in Seq(Field) /\ Len(s) = 2 * k
    /\ \A i \in 1..k : s[2 * i - 1] = p[i][1] /\ s[2 * i] = p[i][2]

LEMMA PairAdded ==
    ASSUME NEW p, NEW n \in Nat, NEW k \in Nat, NEW s, PairsIn(s, p, k),
           NEW q \in Seq(Field), Len(q) = 2, q = p[k + 1]
    PROVE  PairsIn(s \o q, p, k + 1)
<1> DEFINE t == s \o q
<1>1. /\ s \in Seq(Field) /\ Len(s) = 2 * k
      /\ \A i \in 1..k : s[2 * i - 1] = p[i][1] /\ s[2 * i] = p[i][2]
  BY DEF PairsIn
<1>2. /\ t \in Seq(Field) /\ Len(t) = Len(s) + Len(q)
      /\ \A j \in 1..Len(s) : t[j] = s[j]
      /\ \A j \in 1..Len(q) : t[Len(s) + j] = q[j]
  <2>1. s \in Seq(Field)
    BY <1>1
  <2> QED
    BY <2>1, Joined, SMTT(60)
<1> HIDE DEF t
<1>3. Len(t) = 2 * (k + 1)
  <2>1. Len(t) = 2 * k + 2
    BY <1>1, <1>2
  <2> QED
    BY <2>1
<1>4. ASSUME NEW i \in 1..(k + 1)
      PROVE  t[2 * i - 1] = p[i][1] /\ t[2 * i] = p[i][2]
  <2>1. CASE i \in 1..k
    <3>1. 2 * i - 1 \in 1..Len(s) /\ 2 * i \in 1..Len(s)
      BY <1>1, <2>1
    <3> QED
      BY <1>1, <1>2, <2>1, <3>1
  <2>2. CASE i = k + 1
    <3>1. 2 * i - 1 = Len(s) + 1 /\ 2 * i = Len(s) + 2
      BY <1>1, <2>2
    <3>2. t[Len(s) + 1] = q[1] /\ t[Len(s) + 2] = q[2]
      BY <1>2
    <3> QED
      BY <2>2, <3>1, <3>2
  <2> QED
    BY <2>1, <2>2
<1> QED
  BY <1>2, <1>3, <1>4 DEF PairsIn, t

LEMMA PairsFlattened ==
    ASSUME NEW p \in Seq(Seq(Field)), \A i \in 1..Len(p) : Len(p[i]) = 2
    PROVE  PairsIn(FlattenSeq(p), p, Len(p))
<1> DEFINE n == Len(p)
<1>1. n \in Nat /\ \A i \in 1..n : p[i] \in Seq(Field) /\ Len(p[i]) = 2
  OBVIOUS
<1>2. PICK f : Flattens(f, p, Field) /\ FlattenSeq(p) = f[n]
  BY FlattenIs
<1>3. f[0] = <<>> /\ \A i \in 1..n : f[i] = f[i - 1] \o p[i]
  BY <1>2 DEF Flattens
<1> HIDE DEF n
<1>4. PairsIn(f[0], p, 0)
  BY <1>3 DEF PairsIn
<1>5. ASSUME NEW k \in 1..n, PairsIn(f[k - 1], p, k - 1)
      PROVE  PairsIn(f[k], p, k)
  <2>1. k - 1 \in Nat /\ (k - 1) + 1 = k
    BY <1>1
  <2>2. f[k] = f[k - 1] \o p[k]
    BY <1>3
  <2>3. PairsIn(f[k - 1] \o p[k], p, (k - 1) + 1)
    BY <1>1, <1>5, <2>1, PairAdded
  <2> QED
    BY <2>1, <2>2, <2>3
<1> DEFINE T == {k \in 0..n : ~PairsIn(f[k], p, k)}
<1>6. ASSUME T # {} PROVE FALSE
  <2>1. PICK m \in T : \A i \in T : m <= i
    <3>1. T \subseteq Nat
      BY <1>1
    <3> HIDE DEF T
    <3> QED
      BY <1>6, <3>1, Least
  <2>2. m \in 0..n /\ ~PairsIn(f[m], p, m)
    BY <2>1
  <2>3. m # 0
    BY <1>4, <2>2
  <2>4. m \in 1..n /\ m - 1 \in 0..n /\ ~(m <= m - 1)
    BY <1>1, <2>2, <2>3
  <2>5. PairsIn(f[m - 1], p, m - 1)
    BY <2>1, <2>4
  <2> QED
    BY <1>5, <2>2, <2>4, <2>5
<1>7. n \in 0..n
  BY <1>1
<1>8. PairsIn(f[n], p, n)
  BY <1>6, <1>7
<1> QED
  BY <1>2, <1>8 DEF n

PairSent(vb) == <<vb.oid, vb.value>>

LEMMA PairsAre ==
    ASSUME NEW varbinds \in Seq(Binding)
    PROVE  LET sent == [i \in DOMAIN varbinds |-> PairSent(varbinds[i])]
               read == [i \in DOMAIN varbinds |-> PairReadAs(varbinds[i])]
           IN  /\ PairsIn(BindingFields(varbinds), sent, Len(varbinds))
               /\ PairsIn(BindingsReadAs(varbinds), read, Len(varbinds))
<1> DEFINE n == Len(varbinds)
           sent == [i \in DOMAIN varbinds |-> PairSent(varbinds[i])]
           read == [i \in DOMAIN varbinds |-> PairReadAs(varbinds[i])]
<1>1. DOMAIN varbinds = 1..n /\ n \in Nat /\ \A i \in 1..n : varbinds[i] \in Binding
  OBVIOUS
<1>2. ASSUME NEW vb \in Binding
      PROVE  /\ PairSent(vb) \in Seq(Field) /\ Len(PairSent(vb)) = 2
             /\ PairReadAs(vb) \in Seq(Field) /\ Len(PairReadAs(vb)) = 2
  <2>1. vb.oid \in Oid /\ vb.value \in Value
    BY DEF Binding
  <2>2. vb.oid \in Field /\ vb.value \in Field
    <3>1. vb.oid \in Seq(Nat)
      BY <2>1, FieldsAre
    <3> QED
      BY <2>1, <3>1, ValueFields DEF Field
  <2>3. PairReadAs(vb) \in Seq(Field)
    BY BindingRead
  <2> QED
    BY <2>2, <2>3 DEF PairSent, PairReadAs
<1>3. /\ sent \in Seq(Seq(Field)) /\ Len(sent) = n
      /\ \A i \in 1..n : sent[i] = PairSent(varbinds[i])
  BY <1>1, <1>2
<1>4. /\ read \in Seq(Seq(Field)) /\ Len(read) = n
      /\ \A i \in 1..n : read[i] = PairReadAs(varbinds[i])
  BY <1>1, <1>2
<1>5. /\ \A i \in 1..n : Len(sent[i]) = 2
      /\ \A i \in 1..n : Len(read[i]) = 2
  BY <1>1, <1>2, <1>3, <1>4
<1>6. BindingFields(varbinds) = FlattenSeq(sent)
  BY DEF BindingFields, PairSent
<1>7. BindingsReadAs(varbinds) = FlattenSeq(read)
  BY DEF BindingsReadAs
<1> HIDE DEF n, sent, read
<1>8. PairsIn(FlattenSeq(sent), sent, n)
  BY <1>3, <1>5, PairsFlattened
<1>9. PairsIn(FlattenSeq(read), read, n)
  BY <1>4, <1>5, PairsFlattened
<1> QED
  BY <1>6, <1>7, <1>8, <1>9 DEF n, sent, read

\* The bindings among the fields, by their places.
LEMMA FieldsAt ==
    ASSUME NEW varbinds \in Seq(Binding)
    PROVE  LET n == Len(varbinds)
               sent == BindingFields(varbinds)
               read == BindingsReadAs(varbinds)
           IN  /\ n \in Nat /\ sent \in Seq(Field) /\ Len(sent) = 2 * n
               /\ read \in Seq(Field) /\ Len(read) = 2 * n
               /\ \A i \in 1..n :
                     /\ sent[2 * i - 1] = varbinds[i].oid
                     /\ sent[2 * i] = varbinds[i].value
                     /\ read[2 * i - 1] = OidReadAs(varbinds[i].oid)
                     /\ read[2 * i] = ValueReadAs(varbinds[i].value)
<1> DEFINE n == Len(varbinds)
           sent == BindingFields(varbinds)
           read == BindingsReadAs(varbinds)
           s == [i \in DOMAIN varbinds |-> PairSent(varbinds[i])]
           r == [i \in DOMAIN varbinds |-> PairReadAs(varbinds[i])]
<1>1. PairsIn(sent, s, n) /\ PairsIn(read, r, n)
  BY PairsAre
<1>2. n \in Nat /\ DOMAIN varbinds = 1..n
  OBVIOUS
<1>3. /\ \A i \in 1..n : s[i] = PairSent(varbinds[i])
      /\ \A i \in 1..n : r[i] = PairReadAs(varbinds[i])
  BY <1>2
<1> HIDE DEF s, r, n, sent, read
<1>4. \A i \in 1..n : /\ s[i][1] = varbinds[i].oid /\ s[i][2] = varbinds[i].value
                      /\ r[i][1] = OidReadAs(varbinds[i].oid)
                      /\ r[i][2] = ValueReadAs(varbinds[i].value)
  BY <1>3 DEF PairSent, PairReadAs
<1>5. /\ sent \in Seq(Field) /\ Len(sent) = 2 * n
      /\ \A i \in 1..n : sent[2 * i - 1] = s[i][1] /\ sent[2 * i] = s[i][2]
  BY <1>1 DEF PairsIn
<1>6. /\ read \in Seq(Field) /\ Len(read) = 2 * n
      /\ \A i \in 1..n : read[2 * i - 1] = r[i][1] /\ read[2 * i] = r[i][2]
  BY <1>1 DEF PairsIn
<1> QED
  BY <1>2, <1>4, <1>5, <1>6 DEF n, sent, read

\* The parts of the bindings of a list.
LEMMA OfBindings ==
    ASSUME NEW vbs \in Seq(Binding)
    PROVE  /\ Len(vbs) \in Nat /\ DOMAIN vbs = 1..Len(vbs)
           /\ \A i \in 1..Len(vbs) : vbs[i].oid \in Oid /\ vbs[i].value \in Value
<1>1. Len(vbs) \in Nat /\ DOMAIN vbs = 1..Len(vbs)
  OBVIOUS
<1>2. ASSUME NEW i \in 1..Len(vbs) PROVE vbs[i].oid \in Oid /\ vbs[i].value \in Value
  <2>1. vbs[i] \in Binding
    OBVIOUS
  <2> QED
    BY <2>1 DEF Binding
<1> QED
  BY <1>1, <1>2

\* All is read as it was sent just when all of it has an encoding.
LEMMA ReadAsSent ==
    ASSUME NEW m, NEW header, Carries(m, header)
    PROVE  header \o BindingsReadAs(m.varbinds) = m.fields <=> Representable(m)
<1> DEFINE vbs == m.varbinds
           n == Len(vbs)
           sent == BindingFields(vbs)
           read == BindingsReadAs(vbs)
<1>1. /\ vbs \in Seq(Binding) /\ header \in Seq(Field)
      /\ m.fields = header \o sent /\ ~m.zeroRun
  BY DEF Carries
<1>2. n \in Nat /\ DOMAIN vbs = 1..n
      /\ \A i \in 1..n : vbs[i].oid \in Oid /\ vbs[i].value \in Value
  BY <1>1, OfBindings
<1>3. /\ sent \in Seq(Field) /\ Len(sent) = 2 * n
      /\ read \in Seq(Field) /\ Len(read) = 2 * n
      /\ \A i \in 1..n :
            /\ sent[2 * i - 1] = vbs[i].oid /\ sent[2 * i] = vbs[i].value
            /\ read[2 * i - 1] = OidReadAs(vbs[i].oid)
            /\ read[2 * i] = ValueReadAs(vbs[i].value)
  BY <1>1, FieldsAt
<1>4. Representable(m) <=>
        \A i \in 1..n : RepresentableOid(vbs[i].oid) /\ RepresentableValue(vbs[i].value)
  BY <1>1, <1>2 DEF Representable
<1> HIDE DEF vbs, n, sent, read
<1>5. header \o read = header \o sent <=> read = sent
  <2>1. ASSUME header \o read = header \o sent PROVE read = sent
    <3> DEFINE p == header \o read
               q == header \o sent
               h == Len(header)
    <3>1. read \in Seq(Field) /\ sent \in Seq(Field) /\ Len(read) = Len(sent)
      BY <1>3
    <3>2. \A k \in 1..Len(read) : p[h + k] = read[k]
      BY <1>1, <3>1, Joined
    <3>3. \A k \in 1..Len(sent) : q[h + k] = sent[k]
      BY <1>1, <3>1, Joined
    <3>4. p = q
      BY <2>1
    <3> HIDE DEF p, q, h
    <3>5. \A k \in 1..Len(read) : read[k] = sent[k]
      BY <3>1, <3>2, <3>3, <3>4
    <3> QED
      BY <3>1, <3>5
  <2> QED
    BY <2>1
<1>6. read = sent <=> \A i \in 1..n : /\ OidReadAs(vbs[i].oid) = vbs[i].oid
                                      /\ ValueReadAs(vbs[i].value) = vbs[i].value
  <2>1. ASSUME read = sent, NEW i \in 1..n
        PROVE  /\ OidReadAs(vbs[i].oid) = vbs[i].oid
               /\ ValueReadAs(vbs[i].value) = vbs[i].value
    BY <1>3, <2>1
  <2>2. ASSUME \A i \in 1..n : /\ OidReadAs(vbs[i].oid) = vbs[i].oid
                               /\ ValueReadAs(vbs[i].value) = vbs[i].value
        PROVE  read = sent
    <3>1. ASSUME NEW j \in 1..(2 * n) PROVE read[j] = sent[j]
      <4>1. \E i \in 1..n : j = 2 * i - 1 \/ j = 2 * i
        <5>1. CASE j % 2 = 0
          <6>1. j \div 2 \in 1..n /\ j = 2 * (j \div 2)
            BY <1>2, <5>1
          <6> QED
            BY <6>1
        <5>2. CASE j % 2 # 0
          <6>1. (j + 1) \div 2 \in 1..n /\ j = 2 * ((j + 1) \div 2) - 1
            BY <1>2, <5>2
          <6> QED
            BY <6>1
        <5> QED
          BY <5>1, <5>2
      <4>2. PICK i \in 1..n : j = 2 * i - 1 \/ j = 2 * i
        BY <4>1
      <4> QED
        BY <1>3, <2>2, <4>2
    <3>2. read \in Seq(Field) /\ sent \in Seq(Field) /\ Len(read) = 2 * n /\ Len(sent) = 2 * n
      BY <1>3
    <3> QED
      BY <3>1, <3>2
  <2> QED
    BY <2>1, <2>2
<1>7. \A i \in 1..n : /\ OidReadAs(vbs[i].oid) = vbs[i].oid <=> RepresentableOid(vbs[i].oid)
                      /\ ValueReadAs(vbs[i].value) = vbs[i].value
                            <=> RepresentableValue(vbs[i].value)
  BY <1>2, OidRepresented, ValueRepresented
<1>8. header \o read = m.fields <=> Representable(m)
  <2>1. header \o read = m.fields <=> read = sent
    BY <1>1, <1>5
  <2> HIDE DEF Representable
  <2> QED
    BY <1>4, <1>6, <1>7, <2>1
<1> QED
  BY <1>8 DEF read, vbs

LEMMA AccessorIs ==
    ASSUME NEW value \in Value, value.type \in Numbers
    PROVE  /\ ValueReadAs(value) = value
           /\ AsI64(value) = value.of <=>
                (value.type = "Counter64" => 2 * value.of < 256^U64Bytes)
<1> DEFINE v == value.of
           w == 256^U64Bytes
<1>1. value.type \in {"Integer", "Counter32", "Gauge32", "TimeTicks", "Counter64"}
  BY DEF Numbers
<1>2. ValueReadAs(value) = value
  BY <1>1, Markers DEF ValueReadAs
<1>3. U64Bytes \in 1..U64Bytes /\ w \in Nat \ {0}
  BY WidthsNest, PowersOf256, WidthAssumption
<1>4. CASE value.type = "Integer"
  BY <1>2, <1>4 DEF AsI64
<1>5. CASE value.type \in {"Counter32", "Gauge32", "TimeTicks"}
  <2>1. v \in Unsigned(U32Bytes)
    BY <1>5 DEF Value
  <2>2. v \in Signed(U64Bytes)
    BY <2>1, WidthsNest
  <2>3. AsSigned(v, U64Bytes) = v
    BY <1>3, <2>2, AsSignedIs
  <2> QED
    BY <1>2, <1>5, <2>3 DEF AsI64
<1>6. CASE value.type = "Counter64"
  <2>1. v \in Unsigned(U64Bytes)
    BY <1>6 DEF Value
  <2>2. v \in Nat /\ v < w
    BY <2>1 DEF Unsigned
  <2>3. AsI64(value) = AsSigned(v, U64Bytes)
    BY <1>6 DEF AsI64
  <2>4. ASSUME 2 * v < w PROVE AsSigned(v, U64Bytes) = v
    <3>1. v \in Signed(U64Bytes)
      <4> HIDE DEF v
      <4>1. v \in Int /\ -w <= 2 * v
        <5> HIDE DEF w
        <5> QED
          BY <1>3, <2>2
      <4> QED
        BY <2>4, <4>1 DEF Signed
    <3> QED
      BY <1>3, <3>1, AsSignedIs
  <2>5. ASSUME ~(2 * v < w) PROVE AsSigned(v, U64Bytes) # v
    <3> DEFINE low == v % w
    <3>1. low = v
      <4> HIDE DEF w
      <4>1. v \in Int /\ 0 <= v /\ v < w /\ w \in Nat \ {0}
        BY <1>3, <2>2
      <4> HIDE DEF v
      <4> QED
        BY <4>1, Within
    <3>2. AsSigned(v, U64Bytes) = IF 2 * low >= w THEN low - w ELSE low
      BY DEF AsSigned
    <3> HIDE DEF low, w, v
    <3> QED
      BY <1>3, <2>2, <2>5, <3>1, <3>2
  <2> HIDE DEF w
  <2>6. AsI64(value) = v <=> 2 * v < w
    BY <2>3, <2>4, <2>5
  <2> QED
    BY <1>2, <1>6, <2>6 DEF w
<1> QED
  BY <1>1, <1>4, <1>5, <1>6

\* as_i64 of what was read of a binding's value.
LEMMA AccessorsRead ==
    ASSUME NEW m, NEW header, Carries(m, header), NEW i \in DOMAIN m.varbinds,
           m.varbinds[i].value.type \in Numbers
    PROVE  LET read == header \o BindingsReadAs(m.varbinds)
               value == m.varbinds[i].value
           IN  AsI64(read[Len(read) - 2 * (Len(m.varbinds) - i)]) = value.of
                  <=> (value.type = "Counter64" => 2 * value.of < 256^U64Bytes)
<1> DEFINE vbs == m.varbinds
           n == Len(vbs)
           bs == BindingsReadAs(vbs)
           read == header \o bs
           value == vbs[i].value
           h == Len(header)
<1>1. vbs \in Seq(Binding) /\ header \in Seq(Field)
  BY DEF Carries
<1>2. n \in Nat /\ i \in 1..n /\ value \in Value /\ h \in Nat
  BY <1>1, OfBindings
<1>3. bs \in Seq(Field) /\ Len(bs) = 2 * n /\ bs[2 * i] = ValueReadAs(value)
  BY <1>1, <1>2, FieldsAt
<1>4. /\ Len(read) = h + Len(bs)
      /\ \A k \in 1..Len(bs) : read[h + k] = bs[k]
  <2>1. header \in Seq(Field) /\ bs \in Seq(Field)
    BY <1>1, <1>3
  <2> HIDE DEF bs
  <2> QED
    BY <2>1, Joined
<1> HIDE DEF n, bs, read, h
<1>5. Len(read) - 2 * (n - i) = h + 2 * i /\ 2 * i \in 1..Len(bs)
  BY <1>2, <1>3, <1>4
<1>6. read[Len(read) - 2 * (n - i)] = ValueReadAs(value)
  BY <1>3, <1>4, <1>5
<1>7. /\ ValueReadAs(value) = value
      /\ AsI64(value) = value.of <=>
            (value.type = "Counter64" => 2 * value.of < 256^U64Bytes)
  BY <1>2, AccessorIs
<1> HIDE DEF value
<1> QED
  BY <1>6, <1>7 DEF n, bs, read, value

LEMMA TrapV1Carries ==
    ASSUME NEW community \in Seq(Byte), NEW enterprise \in Oid,
           RepresentableOid(enterprise),
           NEW address \in Seq(Byte), address = <<>> \/ Len(address) = 4,
           NEW n1 \in Signed(U32Bytes), NEW n2 \in Signed(U32Bytes),
           NEW n3 \in Unsigned(U32Bytes), NEW varbinds \in Seq(Binding)
    PROVE  \E header :
              Carries(TrapV1(community, enterprise, address, <<n1, n2, n3>>, varbinds),
                      header)
<1> DEFINE out == BindingsReadAs(varbinds)
           content == TrapV1Content(enterprise, address, n1, n2, n3, varbinds)
           numbers == <<n1, n2, n3>>
           bytes == EncodeMessage(0, community,
                                  EncodeTrapV1(enterprise, address, numbers, varbinds))
           header == <<0, community, enterprise, address>> \o numbers
           h == <<enterprise, address>> \o numbers
<1>1. Concluding(TrapV1List, content, h \o out)
  BY OidRepresented, TrapV1ContentRead
<1>2. PICK next : /\ Reads["trap"] = <<Sequence, Version(next)>>
                  /\ Version(next) \in Items
                  /\ DOMAIN next = {0, 1, 3}
                  /\ next[0] = TrapV1Reads /\ next[1] = TrapV2cReads
                  /\ next[3] = TrapV3Reads
  BY VersionsAre
<1>3. 0 \in DOMAIN next /\ next[0] = <<Read("octets"), Enter({TRAP_V1})>> \o TrapV1List
  BY <1>2, TrapV1ListIs
<1>4. /\ 0 \in Field /\ community \in Field /\ enterprise \in Field /\ address \in Field
      /\ n1 \in Field /\ n2 \in Field /\ n3 \in Field
  <2>1. n1 \in Int /\ n2 \in Int /\ n3 \in Int
    BY DEF Signed, Unsigned
  <2>2. enterprise \in Field
    BY FieldsAre DEF Field
  <2> QED
    BY <2>1, <2>2, FieldsAre
<1>5. /\ <<0>> \in Seq(Field) /\ <<community>> \in Seq(Field)
      /\ <<enterprise, address>> \in Seq(Field) /\ numbers \in Seq(Field)
      /\ <<0, community, enterprise, address>> \in Seq(Field) /\ out \in Seq(Field)
  <2>1. <<0>> \in Seq(Field) /\ <<community>> \in Seq(Field)
    BY <1>4
  <2>2. <<enterprise, address>> \in Seq(Field)
    BY <1>4
  <2>3. numbers \in Seq(Field)
    BY <1>4
  <2>4. <<0, community, enterprise, address>> \in Seq(Field)
    BY <1>4
  <2>5. out \in Seq(Field)
    BY BindingsRead
  <2> QED
    BY <2>1, <2>2, <2>3, <2>4, <2>5
<1>6. header = <<0>> \o (<<community>> \o h)
  <2> DEFINE a == <<0>>
             b == <<community>>
             c == <<enterprise, address>>
  <2>1. <<0, community, enterprise, address>> = a \o <<community, enterprise, address>>
    BY FirstOf4
  <2>2. <<community, enterprise, address>> = b \o c
    BY FirstOf3
  <2>3. a \in Seq(Field) /\ b \in Seq(Field) /\ c \in Seq(Field) /\ numbers \in Seq(Field)
    BY <1>5
  <2> HIDE DEF a, b, c, numbers
  <2>4. (a \o (b \o c)) \o numbers = a \o (b \o (c \o numbers))
    <3>1. (b \o c) \o numbers = b \o (c \o numbers) /\ b \o c \in Seq(Field)
      BY <2>3, SMTT(60)
    <3> DEFINE d == b \o c
    <3>2. d \in Seq(Field)
      BY <2>3
    <3> HIDE DEF d
    <3>3. (a \o d) \o numbers = a \o (d \o numbers)
      BY <2>3, <3>2, SMTT(60)
    <3> QED
      BY <3>1, <3>3 DEF d
  <2> QED
    BY <2>1, <2>2, <2>4 DEF a, b, c
<1>7. bytes = EncodeMessage(0, community, Tlv(TRAP_V1, content))
  BY EncodeTrapV1Is
<1>8. "trap" \in DOMAIN Reads /\ TRAP_V1 \in Byte
  BY VersionsAre, TagsAre
<1>9. h \in Seq(Field) /\ header \in Seq(Field)
  <2> HIDE DEF numbers
  <2> QED
    BY <1>5
<1> HIDE DEF bytes, header, content, out, h, numbers
<1>10. Concluding(Reads["trap"], bytes, header \o out)
  BY <1>1, <1>2, <1>3, <1>5, <1>6, <1>7, <1>8, <1>9, VersionedRead
<1>11. Carries(Message("trap", bytes, header, varbinds), header)
  BY <1>8, <1>9, <1>10, MessageCarries DEF out
<1> QED
  BY <1>11 DEF TrapV1, bytes, header, numbers

-----------------------------------------------------------------------------
\* The messages of the third version.

LEMMA OneItem ==
    ASSUME NEW item \in Items
    PROVE  <<item>> \in Seq(Items)
OBVIOUS

LEMMA UsmIsItem == Read("usm") \in Items
<1> DEFINE u == Read("usm")
<1> HIDE DEF u
<1>1. u \in Flagged
  BY DEF Flagged, u
<1> QED
  BY <1>1 DEF Items, u

\* The header of the message, whatever reads the flags.
LEMMA HeaderRead ==
    ASSUME NEW item \in Items, NEW flags \in Byte, NEW c,
           Consuming(<<item>>, OctetString(<<flags>>), << <<flags>> >>, c),
           NEW id \in Signed(U32Bytes), NEW size \in Signed(U32Bytes),
           NEW model \in Signed(U32Bytes)
    PROVE  Consuming(HeaderReads(item),
                     Tlv(SEQUENCE, Integer(id) \o Integer(size) \o
                                   OctetString(<<flags>>) \o Integer(model)),
                     <<id, size, <<flags>>, model>>, c)
<1> DEFINE i == Read("i32")
           s == Sequence
           l == Leave
           f == <<flags>>
           b == OctetString(f)
           inner == <<i, i, item, i>>
<1>1. /\ Consuming(<<i>>, Integer(id), <<id>>, <<>>)
      /\ Consuming(<<i>>, Integer(size), <<size>>, <<>>)
      /\ Consuming(<<i>>, Integer(model), <<model>>, <<>>)
      /\ Consuming(<<item>>, b, <<f>>, c)
  BY ConsumingOne
<1>2. HeaderReads(item) = <<s, i, i, item, i, l>> /\ s = Enter({SEQUENCE}) /\ l = Leave
  BY DEF HeaderReads, Sequence
<1> HIDE DEF i, s, l, f, b
<1>3. <<i, i>> = <<i>> \o <<i>>
  BY LastOf2
<1>4. <<i, i, item>> = <<i, i>> \o <<item>>
  BY LastOf3
<1>5. <<i, i, item, i>> = <<i, i, item>> \o <<i>>
  BY LastOf4
<1>6. <<id, size>> = <<id>> \o <<size>>
  BY LastOf2
<1>7. <<id, size, f>> = <<id, size>> \o <<f>>
  BY LastOf3
<1>8. <<id, size, f, model>> = <<id, size, f>> \o <<model>>
  BY LastOf4
<1>9. Consuming(<<i, i>>, Integer(id) \o Integer(size), <<id, size>>, <<>>)
  BY <1>1, <1>3, <1>6, ConsumingBoth
<1>10. Consuming(<<i, i, item>>, Integer(id) \o Integer(size) \o b, <<id, size, f>>, c)
  BY <1>1, <1>4, <1>7, <1>9, ConsumingBoth
<1>11. Consuming(inner, Integer(id) \o Integer(size) \o b \o Integer(model),
                 <<id, size, f, model>>, c)
  <2>1. Consuming(inner, Integer(id) \o Integer(size) \o b \o Integer(model),
                  <<id, size, f, model>>, IF c = <<>> THEN <<>> ELSE c)
    BY <1>1, <1>5, <1>8, <1>10, ConsumingBoth
  <2>2. (IF c = <<>> THEN <<>> ELSE c) = c
    OBVIOUS
  <2> QED
    BY <2>1, <2>2
<1>12. <<s, i, i, item, i, l>> = <<s>> \o inner \o <<l>>
  <2>1. <<s, i, i, item, i, l>> = <<s, i, i, item, i>> \o <<l>>
    BY LastOf6
  <2>2. <<s, i, i, item, i>> = <<s>> \o inner
    BY FirstOf5
  <2> QED
    BY <2>1, <2>2
<1> HIDE DEF inner
<1>13. Consuming(<<s>> \o inner \o <<l>>,
                 Tlv(SEQUENCE, Integer(id) \o Integer(size) \o b \o Integer(model)),
                 <<id, size, f, model>>, c)
  BY <1>2, <1>11, TagsAre, ConsumingEnclosed
<1> QED
  BY <1>2, <1>12, <1>13 DEF b, f

\* The octet string of the USM parameters holds a message of its own.
LEMMA UsmConsumes ==
    ASSUME NEW content \in Seq(Byte), content # <<>>,
           NEW reads \in Seq(Items), UsmReads = reads \o <<Leave>>,
           NEW out \in Seq(Field), Consumes(reads, content, out, <<>>)
    PROVE  Consumes(<<Read("usm")>>, OctetString(content), out, <<>>)
<1> DEFINE whole == OctetString(content)
<1>1. whole = Tlv(OCTET_STRING, content) /\ OCTET_STRING \in Byte
  BY TagsAre DEF OctetString
<1>2. Leave \in Items /\ Leave.op = "leave"
  BY SimpleReads, SimpleIs DEF Leave
<1>3. \A next \in Seq(Items) :
        /\ next \o <<>> = next
        /\ <<Leave>> \o next \in Seq(Items)
        /\ (<<Leave>> \o next) \o <<>> = <<Leave>> \o next
        /\ UsmReads \o next = reads \o (<<Leave>> \o next)
        /\ Head(<<Read("usm")>> \o next) = Read("usm")
        /\ Tail(<<Read("usm")>> \o next) = next /\ <<Read("usm")>> \o next # <<>>
        /\ Head(<<Leave>> \o next) = Leave
        /\ Tail(<<Leave>> \o next) = next /\ <<Leave>> \o next # <<>>
  <2> TAKE next \in Seq(Items)
  <2>1. <<Leave>> \in Seq(Items)
    BY <1>2
  <2>2. <<Leave>> \o next \in Seq(Items)
    BY <2>1
  <2>3. (reads \o <<Leave>>) \o next = reads \o (<<Leave>> \o next)
    <3> DEFINE l == <<Leave>>
    <3> HIDE DEF l
    <3>1. reads \o (l \o next) = (reads \o l) \o next
      BY <2>1, Regrouped DEF l
    <3> QED
      BY <3>1 DEF l
  <2> QED
    BY <2>2, <2>3, EmptyEnds, Pushed
<1>4. /\ Read("usm").op = "read" /\ Read("usm").as = "usm"
  BY DEF Read
<1>5. Acceptable("usm", OCTET_STRING, content)
  BY DEF Acceptable
<1> SUFFICES ASSUME NEW data \in Seq(Byte), NEW pos \in Nat, NEW rest \in Seq(Slices),
                    NEW next \in Seq(Items), NEW done \in Seq(Field), NEW all,
                    2 * Len(data) < 256^U64Bytes, Len(whole) \in Sizes,
                    At(data, pos, whole),
                    Runs(Config(Stack(data, pos + Len(whole), rest),
                                next \o <<>>, done \o out), all)
             PROVE  Runs(Config(Stack(data, pos, rest),
                                <<Read("usm")>> \o next, done), all)
  BY ZenonT(60) DEF Consumes
<1> DEFINE end == pos + Len(whole)
           outer == Stack(data, end, rest)
           last == Stack(content, 0 + Len(content), outer)
           tlv == TlvAs(OCTET_STRING, content, end)
<1>6. /\ Len(content) \in Sizes /\ 2 * Len(content) < 256^U64Bytes
      /\ Reader(data, end) \in Slices /\ ReadTlv(data, pos) = tlv
  BY <1>1, TlvInFront
<1>7. outer \in Seq(Slices)
  BY <1>6, ReaderMoves
<1>8. At(content, 0, content) /\ 0 \in Nat
  BY AtAll
<1>9. Runs(Config(last, (<<Leave>> \o next) \o <<>>, done \o out), all)
  <2> DEFINE c == Config(last, <<Leave>> \o next, done \o out)
             d == Config(outer, next, done \o out)
  <2>1. Runs(d, all)
    BY <1>3
  <2> HIDE DEF outer
  <2>2. Tail(last) = outer
    BY <1>7, ReaderMoves
  <2>3. /\ c.todo # <<>> /\ Head(c.todo) = Leave /\ Tail(c.todo) = next
        /\ c.fields = done \o out /\ Tail(c.frames) = outer
    BY <1>3, <2>2 DEF Config
  <2> HIDE DEF c
  <2>4. Leaves(c, d)
    BY <1>2, <2>3 DEF Leaves
  <2>5. Moves(c, d)
    BY <2>3, <2>4 DEF Moves
  <2> HIDE DEF d
  <2>6. Runs(c, all)
    BY <2>1, <2>5, RunsFrom
  <2> QED
    BY <1>3, <2>6 DEF c
<1>10. Runs(Config(Stack(content, 0, outer), reads \o (<<Leave>> \o next), done), all)
  <2> HIDE DEF outer
  <2> QED
    BY <1>3, <1>6, <1>7, <1>8, <1>9, ZenonT(60) DEF Consumes
<1> DEFINE c == Config(Stack(data, pos, rest), <<Read("usm")>> \o next, done)
           d == Config(Stack(content, 0, outer), UsmReads \o next, done)
<1>11. Runs(d, all)
  BY <1>3, <1>10
<1> HIDE DEF end
<1>12. /\ c.todo # <<>> /\ Head(c.todo) = Read("usm") /\ Tail(c.todo) = next
       /\ c.fields = done /\ c.frames = Stack(data, pos, rest)
  BY <1>3 DEF Config
<1>13. /\ tlv.status = "ok" /\ tlv.tag = OCTET_STRING /\ tlv.value = content
       /\ tlv.pos = end
  BY TlvAsIs
<1>14. Frame(content) = Reader(content, 0)
  BY DEF Frame, Reader
<1> HIDE DEF c, tlv
<1>15. /\ Head(c.frames).data = data /\ Head(c.frames).pos = pos
       /\ AdvancedOn(c.frames, end) = outer
  <2>1. /\ Head(Stack(data, pos, rest)).data = data
        /\ Head(Stack(data, pos, rest)).pos = pos
        /\ AdvancedOn(Stack(data, pos, rest), end) = Stack(data, end, rest)
    BY ReaderMoves
  <2> QED
    BY <1>12, <2>1, Zenon
<1>16. NextTlv(c) = tlv
  BY <1>6, <1>15 DEF NextTlv
<1> HIDE DEF outer
<1>17. GetsUsm(c, d)
  BY <1>4, <1>5, <1>12, <1>13, <1>14, <1>15, <1>16 DEF GetsUsm, Takes, Stack
<1>18. Moves(c, d)
  BY <1>12, <1>17 DEF Moves
<1> HIDE DEF d
<1> QED
  BY <1>11, <1>18, RunsFrom DEF c

\* An empty one stands for no parameters.
LEMMA NoUsmConsumes ==
    Consumes(<<Read("usm")>>, OctetString(<<>>), << <<>>, 0, 0, <<>>, <<>>, <<>> >>, <<>>)
<1> DEFINE content == <<>>
           out == << <<>>, 0, 0, <<>>, <<>>, <<>> >>
           whole == OctetString(content)
<1>1. /\ whole = Tlv(OCTET_STRING, content) /\ OCTET_STRING \in Byte
      /\ content \in Seq(Byte) /\ content = <<>>
  BY TagsAre DEF OctetString
<1>2. \A next \in Seq(Items) :
        /\ next \o <<>> = next
        /\ Head(<<Read("usm")>> \o next) = Read("usm")
        /\ Tail(<<Read("usm")>> \o next) = next /\ <<Read("usm")>> \o next # <<>>
  BY EmptyEnds, Pushed
<1>3. Read("usm").op = "read" /\ Read("usm").as = "usm"
  BY DEF Read
<1>4. Acceptable("usm", OCTET_STRING, content)
  BY DEF Acceptable
<1> HIDE DEF content
<1> SUFFICES ASSUME NEW data \in Seq(Byte), NEW pos \in Nat, NEW rest \in Seq(Slices),
                    NEW next \in Seq(Items), NEW done \in Seq(Field), NEW all,
                    2 * Len(data) < 256^U64Bytes, Len(whole) \in Sizes,
                    At(data, pos, whole),
                    Runs(Config(Stack(data, pos + Len(whole), rest),
                                next \o <<>>, done \o out), all)
             PROVE  Runs(Config(Stack(data, pos, rest),
                                <<Read("usm")>> \o next, done), all)
  BY <1>1, ZenonT(60) DEF Consumes
<1> DEFINE end == pos + Len(whole)
           c == Config(Stack(data, pos, rest), <<Read("usm")>> \o next, done)
           d == Config(Stack(data, end, rest), next, done \o out)
           tlv == TlvAs(OCTET_STRING, content, end)
<1>5. ReadTlv(data, pos) = tlv
  <2>1. /\ OCTET_STRING \in Byte /\ content \in Seq(Byte)
        /\ whole = Tlv(OCTET_STRING, content)
    BY <1>1
  <2>2. /\ Len(Tlv(OCTET_STRING, content)) \in Sizes
        /\ At(data, pos, Tlv(OCTET_STRING, content))
        /\ end = pos + Len(Tlv(OCTET_STRING, content))
    BY <2>1
  <2> HIDE DEF whole, end, out
  <2> QED
    BY <2>1, <2>2, TlvInFront
<1>6. Runs(d, all)
  BY <1>2
<1> HIDE DEF end, whole
<1>7. /\ c.todo # <<>> /\ Head(c.todo) = Read("usm") /\ Tail(c.todo) = next
      /\ c.fields = done /\ c.frames = Stack(data, pos, rest)
  BY <1>2 DEF Config
<1>8. /\ tlv.status = "ok" /\ tlv.tag = OCTET_STRING /\ tlv.value = content
      /\ tlv.pos = end
  BY TlvAsIs
<1> HIDE DEF c, tlv
<1>9. /\ Head(c.frames).data = data /\ Head(c.frames).pos = pos
      /\ AdvancedOn(c.frames, end) = Stack(data, end, rest)
  <2>1. /\ Head(Stack(data, pos, rest)).data = data
        /\ Head(Stack(data, pos, rest)).pos = pos
        /\ AdvancedOn(Stack(data, pos, rest), end) = Stack(data, end, rest)
    BY ReaderMoves
  <2> QED
    BY <1>7, <2>1, Zenon
<1>10. NextTlv(c) = tlv
  BY <1>5, <1>9 DEF NextTlv
<1>11. GetsUsm(c, d)
  BY <1>1, <1>3, <1>4, <1>7, <1>8, <1>9, <1>10 DEF GetsUsm, Takes
<1>12. Moves(c, d)
  BY <1>7, <1>11 DEF Moves
<1> HIDE DEF d
<1> QED
  BY <1>6, <1>12, RunsFrom DEF c

UsmBytes(p) ==
    OctetString(p.engine) \o Integer(p.boots) \o Integer(p.time) \o
    OctetString(p.user) \o OctetString(p.auth) \o OctetString(p.priv)

\* The parameters in an octet string, as decode_usm_params reads them.
LEMMA UsmRead ==
    ASSUME NEW p \in Params
    PROVE  /\ Consuming(<<Read("usm")>>, OctetString(EncodeUsmParams(p)), UsmFields(p), <<>>)
           /\ EncodeUsmParams(p) \in Seq(Byte)
<1> DEFINE o == Read("octets")
           u == Read("u32")
           s == Sequence
           l == Leave
           f1 == p.engine
           f2 == p.boots
           f3 == p.time
           f4 == p.user
           f5 == p.auth
           f6 == p.priv
           inner == <<o, u, u, o, o, o>>
           eight == <<s>> \o inner \o <<l>>
           content == EncodeUsmParams(p)
<1>1. /\ f1 \in Seq(Byte) /\ f4 \in Seq(Byte) /\ f5 \in Seq(Byte) /\ f6 \in Seq(Byte)
      /\ f2 \in Unsigned(U32Bytes) /\ f3 \in Unsigned(U32Bytes)
  BY DEF Params
<1>2. /\ Consuming(<<o>>, OctetString(f1), <<f1>>, <<>>)
      /\ Consuming(<<u>>, Integer(f2), <<f2>>, <<>>)
      /\ Consuming(<<u>>, Integer(f3), <<f3>>, <<>>)
      /\ Consuming(<<o>>, OctetString(f4), <<f4>>, <<>>)
      /\ Consuming(<<o>>, OctetString(f5), <<f5>>, <<>>)
      /\ Consuming(<<o>>, OctetString(f6), <<f6>>, <<>>)
  BY <1>1, ConsumingOne
<1>3. /\ UsmReads = <<s, o, u, u, o, o, o, l, l>> /\ s = Enter({SEQUENCE}) /\ l = Leave
      /\ UsmFields(p) = <<f1, f2, f3, f4, f5, f6>>
      /\ content = Tlv(SEQUENCE, OctetString(f1) \o Integer(f2) \o Integer(f3) \o
                                 OctetString(f4) \o OctetString(f5) \o OctetString(f6))
  BY DEF UsmReads, Sequence, UsmFields, EncodeUsmParams
<1> HIDE DEF o, u, s, l, f1, f2, f3, f4, f5, f6, content
<1>4. Consuming(<<o, u>>, OctetString(f1) \o Integer(f2), <<f1, f2>>, <<>>)
  <2>1. <<o, u>> = <<o>> \o <<u>>
    BY LastOf2
  <2>2. <<f1, f2>> = <<f1>> \o <<f2>>
    BY LastOf2
  <2> QED
    BY <1>2, <2>1, <2>2, ConsumingBoth
<1>5. Consuming(<<o, u, u>>, OctetString(f1) \o Integer(f2) \o Integer(f3),
                <<f1, f2, f3>>, <<>>)
  <2>1. <<o, u, u>> = <<o, u>> \o <<u>>
    BY LastOf3
  <2>2. <<f1, f2, f3>> = <<f1, f2>> \o <<f3>>
    BY LastOf3
  <2> QED
    BY <1>2, <1>4, <2>1, <2>2, ConsumingBoth
<1>6. Consuming(<<o, u, u, o>>, OctetString(f1) \o Integer(f2) \o Integer(f3) \o OctetString(f4),
                <<f1, f2, f3, f4>>, <<>>)
  <2>1. <<o, u, u, o>> = <<o, u, u>> \o <<o>>
    BY LastOf4
  <2>2. <<f1, f2, f3, f4>> = <<f1, f2, f3>> \o <<f4>>
    BY LastOf4
  <2> QED
    BY <1>2, <1>5, <2>1, <2>2, ConsumingBoth
<1>7. Consuming(<<o, u, u, o, o>>,
                OctetString(f1) \o Integer(f2) \o Integer(f3) \o OctetString(f4) \o
                OctetString(f5), <<f1, f2, f3, f4, f5>>, <<>>)
  <2>1. <<o, u, u, o, o>> = <<o, u, u, o>> \o <<o>>
    BY LastOf5
  <2>2. <<f1, f2, f3, f4, f5>> = <<f1, f2, f3, f4>> \o <<f5>>
    BY LastOf5
  <2> QED
    BY <1>2, <1>6, <2>1, <2>2, ConsumingBoth
<1>8. Consuming(inner,
                OctetString(f1) \o Integer(f2) \o Integer(f3) \o OctetString(f4) \o
                OctetString(f5) \o OctetString(f6), <<f1, f2, f3, f4, f5, f6>>, <<>>)
  <2>1. inner = <<o, u, u, o, o>> \o <<o>>
    BY LastOf6
  <2>2. <<f1, f2, f3, f4, f5, f6>> = <<f1, f2, f3, f4, f5>> \o <<f6>>
    BY LastOf6
  <2> HIDE DEF inner
  <2> QED
    BY <1>2, <1>7, <2>1, <2>2, ConsumingBoth
<1>9. UsmReads = eight \o <<l>>
  <2>1. UsmReads = <<s, o, u, u, o, o, o, l>> \o <<l>>
    BY <1>3, LastOf9
  <2>2. <<s, o, u, u, o, o, o, l>> = <<s, o, u, u, o, o, o>> \o <<l>>
    BY LastOf8
  <2>3. <<s, o, u, u, o, o, o>> = <<s>> \o inner
    BY FirstOf7
  <2> QED
    BY <2>1, <2>2, <2>3
<1> HIDE DEF inner
<1>10. Consuming(eight, content, UsmFields(p), <<>>)
  BY <1>3, <1>8, TagsAre, ConsumingEnclosed
<1> HIDE DEF eight
<1>11. /\ eight \in Seq(Items) /\ content \in Seq(Byte) /\ UsmFields(p) \in Seq(Field)
       /\ Consumes(eight, content, UsmFields(p), <<>>)
  BY <1>10, Zenon DEF Consuming
<1>12. content # <<>>
  <2> DEFINE six == OctetString(f1) \o Integer(f2) \o Integer(f3) \o
                    OctetString(f4) \o OctetString(f5) \o OctetString(f6)
  <2>1. six \in Seq(Byte)
    BY <1>8 DEF Consuming
  <2>2. content = Tlv(SEQUENCE, six)
    BY <1>3
  <2> HIDE DEF six
  <2>3. Len(content) > 0
    BY <2>1, <2>2, TagsAre, TlvBytes
  <2> QED
    BY <2>3
<1>13. Consumes(<<Read("usm")>>, OctetString(content), UsmFields(p), <<>>)
  BY <1>9, <1>11, <1>12, UsmConsumes DEF l
<1>14. <<Read("usm")>> \in Seq(Items)
  BY UsmIsItem, OneItem
<1>15. OctetString(content) \in Seq(Byte)
  BY <1>11, TagsAre, TlvBytes DEF OctetString
<1>16. <<>> \in Seq(Items)
  OBVIOUS
<1>17. Consuming(<<Read("usm")>>, OctetString(content), UsmFields(p), <<>>)
  BY <1>11, <1>13, <1>14, <1>15, <1>16, Zenon DEF Consuming
<1> QED
  BY <1>11, <1>17 DEF content

LEMMA NoUsmRead ==
    Consuming(<<Read("usm")>>, OctetString(<<>>), << <<>>, 0, 0, <<>>, <<>>, <<>> >>, <<>>)
<1>1. <<Read("usm")>> \in Seq(Items)
  BY UsmIsItem, OneItem
<1>2. OctetString(<<>>) \in Seq(Byte)
  <2>1. <<>> \in Seq(Byte)
    OBVIOUS
  <2> QED
    BY <2>1, TagsAre, TlvBytes DEF OctetString
<1>3. << <<>>, 0, 0, <<>>, <<>>, <<>> >> \in Seq(Field)
  <2> DEFINE e == <<>>
  <2>1. e \in Seq(Byte) /\ 0 \in Int
    OBVIOUS
  <2>2. e \in Field /\ 0 \in Field
    <3> HIDE DEF e
    <3> QED
      BY <2>1, FieldsAre
  <2>3. e \in Field
    BY <2>2
  <2> HIDE DEF e
  <2>4. <<e, 0, 0, e, e, e>> \in Seq(Field)
    BY <2>2, <2>3
  <2> QED
    BY <2>4 DEF e
<1>4. <<>> \in Seq(Items)
  OBVIOUS
<1> QED
  BY <1>1, <1>2, <1>3, <1>4, NoUsmConsumes, Zenon DEF Consuming

\* The scoped PDU.
ScopedBytes(engine, context, tag, id, varbinds) ==
    EncodeScopedPdu(engine, context, EncodePdu(tag, id, 0, 0, varbinds))

LEMMA ScopedIs ==
    ASSUME NEW a \in Seq(Byte), NEW b \in Seq(Byte), NEW pdu \in Seq(Byte)
    PROVE  EncodeScopedPdu(a, b, pdu) =
              Tlv(SEQUENCE, OctetString(a) \o (OctetString(b) \o pdu))
<1> DEFINE x == OctetString(a)
           y == OctetString(b)
<1>1. x \in Seq(Byte) /\ y \in Seq(Byte)
  BY TagsAre, TlvBytes DEF OctetString
<1>2. EncodeScopedPdu(a, b, pdu) = Tlv(SEQUENCE, (x \o y) \o pdu)
  BY DEF EncodeScopedPdu
<1> HIDE DEF x, y
<1>3. x \o (y \o pdu) = (x \o y) \o pdu
  BY <1>1, Regrouped
<1> QED
  BY <1>2, <1>3 DEF x, y

LEMMA ScopedRead ==
    ASSUME NEW engine \in Seq(Byte), NEW context \in Seq(Byte), NEW tag \in Byte,
           NEW id \in Signed(U32Bytes), NEW varbinds \in Seq(Binding)
    PROVE  /\ Concluding(ScopedReads, ScopedBytes(engine, context, tag, id, varbinds),
                         <<engine, context, tag, id, 0, 0>> \o BindingsReadAs(varbinds))
           /\ <<engine, context, tag, id, 0, 0>> \in Seq(Field)
<1> DEFINE o == Read("octets")
           e == Enter(AnyTag)
           s == Sequence
           out == BindingsReadAs(varbinds)
           content == PduContent(id, 0, 0, varbinds)
           pdu == Tlv(tag, content)
           h1 == <<id, 0, 0>>
           h2 == <<tag, id, 0, 0>>
           h3 == <<context, tag, id, 0, 0>>
           h4 == <<engine, context, tag, id, 0, 0>>
<1>1. Concluding(PduReads, content, h1 \o out)
  BY SmallNumbers, PduRead
<1>2. /\ engine \in Field /\ context \in Field /\ tag \in Field /\ id \in Field
      /\ 0 \in Field
  <2>1. id \in Int /\ tag \in Int
    BY DEF Signed, Byte
  <2> QED
    BY <2>1, FieldsAre
<1>3. h1 \in Seq(Field) /\ h2 \in Seq(Field)
  BY <1>2
<1>4. h3 \in Seq(Field)
  BY <1>2
<1>5. h4 \in Seq(Field)
  BY <1>2
<1>6. out \in Seq(Field)
  BY BindingsRead
<1>7. h2 = <<tag>> \o h1
  BY FirstOf4
<1>8. h3 = <<context>> \o h2
  BY FirstOf5
<1>9. h4 = <<engine>> \o h3
  BY FirstOf6
<1>10. /\ Consuming(<<o>>, OctetString(engine), <<engine>>, <<>>)
       /\ Consuming(<<o>>, OctetString(context), <<context>>, <<>>)
  BY ConsumingOne
<1>11. /\ AnyTag \in SUBSET Byte /\ tag \in AnyTag /\ PduReads \in Seq(Items)
       /\ e \in Items /\ o \in Items /\ s = Enter({SEQUENCE})
  BY <1>1, TagsAre, SimpleReads, SimpleIs DEF Concluding, Sequence
<1>12. ScopedReads = <<s, o, o, e>> \o PduReads
  BY DEF ScopedReads
<1> HIDE DEF h1, h2, h3, h4, out, content, o, s, e
<1>13. Concluding(<<e>> \o PduReads, pdu, h2 \o out)
  <2>1. Concluding(<<e>> \o PduReads, pdu, <<tag>> \o (h1 \o out))
    BY <1>1, <1>11, ConcludingEnclosed DEF e
  <2>2. <<tag>> \o (h1 \o out) = (<<tag>> \o h1) \o out
    BY <1>2, <1>3, <1>6, HeaderReadsOn
  <2> QED
    BY <1>7, <2>1, <2>2
<1> DEFINE r1 == <<e>> \o PduReads
           r2 == <<o>> \o r1
           r3 == <<o>> \o r2
<1>14. r1 \in Seq(Items) /\ r2 \in Seq(Items) /\ r3 \in Seq(Items)
  <2>1. <<e>> \in Seq(Items) /\ <<o>> \in Seq(Items)
    BY <1>11
  <2>2. r1 \in Seq(Items)
    BY <1>11, <2>1
  <2> HIDE DEF r1
  <2>3. r2 \in Seq(Items)
    BY <2>1, <2>2
  <2> HIDE DEF r2
  <2>4. r3 \in Seq(Items)
    BY <2>1, <2>3
  <2> QED
    BY <2>2, <2>3, <2>4
<1>15. ScopedReads = <<s>> \o r3
  <2>1. <<s, o, o, e>> = <<s>> \o <<o, o, e>>
    BY FirstOf4
  <2>2. <<o, o, e>> = <<o>> \o <<o, e>>
    BY FirstOf3
  <2>3. <<o, e>> = <<o>> \o <<e>>
    BY LastOf2
  <2> DEFINE a == <<s>>
             b == <<o>>
             c == <<e>>
  <2>4. s \in Items
    BY <1>11, TagsAre, SimpleReads, SimpleIs DEF s
  <2>5. a \in Seq(Items) /\ b \in Seq(Items) /\ c \in Seq(Items) /\ PduReads \in Seq(Items)
    BY <1>11, <2>4
  <2>6. ScopedReads = (a \o (b \o (b \o c))) \o PduReads
    BY <1>12, <2>1, <2>2, <2>3
  <2> HIDE DEF a, b, c
  <2>7. b \o c \in Seq(Items) /\ b \o (b \o c) \in Seq(Items)
    BY <2>5, SMTT(60)
  <2>8. (b \o c) \o PduReads = b \o (c \o PduReads)
    BY <2>5, SMTT(60)
  <2> DEFINE d == b \o c
  <2>9. d \in Seq(Items)
    BY <2>7
  <2> HIDE DEF d
  <2>10. b \in Seq(Items) /\ PduReads \in Seq(Items)
    BY <2>5
  <2>11. b \o (d \o PduReads) = (b \o d) \o PduReads /\ b \o d \in Seq(Items)
    BY <2>10, <2>9, SMTT(60)
  <2> DEFINE f == b \o d
  <2>12. f \in Seq(Items)
    BY <2>11
  <2> HIDE DEF f
  <2>13. a \in Seq(Items)
    BY <2>5
  <2>14. a \o (f \o PduReads) = (a \o f) \o PduReads
    BY <2>10, <2>13, <2>12, SMTT(60)
  <2> QED
    BY <2>6, <2>8, <2>11, <2>14 DEF a, b, c, d, f
<1> HIDE DEF pdu
<1>16. Concluding(r2, OctetString(context) \o pdu, h3 \o out)
  <2>1. r1 \o <<>> = r1
    BY <1>14, EmptyEnds
  <2>2. Concluding(r1 \o <<>>, pdu, h2 \o out)
    BY <1>13, <2>1
  <2> HIDE DEF r1
  <2>3. Concluding(r2, OctetString(context) \o pdu, <<context>> \o (h2 \o out))
    BY <1>10, <1>14, <2>2, ConcludingBoth
  <2>4. <<context>> \o (h2 \o out) = (<<context>> \o h2) \o out
    BY <1>2, <1>3, <1>6, HeaderReadsOn
  <2> QED
    BY <1>8, <2>3, <2>4
<1>17. Concluding(r3, OctetString(engine) \o (OctetString(context) \o pdu), h4 \o out)
  <2> HIDE DEF r2
  <2>1. r2 \o <<>> = r2
    BY <1>14, EmptyEnds
  <2>2. Concluding(r2 \o <<>>, OctetString(context) \o pdu, h3 \o out)
    BY <1>16, <2>1
  <2>3. Concluding(r3, OctetString(engine) \o (OctetString(context) \o pdu),
                   <<engine>> \o (h3 \o out))
    BY <1>10, <1>14, <2>2, ConcludingBoth
  <2>4. <<engine>> \o (h3 \o out) = (<<engine>> \o h3) \o out
    BY <1>2, <1>4, <1>6, HeaderReadsOn
  <2> QED
    BY <1>9, <2>3, <2>4
<1> HIDE DEF r3
<1>18. {SEQUENCE} \in SUBSET Byte /\ SEQUENCE \in {SEQUENCE} /\ {SEQUENCE} # AnyTag
  <2>1. 0 \in AnyTag /\ 1 \in AnyTag
    BY DEF AnyTag
  <2> QED
    BY <2>1, TagsAre
<1>19. Concluding(ScopedReads,
                  Tlv(SEQUENCE, OctetString(engine) \o (OctetString(context) \o pdu)),
                  h4 \o out)
  BY <1>11, <1>15, <1>17, <1>18, ConcludingEnclosed
<1>20. ScopedBytes(engine, context, tag, id, varbinds) =
         Tlv(SEQUENCE, OctetString(engine) \o (OctetString(context) \o pdu))
  <2>1. pdu \in Seq(Byte)
    BY <1>13 DEF Concluding
  <2>2. ScopedBytes(engine, context, tag, id, varbinds) =
           EncodeScopedPdu(engine, context, pdu)
    BY EncodePduIs DEF ScopedBytes, pdu, content
  <2> QED
    BY <2>1, <2>2, ScopedIs
<1> QED
  BY <1>5, <1>19, <1>20 DEF h4, out

LEMMA ScopedCarries ==
    ASSUME NEW engine \in Seq(Byte), NEW context \in Seq(Byte), NEW tag \in Byte,
           NEW id \in Signed(U32Bytes), NEW varbinds \in Seq(Binding)
    PROVE  \E header : Carries(Scoped(engine, context, tag, id, varbinds), header)
<1> DEFINE header == <<engine, context, tag, id, 0, 0>>
           bytes == ScopedBytes(engine, context, tag, id, varbinds)
<1>1. "scoped" \in DOMAIN Reads /\ Reads["scoped"] = ScopedReads
  BY VersionsAre
<1>2. /\ Concluding(Reads["scoped"], bytes, header \o BindingsReadAs(varbinds))
      /\ header \in Seq(Field)
  BY <1>1, ScopedRead
<1>3. Scoped(engine, context, tag, id, varbinds) =
         Message("scoped", bytes, header, varbinds)
  BY DEF Scoped, ScopedBytes
<1> HIDE DEF header, bytes
<1>4. Carries(Message("scoped", bytes, header, varbinds), header)
  BY <1>1, <1>2, MessageCarries
<1> QED
  BY <1>3, <1>4

-----------------------------------------------------------------------------
\* What a message of the third version is, and how it is read.

V3Header(id, size, flags, model) ==
    Tlv(SEQUENCE, Integer(id) \o Integer(size) \o OctetString(<<flags>>) \o Integer(model))

LEMMA EncodeV3Is ==
    ASSUME NEW header \in Seq(Byte), NEW params \in Seq(Byte), NEW last \in Seq(Byte)
    PROVE  /\ Integer(3) \o header \o OctetString(params) \o last =
                 Integer(3) \o (header \o (OctetString(params) \o last))
           /\ OctetString(params) \o last \in Seq(Byte)
<1> DEFINE a == Integer(3)
           b == OctetString(params)
<1>1. a \in Seq(Byte) /\ b \in Seq(Byte)
  BY SmallNumbers, NumberTypes, TagsAre, TlvBytes DEF Integer, OctetString
<1> HIDE DEF a, b
<1>2. header \o (b \o last) = (header \o b) \o last /\ b \o last \in Seq(Byte)
      /\ header \o b \in Seq(Byte)
  BY <1>1, SMTT(60)
<1>3. a \o (header \o b) = (a \o header) \o b
  BY <1>1, SMTT(60)
<1> DEFINE c == header \o b
<1>4. c \in Seq(Byte)
  BY <1>2
<1> HIDE DEF c
<1>5. a \o (c \o last) = (a \o c) \o last
  BY <1>1, <1>4, SMTT(60)
<1> QED
  BY <1>2, <1>3, <1>5 DEF a, b, c

LEMMA ThreeFits == 3 \in Signed(U32Bytes)
<1> DEFINE p == 256^U32Bytes
           q == 256^(U32Bytes - 1)
<1>1. p = 256 * q /\ q \in Nat \ {0}
  BY PowersOf256, WidthsNest
<1> HIDE DEF p, q
<1>2. p \in Nat /\ p >= 256
  BY <1>1
<1>3. 3 \in Int /\ -p <= 2 * 3 /\ 2 * 3 < p
  BY <1>2
<1> QED
  BY <1>3 DEF Signed, p

\* The first fields of a message of the third version.
V3Fields(id, flags) == <<3, id, 255, <<flags>>, 3>>

V3TrapFields(id, flags, params) == <<3, id, 255, <<flags>>, 3, params>>

Sixfold(a, b, c, d, e, f) ==
    <<a, b, c, d, e, f>> = (<<a>> \o <<b, c, d, e>>) \o <<f>>

Fivefold(a, b, c, d, e) == <<a, b, c, d, e>> = <<a>> \o <<b, c, d, e>>

LEMMA FiveFields ==
    ASSUME NEW a, NEW b, NEW c, NEW d, NEW e
    PROVE  Fivefold(a, b, c, d, e)
BY FirstOf5 DEF Fivefold

LEMMA SixFields ==
    ASSUME NEW a, NEW b, NEW c, NEW d, NEW e, NEW f
    PROVE  Sixfold(a, b, c, d, e, f)
<1>1. <<a, b, c, d, e, f>> = <<a, b, c, d, e>> \o <<f>>
  BY LastOf6
<1>2. <<a, b, c, d, e>> = <<a>> \o <<b, c, d, e>>
  BY FirstOf5
<1> QED
  BY <1>1, <1>2 DEF Sixfold

\* A trap of the third version carries its parameters as they are.
LEMMA TrapV3Read ==
    ASSUME NEW id \in Signed(U32Bytes), 255 \in Signed(U32Bytes), NEW flags \in Byte,
           NEW params \in Seq(Byte), NEW scoped, NEW sh \in Seq(Field), NEW out \in Seq(Field),
           Concluding(ScopedReads, scoped, sh \o out)
    PROVE  Concluding(Reads["trap"], EncodeV3Message(id, 255, flags, 3, params, scoped, FALSE),
                      (V3TrapFields(id, flags, params) \o sh) \o out)
<1> DEFINE o == Read("octets")
           header == V3Header(id, 255, flags, 3)
           octets == OctetString(params)
           h4 == <<id, 255, <<flags>>, 3>>
           h6 == V3TrapFields(id, flags, params)
           reads == HeaderReads(o)
<1>1. 3 \in Signed(U32Bytes)
  BY SmallNumbers, ThreeFits
<1>2. /\ Consuming(<<o>>, octets, <<params>>, <<>>) /\ o \in Items
      /\ Consuming(<<o>>, OctetString(<<flags>>), << <<flags>> >>, <<>>)
  <2>1. <<flags>> \in Seq(Byte)
    OBVIOUS
  <2> QED
    BY <2>1, ConsumingOne, SimpleReads, SimpleIs
<1>3. Consuming(reads, header, h4, <<>>)
  BY <1>1, <1>2, HeaderRead DEF V3Header
<1>4. h4 \in Seq(Field) /\ header \in Seq(Byte) /\ reads \in Seq(Items)
  BY <1>3, Zenon DEF Consuming
<1>5. scoped \in Seq(Byte) /\ ScopedReads \in Seq(Items)
  BY DEF Concluding
<1>6. params \in Field
  BY FieldsAre
<1>7. h6 = (<<3>> \o h4) \o <<params>>
  <2>1. Sixfold(3, id, 255, <<flags>>, 3, params)
    BY SixFields
  <2> QED
    BY <2>1, Zenon DEF Sixfold, V3TrapFields
<1>8. EncodeV3Message(id, 255, flags, 3, params, scoped, FALSE) =
         Tlv(SEQUENCE, Integer(3) \o (header \o (octets \o scoped)))
  <2>1. EncodeV3Message(id, 255, flags, 3, params, scoped, FALSE) =
           Tlv(SEQUENCE, Integer(3) \o header \o octets \o scoped)
    BY DEF EncodeV3Message, V3Header
  <2> HIDE DEF header
  <2> QED
    BY <1>4, <1>5, <2>1, EncodeV3Is
<1>9. TrapV3Reads = (reads \o <<o>>) \o ScopedReads
  BY DEF TrapV3Reads
<1>10. PICK next : /\ Reads["trap"] = <<Sequence, Version(next)>>
                   /\ Version(next) \in Items
                   /\ DOMAIN next = {0, 1, 3}
                   /\ next[0] = TrapV1Reads /\ next[1] = TrapV2cReads
                   /\ next[3] = TrapV3Reads
  BY VersionsAre
<1> HIDE DEF o, header, octets, h4, h6, reads
<1>11. <<o>> \in Seq(Items)
  BY <1>2, OneItem
<1> DEFINE list == <<o>> \o ScopedReads
<1>12. TrapV3Reads = reads \o list /\ list \in Seq(Items)
  <2> DEFINE a == <<o>>
  <2>1. a \in Seq(Items)
    BY <1>11
  <2>2. TrapV3Reads = (reads \o a) \o ScopedReads
    BY <1>9
  <2> HIDE DEF a
  <2>3. reads \o (a \o ScopedReads) = (reads \o a) \o ScopedReads
        /\ a \o ScopedReads \in Seq(Items)
    <3>1. reads \in Seq(Items) /\ ScopedReads \in Seq(Items)
      BY <1>4, <1>5
    <3> QED
      BY <2>1, <3>1, SMTT(60)
  <2> QED
    BY <2>2, <2>3 DEF a
<1>13. Concluding(list, octets \o scoped, <<params>> \o (sh \o out))
  <2>1. Concluding(ScopedReads \o <<>>, scoped, sh \o out)
    BY <1>5, EmptyEnds
  <2> QED
    BY <1>2, <1>5, <2>1, ConcludingBoth
<1> HIDE DEF list
<1>14. Concluding(TrapV3Reads, header \o (octets \o scoped),
                  h4 \o (<<params>> \o (sh \o out)))
  <2>1. Concluding(list \o <<>>, octets \o scoped, <<params>> \o (sh \o out))
    BY <1>12, <1>13, EmptyEnds
  <2> QED
    BY <1>3, <1>12, <2>1, ConcludingBoth
<1>15. Concluding(Reads["trap"], Tlv(SEQUENCE, Integer(3) \o (header \o (octets \o scoped))),
                  <<3>> \o (h4 \o (<<params>> \o (sh \o out))))
  <2> DEFINE rest == header \o (octets \o scoped)
             got == h4 \o (<<params>> \o (sh \o out))
  <2>1. Concluding(next[3], rest, got) /\ 3 \in DOMAIN next
    BY <1>10, <1>14
  <2> HIDE DEF rest, got
  <2>2. Concluding(<<Sequence, Version(next)>>, Tlv(SEQUENCE, Integer(3) \o rest),
                   <<3>> \o got)
    BY <1>10, <2>1, WholeRead
  <2> QED
    BY <1>10, <2>2 DEF rest, got
<1>16. <<3>> \o (h4 \o (<<params>> \o (sh \o out))) = (h6 \o sh) \o out
  <2> DEFINE a == <<3>>
             b == <<params>>
             t == a \o h4
             u == t \o b
             v == sh \o out
  <2>1. a \in Seq(Field) /\ b \in Seq(Field)
    <3>1. 3 \in Field
      BY FieldsAre
    <3> QED
      BY <1>6, <3>1
  <2> HIDE DEF a, b
  <2>2. v \in Seq(Field) /\ b \o v \in Seq(Field)
    <3>1. v \in Seq(Field)
      BY Regrouped
    <3> HIDE DEF v
    <3> QED
      BY <2>1, <3>1, Regrouped
  <2>3. a \o (h4 \o (b \o v)) = (a \o h4) \o (b \o v) /\ t \in Seq(Field)
    <3> DEFINE w == b \o v
    <3>1. w \in Seq(Field)
      BY <2>2
    <3> HIDE DEF w, v
    <3>2. a \o (h4 \o w) = (a \o h4) \o w /\ a \o h4 \in Seq(Field)
      <4>1. a \in Seq(Field) /\ h4 \in Seq(Field)
        BY <1>4, <2>1
      <4> QED
        BY <3>1, <4>1, SMTT(60)
    <3> QED
      BY <3>2 DEF w
  <2> HIDE DEF t
  <2>4. t \o (b \o v) = (t \o b) \o v /\ u \in Seq(Field)
    <3> HIDE DEF v
    <3> QED
      BY <2>1, <2>2, <2>3, SMTT(60)
  <2> HIDE DEF u
  <2>5. u \o (sh \o out) = (u \o sh) \o out
    BY <2>4, Regrouped
  <2> QED
    BY <1>7, <2>3, <2>4, <2>5 DEF a, b, t, u, v
<1> QED
  BY <1>8, <1>15, <1>16 DEF h6

LEMMA TrapV3Carries ==
    ASSUME NEW id \in Signed(U32Bytes), 255 \in Signed(U32Bytes), NEW flags \in Byte,
           NEW p \in Params, NEW engine \in Seq(Byte), NEW context \in Seq(Byte),
           NEW tag \in Byte, NEW number \in Signed(U32Bytes), NEW varbinds \in Seq(Binding)
    PROVE  \E header :
              Carries(TrapV3(id, flags, p, Scoped(engine, context, tag, number, varbinds)),
                      header)
<1> DEFINE scoped == ScopedBytes(engine, context, tag, number, varbinds)
           s == Scoped(engine, context, tag, number, varbinds)
           m == TrapV3(id, flags, p, s)
           params == EncodeUsmParams(p)
           sh == <<engine, context, tag, number, 0, 0>>
           h6 == V3TrapFields(id, flags, params)
           header == h6 \o sh
           out == BindingsReadAs(varbinds)
           sent == BindingFields(varbinds)
           bytes == EncodeV3Message(id, 255, flags, 3, params, scoped, FALSE)
<1>1. Concluding(ScopedReads, scoped, sh \o out) /\ sh \in Seq(Field)
  BY ScopedRead
<1>2. out \in Seq(Field) /\ sent \in Seq(Field)
  BY BindingsRead, FieldsAt
<1>3. params \in Seq(Byte)
  BY UsmRead
<1>4. h6 \in Seq(Field)
  <2> DEFINE b == <<flags>>
  <2>1. b \in Seq(Byte)
    OBVIOUS
  <2>2. id \in Int
    BY DEF Signed
  <2> HIDE DEF b, params
  <2>3. 3 \in Field /\ id \in Field /\ 255 \in Field /\ b \in Field /\ params \in Field
    BY <1>3, <2>1, <2>2, FieldsAre
  <2>4. <<3, id, 255, b, 3, params>> \in Seq(Field)
    BY <2>3
  <2> QED
    BY <2>4 DEF b, V3TrapFields
<1>5. /\ s.bytes = scoped /\ s.fields = sh \o sent /\ s.varbinds = varbinds
      /\ s.zeroRun = FALSE
      /\ DOMAIN s = {"decoder", "bytes", "varbinds", "zeroRun", "fields"}
  BY DEF Scoped, Message, ScopedBytes
<1> HIDE DEF s, scoped, params, sh
<1>6. /\ m.decoder = "trap" /\ m.bytes = bytes /\ m.varbinds = varbinds
      /\ m.zeroRun = FALSE /\ m.fields = h6 \o (sh \o sent)
  <2> HIDE DEF h6, sent
  <2> QED
    BY <1>5 DEF TrapV3, h6, params, V3TrapFields
<1> HIDE DEF out, sent
<1>7. Concluding(Reads["trap"], bytes, header \o out)
  BY <1>1, <1>2, <1>3, TrapV3Read
<1> HIDE DEF h6, m
<1>8. header \in Seq(Field) /\ m.fields = header \o sent
  <2>1. h6 \o (sh \o sent) = (h6 \o sh) \o sent /\ h6 \o sh \in Seq(Field)
    BY <1>1, <1>2, <1>4, Regrouped
  <2> QED
    BY <1>6, <2>1
<1>9. "trap" \in DOMAIN Reads
  BY VersionsAre
<1> HIDE DEF header, bytes
<1>10. bytes \in Seq(Byte)
  BY <1>7 DEF Concluding
<1>11. m.fields = header \o BindingFields(m.varbinds)
  BY <1>6, <1>8 DEF sent
<1>12. Concluding(Reads[m.decoder], m.bytes, header \o BindingsReadAs(m.varbinds))
  BY <1>6, <1>7 DEF out
<1>13. Carries(m, header)
  BY <1>6, <1>8, <1>9, <1>10, <1>11, <1>12 DEF Carries
<1> QED
  BY <1>13 DEF m, s

\* decode_v3_message: the parameters, and the scoped PDU encrypted or not.
LEMMA V3Read ==
    ASSUME NEW id \in Signed(U32Bytes), 255 \in Signed(U32Bytes), NEW flags \in Byte,
           NEW params \in Seq(Byte), NEW got,
           Consuming(<<Read("usm")>>, OctetString(params), got, <<>>),
           NEW encrypted, encrypted = ((flags \div 2) % 2 = 1),
           NEW scoped \in Seq(Byte),
           encrypted \/ \E tag \in Byte, content \in Seq(Byte) : scoped = Tlv(tag, content)
    PROVE  Concluding(Reads["v3"],
                      EncodeV3Message(id, 255, flags, 3, params, scoped, encrypted),
                      V3Fields(id, flags) \o got \o <<scoped>>)
<1> DEFINE last == IF encrypted THEN OctetString(scoped) ELSE scoped
           as == IF encrypted THEN "octets" ELSE "full"
           header == V3Header(id, 255, flags, 3)
           octets == OctetString(params)
           h4 == <<id, 255, <<flags>>, 3>>
           h5 == V3Fields(id, flags)
           u == Read("usm")
           f == Read(as)
           then == [e \in BOOLEAN |-> <<Read("usm"), Read(IF e THEN "octets" ELSE "full")>>]
           item == Flags(then)
           reads == HeaderReads(item)
<1>1. 3 \in Signed(U32Bytes) /\ encrypted \in BOOLEAN
  BY ThreeFits
<1>2. Consuming(<<f>>, last, <<scoped>>, <<>>)
  <2>1. CASE encrypted
    BY <2>1, ConsumingOne
  <2>2. CASE ~encrypted
    <3>1. PICK tag \in Byte, content \in Seq(Byte) : scoped = Tlv(tag, content)
      BY <2>2
    <3>2. Consuming(<<Read("full")>>, Tlv(tag, content), <<Tlv(tag, content)>>, <<>>)
      BY ConsumingOne
    <3> QED
      BY <2>2, <3>1, <3>2
  <2> QED
    BY <2>1, <2>2
<1>3. V3Reads = reads /\ item \in Items
  <2>1. V3Reads = reads
    BY DEF V3Reads
  <2> HIDE DEF item
  <2>2. reads \in Seq(Flagged)
    BY <2>1, V3ReadsArePlan DEF Plans
  <2>3. Len(reads) = 6 /\ reads[4] = item
    BY DEF HeaderReads
  <2> HIDE DEF reads
  <2>4. \A k \in 1..Len(reads) : reads[k] \in Flagged
    BY <2>2
  <2>5. item \in Flagged
    BY <2>3, <2>4
  <2> QED
    BY <2>1, <2>5 DEF Items, reads
<1>4. Consumes(<<item>>, OctetString(<<flags>>), << <<flags>> >>, then[encrypted])
  <2>1. DOMAIN then = BOOLEAN
    OBVIOUS
  <2> HIDE DEF then
  <2> QED
    BY <1>3, <2>1, FlagsRead
<1>5. then[encrypted] = <<u, f>>
  BY <1>1
<1> HIDE DEF last, header, octets, h4, item, reads, then, u, f
<1>6. u \in Items /\ f \in Items
  <2>1. as \in {"octets", "full"}
    OBVIOUS
  <2> HIDE DEF as
  <2> QED
    BY <2>1, UsmIsItem, SimpleReads, SimpleIs DEF u, f
<1>7. <<u>> \in Seq(Items) /\ <<f>> \in Seq(Items) /\ <<u, f>> \in Seq(Items)
  BY <1>6
<1>8. <<u, f>> = <<u>> \o <<f>>
  BY LastOf2
<1>9. Consuming(<<item>>, OctetString(<<flags>>), << <<flags>> >>, <<u, f>>)
  <2>1. <<item>> \in Seq(Items)
    BY <1>3, OneItem
  <2> DEFINE b == <<flags>>
  <2>2. b \in Seq(Byte)
    OBVIOUS
  <2> HIDE DEF b
  <2>3. OctetString(b) \in Seq(Byte) /\ b \in Field
    BY <2>2, TagsAre, TlvBytes, FieldsAre DEF OctetString
  <2>4. <<b>> \in Seq(Field)
    BY <2>3
  <2>5. Consumes(<<item>>, OctetString(b), <<b>>, <<u, f>>)
    BY <1>4, <1>5 DEF b
  <2> DEFINE c == <<u, f>>
             d == <<b>>
             x == <<item>>
  <2>6. /\ c \in Seq(Items) /\ d \in Seq(Field) /\ x \in Seq(Items)
        /\ Consumes(x, OctetString(b), d, c)
    BY <1>7, <2>1, <2>4, <2>5
  <2> HIDE DEF c, d, x
  <2>7. Consuming(x, OctetString(b), d, c)
    BY <2>3, <2>6 DEF Consuming
  <2> QED
    BY <2>7 DEF b, c, d, x
<1>10. Consuming(reads, header, h4, <<u, f>>)
  BY <1>1, <1>3, <1>9, HeaderRead DEF V3Header, header, h4, reads
<1> DEFINE c == <<u, f>>
<1>11. Concluding(c, octets \o last, got \o <<scoped>>)
  <2>1. Consuming(<<u>>, octets, got, <<>>)
    BY DEF u, octets
  <2>2. Concluding(<<f>>, last, <<scoped>>)
    BY <1>2, ConsumedConcludes, Zenon DEF Consuming, Concluding
  <2>3. Concluding(<<f>> \o <<>>, last, <<scoped>>)
    BY <1>7, <2>2, EmptyEnds
  <2> QED
    BY <1>7, <1>8, <2>1, <2>3, ConcludingBoth
<1> HIDE DEF c
<1>12. Concluding(V3Reads, header \o (octets \o last), h4 \o (got \o <<scoped>>))
  <2>1. c \in Seq(Items) /\ reads \in Seq(Items) /\ <<>> \in Seq(Items)
    BY <1>7, <1>10 DEF Consuming, c
  <2>2. Concluding(<<>> \o c, octets \o last, got \o <<scoped>>)
    BY <1>11, <2>1, EmptyEnds
  <2>3. reads = reads \o <<>>
    BY <2>1, EmptyEnds
  <2>4. Consuming(reads, header, h4, c)
    BY <1>10 DEF c
  <2>5. Concluding(reads, header \o (octets \o last), h4 \o (got \o <<scoped>>))
    BY <2>1, <2>2, <2>3, <2>4, ConcludingBoth
  <2> QED
    BY <1>3, <2>5
<1>13. PICK next : /\ Reads["v3"] = <<Sequence, Version(next)>> /\ Version(next) \in Items
                   /\ DOMAIN next = {3} /\ next[3] = V3Reads
  BY VersionsAre
<1> DEFINE rest == header \o (octets \o last)
           all == h4 \o (got \o <<scoped>>)
<1>14. Concluding(Reads["v3"], Tlv(SEQUENCE, Integer(3) \o rest), <<3>> \o all)
  <2>1. Concluding(next[3], rest, all) /\ 3 \in DOMAIN next
    BY <1>12, <1>13
  <2> HIDE DEF rest, all
  <2>2. Concluding(<<Sequence, Version(next)>>, Tlv(SEQUENCE, Integer(3) \o rest),
                   <<3>> \o all)
    BY <1>13, <2>1, WholeRead
  <2> QED
    BY <1>13, <2>2
<1>15. <<3>> \o all = h5 \o got \o <<scoped>>
  <2> DEFINE a == <<3>>
             d == <<scoped>>
  <2>1. h5 = a \o h4
    <3>1. Fivefold(3, id, 255, <<flags>>, 3)
      BY FiveFields
    <3> QED
      BY <3>1, Zenon DEF Fivefold, V3Fields, h4
  <2>2. a \in Seq(Field) /\ d \in Seq(Field)
    <3>1. 3 \in Field /\ scoped \in Field
      BY FieldsAre
    <3> QED
      BY <3>1
  <2>3. h4 \in Seq(Field) /\ got \in Seq(Field)
    BY <1>10, Zenon DEF Consuming
  <2> HIDE DEF a, d, h5
  <2>4. got \o d \in Seq(Field) /\ a \o h4 \in Seq(Field)
    BY <2>2, <2>3
  <2>5. a \o (h4 \o (got \o d)) = (a \o h4) \o (got \o d)
    <3> DEFINE e == got \o d
    <3>1. e \in Seq(Field)
      BY <2>4
    <3> HIDE DEF e
    <3>2. a \o (h4 \o e) = (a \o h4) \o e
      BY <2>2, <2>3, <3>1, SMTT(60)
    <3> QED
      BY <3>2 DEF e
  <2>6. (a \o h4) \o (got \o d) = ((a \o h4) \o got) \o d
    <3> DEFINE e == a \o h4
    <3>1. e \in Seq(Field)
      BY <2>4
    <3> HIDE DEF e
    <3>2. e \o (got \o d) = (e \o got) \o d
      BY <2>2, <2>3, <3>1, SMTT(60)
    <3> QED
      BY <3>2 DEF e
  <2> QED
    BY <2>1, <2>5, <2>6 DEF a, d
<1>16. EncodeV3Message(id, 255, flags, 3, params, scoped, encrypted) =
         Tlv(SEQUENCE, Integer(3) \o rest)
  <2>1. EncodeV3Message(id, 255, flags, 3, params, scoped, encrypted) =
           Tlv(SEQUENCE, Integer(3) \o header \o octets \o last)
    BY DEF EncodeV3Message, V3Header, header, octets, last
  <2>2. header \in Seq(Byte) /\ last \in Seq(Byte)
    BY <1>2, <1>10, Zenon DEF Consuming
  <2>3. Integer(3) \o header \o OctetString(params) \o last =
           Integer(3) \o (header \o (OctetString(params) \o last))
    BY <2>2, EncodeV3Is, ZenonT(60)
  <2> QED
    BY <2>1, <2>3 DEF octets
<1> HIDE DEF rest, all, h5
<1> QED
  BY <1>14, <1>15, <1>16 DEF h5

LEMMA TwelveFields ==
    ASSUME NEW S, NEW p \in Seq(S), NEW q \in Seq(S)
    PROVE  \A r \in Seq(S), x \in S :
              /\ Len(p) = 5 /\ Len(q) = 6 /\ Len(r) = 12
              /\ (\A k \in 1..5 : r[k] = p[k]) /\ (\A k \in 1..6 : r[5 + k] = q[k])
              /\ r[12] = x
              => r = (p \o q) \o <<x>>
<1> DEFINE t == p \o q
<1>1. /\ t \in Seq(S) /\ Len(t) = Len(p) + Len(q)
      /\ \A k \in 1..Len(p) : t[k] = p[k]
      /\ \A k \in 1..Len(q) : t[Len(p) + k] = q[k]
  BY Joined
<1> HIDE DEF t
<1> SUFFICES ASSUME NEW r \in Seq(S), NEW x \in S,
                    Len(p) = 5, Len(q) = 6, Len(r) = 12,
                    \A k \in 1..5 : r[k] = p[k], \A k \in 1..6 : r[5 + k] = q[k],
                    r[12] = x
             PROVE  r = t \o <<x>>
  BY DEF t
<1>2. \A k \in 1..5 : t[k] = r[k]
  BY <1>1
<1>3. \A k \in 1..6 : t[5 + k] = r[5 + k]
  BY <1>1
<1>4. Len(t) = 11
  BY <1>1
<1>5. ASSUME NEW k \in 1..Len(t) PROVE r[k] = t[k]
  <2>1. k \in 1..5 \/ (k - 5 \in 1..6 /\ 5 + (k - 5) = k)
    BY <1>4
  <2> QED
    BY <1>2, <1>3, <2>1
<1>6. r[Len(t) + 1] = x /\ Len(r) = Len(t) + 1
  BY <1>4
<1> QED
  BY <1>1, <1>5, <1>6, OneMore

LEMMA NoBindings ==
    /\ <<>> \in Seq(Binding)
    /\ BindingFields(<<>>) = <<>> /\ BindingsReadAs(<<>>) = <<>>
<1> DEFINE e == <<>>
<1>1. e \in Seq(Binding) /\ Len(e) = 0
  OBVIOUS
<1> HIDE DEF e
<1>2. /\ BindingFields(e) \in Seq(Field) /\ Len(BindingFields(e)) = 2 * Len(e)
      /\ BindingsReadAs(e) \in Seq(Field) /\ Len(BindingsReadAs(e)) = 2 * Len(e)
  BY <1>1, FieldsAt
<1>3. Len(BindingFields(e)) = 0 /\ Len(BindingsReadAs(e)) = 0
  BY <1>1, <1>2
<1>4. BindingFields(e) = <<>> /\ BindingsReadAs(e) = <<>>
  BY <1>2, <1>3
<1> QED
  BY <1>1, <1>4 DEF e

\* A message without bindings of its own.
LEMMA CarriesAll ==
    ASSUME NEW m, NEW header \in Seq(Field), m.varbinds = <<>>,
           m.decoder \in DOMAIN Reads, m.fields = header \o BindingFields(<<>>), ~m.zeroRun,
           Concluding(Reads[m.decoder], m.bytes, header)
    PROVE  Carries(m, header)
<1>1. header \o BindingsReadAs(<<>>) = header
  BY NoBindings, EmptyEnds
<1> DEFINE vbs == m.varbinds
<1>2. vbs \in Seq(Binding) /\ header \o BindingsReadAs(vbs) = header
  BY <1>1, NoBindings
<1>3. m.fields = header \o BindingFields(vbs)
  OBVIOUS
<1>4. m.bytes \in Seq(Byte)
  BY DEF Concluding
<1> HIDE DEF vbs
<1>5. Concluding(Reads[m.decoder], m.bytes, header \o BindingsReadAs(vbs))
  BY <1>2
<1> QED
  BY <1>2, <1>3, <1>4, <1>5 DEF Carries, vbs

\* An unencrypted scoped PDU is a TLV.
IsTlv(bytes) == \E tag \in Byte, content \in Seq(Byte) : bytes = Tlv(tag, content)

Encrypts(flags) == (flags \div 2) % 2 = 1

\* The MAC was written over its placeholder, and over nothing else.
MacInPlace(id, flags, p, scoped, mac) ==
    V3(id, flags, p, scoped, mac).bytes =
        EncodeV3Message(id, 255, flags, 3, EncodeUsmParams([p EXCEPT !.auth = mac]),
                        scoped, Encrypts(flags))

LEMMA V3Carries ==
    ASSUME NEW id \in Signed(U32Bytes), 255 \in Signed(U32Bytes), NEW flags \in Byte,
           NEW p \in Params, NEW mac \in Seq(Byte), NEW scoped \in Seq(Byte),
           Encrypts(flags) \/ IsTlv(scoped),
           MacInPlace(id, flags, p, scoped, mac), ~V3(id, flags, p, scoped, mac).zeroRun
    PROVE  \E header : Carries(V3(id, flags, p, scoped, mac), header)
<1> DEFINE m == V3(id, flags, p, scoped, mac)
           q == [p EXCEPT !.auth = mac]
           encrypted == Encrypts(flags)
           params == EncodeUsmParams(q)
           got == UsmFields(q)
           header == V3Fields(id, flags) \o got \o <<scoped>>
           bytes == EncodeV3Message(id, 255, flags, 3, params, scoped, encrypted)
<1>1. q \in Params
  BY DEF Params
<1>2. /\ m.decoder = "v3" /\ m.varbinds = <<>>
      /\ m.fields = header \o BindingFields(<<>>)
  BY DEF V3, Message, V3Fields
<1>3. m.bytes = bytes /\ ~m.zeroRun
  BY DEF MacInPlace
<1>4. encrypted = ((flags \div 2) % 2 = 1)
  BY DEF Encrypts
<1>5. encrypted \/ \E tag \in Byte, content \in Seq(Byte) : scoped = Tlv(tag, content)
  BY DEF IsTlv
<1> HIDE DEF m, q, encrypted
<1>6. Consuming(<<Read("usm")>>, OctetString(params), got, <<>>) /\ params \in Seq(Byte)
  BY <1>1, UsmRead
<1> HIDE DEF params, got
<1>7. Concluding(Reads["v3"], bytes, header)
  BY <1>4, <1>5, <1>6, V3Read
<1>8. header \in Seq(Field) /\ "v3" \in DOMAIN Reads
  BY <1>7, VersionsAre DEF Concluding
<1> HIDE DEF bytes, header
<1>9. Carries(m, header)
  BY <1>2, <1>3, <1>7, <1>8, CarriesAll
<1> QED
  BY <1>9 DEF m

\* So it is when there is a placeholder and send_request finds it, and when
\* neither a MAC is written nor a placeholder encoded.
LEMMA MacPlaced ==
    ASSUME NEW id \in Signed(U32Bytes), NEW flags \in Byte, NEW p \in Params,
           NEW mac \in Seq(Byte), NEW scoped \in Seq(Byte),
           (mac = <<>> /\ p.auth = <<>>) \/ Signable(p, mac)
    PROVE  MacInPlace(id, flags, p, scoped, mac) /\ ~V3(id, flags, p, scoped, mac).zeroRun
<1> DEFINE encrypted == Encrypts(flags)
           packet == EncodeV3Message(id, 255, flags, 3, EncodeUsmParams(p), scoped, encrypted)
           at == FindAuthPlaceholder(packet, Len(mac))
           run == /\ mac # <<>>
                  /\ HasZeroRun(p.engine, Len(mac)) \/ HasZeroRun(p.user, Len(mac))
           m == V3(id, flags, p, scoped, mac)
           signed == EncodeV3Message(id, 255, flags, 3, EncodeUsmParams([p EXCEPT !.auth = mac]),
                                     scoped, encrypted)
<1>1. /\ m.bytes = IF mac = <<>> THEN packet ELSE WriteAt(packet, at, mac)
      /\ m.zeroRun = run
  BY DEF V3, Message, Encrypts
<1>2. CASE mac = <<>> /\ p.auth = <<>>
  <2>1. [p EXCEPT !.auth = mac] = p
    BY <1>2 DEF Params
  <2>2. m.bytes = packet /\ ~m.zeroRun
    BY <1>1, <1>2
  <2> HIDE DEF m
  <2> QED
    BY <2>1, <2>2, Zenon DEF MacInPlace, m
<1>3. CASE Signable(p, mac)
  <2>1. mac # <<>> /\ ~run
    BY <1>3 DEF Signable
  <2>2. encrypted \in BOOLEAN
    BY DEF Encrypts
  <2> HIDE DEF encrypted
  <2>3. WriteAt(packet, at, mac) = signed
    BY <1>3, <2>2, MacInItsPlace
  <2> HIDE DEF m, run, packet, at
  <2>4. m.bytes = signed /\ ~m.zeroRun
    BY <1>1, <2>1, <2>3
  <2> HIDE DEF signed
  <2> QED
    BY <2>4, Zenon DEF MacInPlace, m, signed, encrypted
<1> QED
  BY <1>2, <1>3

LEMMA V3WithoutParamsCarries ==
    ASSUME NEW id \in Signed(U32Bytes), 255 \in Signed(U32Bytes),
           NEW scoped \in Seq(Byte), IsTlv(scoped)
    PROVE  \E header : Carries(V3WithoutParams(id, scoped), header)
<1> DEFINE m == V3WithoutParams(id, scoped)
           params == <<>>
           got == << <<>>, 0, 0, <<>>, <<>>, <<>> >>
           header == V3Fields(id, 4) \o got \o <<scoped>>
           all == <<3, id, 255, <<4>>, 3, <<>>, 0, 0, <<>>, <<>>, <<>>, scoped>>
           bytes == EncodeV3Message(id, 255, 4, 3, params, scoped, FALSE)
<1>1. /\ m.decoder = "v3" /\ m.varbinds = <<>> /\ m.zeroRun = FALSE /\ m.bytes = bytes
      /\ m.fields = all \o BindingFields(<<>>)
  BY DEF V3WithoutParams, Message
<1>2. 4 \in Byte /\ (4 \div 2) % 2 = 0
  BY DEF Byte
<1>3. FALSE = ((4 \div 2) % 2 = 1)
  BY <1>2
<1>4. \E tag \in Byte, content \in Seq(Byte) : scoped = Tlv(tag, content)
  BY DEF IsTlv
<1>5. Consuming(<<Read("usm")>>, OctetString(params), got, <<>>) /\ params \in Seq(Byte)
  BY NoUsmRead
<1>6. all = header
  <2> DEFINE e == <<>>
             f == <<4>>
             a == <<3, id, 255, f, 3>>
             b == <<e, 0, 0, e, e, e>>
             r == <<3, id, 255, f, 3, e, 0, 0, e, e, e, scoped>>
             S == {3, id, 255, f, e, 0, scoped}
  <2> HIDE DEF e, f
  <2>1. a \in Seq(S) /\ b \in Seq(S) /\ r \in Seq(S) /\ scoped \in S
    OBVIOUS
  <2>2. Len(a) = 5 /\ Len(b) = 6 /\ Len(r) = 12 /\ r[12] = scoped
    OBVIOUS
  <2>3. \A k \in 1..5 : r[k] = a[k]
    OBVIOUS
  <2>4. \A k \in 1..6 : r[5 + k] = b[k]
    OBVIOUS
  <2> HIDE DEF a, b, r, S
  <2>5. r = (a \o b) \o <<scoped>>
    BY <2>1, <2>2, <2>3, <2>4, TwelveFields
  <2> QED
    BY <2>5 DEF a, b, r, e, f, V3Fields
<1> HIDE DEF m, params, got, all
<1>7. Concluding(Reads["v3"], bytes, header)
  BY <1>2, <1>3, <1>4, <1>5, V3Read
<1>8. header \in Seq(Field) /\ "v3" \in DOMAIN Reads
  BY <1>7, VersionsAre DEF Concluding
<1> HIDE DEF bytes, header
<1>9. m.fields = header \o BindingFields(<<>>) /\ ~m.zeroRun
  BY <1>1, <1>6
<1>10. Carries(m, header)
  BY <1>1, <1>7, <1>8, <1>9, CarriesAll
<1> QED
  BY <1>10 DEF m

-----------------------------------------------------------------------------
\* What the encoders make, with a length of three bytes at most.
Encoded(m) ==
    /\ Len(m.bytes) < 256^3
    /\ \/ \E version \in {0, 1, 3}, community \in Seq(Byte), id \in Signed(U32Bytes),
             errorStatus \in Unsigned(U32Bytes), index \in Unsigned(U32Bytes),
             varbinds \in Seq(Binding) :
             m = Response(version, community, id, errorStatus, index, varbinds)
       \/ \E community \in Seq(Byte), enterprise \in Oid, address \in Seq(Byte),
             n1 \in Signed(U32Bytes), n2 \in Signed(U32Bytes), n3 \in Unsigned(U32Bytes),
             varbinds \in Seq(Binding) :
             /\ RepresentableOid(enterprise) /\ (address = <<>> \/ Len(address) = 4)
             /\ m = TrapV1(community, enterprise, address, <<n1, n2, n3>>, varbinds)
       \/ \E community \in Seq(Byte), id \in Signed(U32Bytes), varbinds \in Seq(Binding) :
             m = TrapV2c(community, id, varbinds)
       \/ \E engine \in Seq(Byte), context \in Seq(Byte), tag \in Byte,
             id \in Signed(U32Bytes), varbinds \in Seq(Binding) :
             m = Scoped(engine, context, tag, id, varbinds)
       \/ /\ 255 \in Signed(U32Bytes)
          /\ \E id \in Signed(U32Bytes), flags \in Byte, p \in Params :
                \/ \E engine \in Seq(Byte), context \in Seq(Byte), tag \in Byte,
                      number \in Signed(U32Bytes), varbinds \in Seq(Binding) :
                      m = TrapV3(id, flags, p,
                                 Scoped(engine, context, tag, number, varbinds))
                \/ \E scoped \in Seq(Byte), mac \in Seq(Byte) :
                      /\ Encrypts(flags) \/ IsTlv(scoped)
                      /\ (mac = <<>> /\ p.auth = <<>>) \/ Signable(p, mac)
                      /\ m = V3(id, flags, p, scoped, mac)
                \/ \E scoped \in Seq(Byte) :
                      IsTlv(scoped) /\ m = V3WithoutParams(id, scoped)

LEMMA EncodedCarries ==
    ASSUME NEW m, Encoded(m)
    PROVE  /\ \E header : Carries(m, header)
           /\ Len(m.bytes) < 256^3
<1>1. CASE \E version \in {0, 1, 3}, community \in Seq(Byte), id \in Signed(U32Bytes),
              errorStatus \in Unsigned(U32Bytes), index \in Unsigned(U32Bytes),
              varbinds \in Seq(Binding) :
              m = Response(version, community, id, errorStatus, index, varbinds)
  BY <1>1, ResponseCarries DEF Encoded
<1>2. CASE \E community \in Seq(Byte), enterprise \in Oid, address \in Seq(Byte),
              n1 \in Signed(U32Bytes), n2 \in Signed(U32Bytes), n3 \in Unsigned(U32Bytes),
              varbinds \in Seq(Binding) :
              /\ RepresentableOid(enterprise) /\ (address = <<>> \/ Len(address) = 4)
              /\ m = TrapV1(community, enterprise, address, <<n1, n2, n3>>, varbinds)
  BY <1>2, TrapV1Carries DEF Encoded
<1>3. CASE \E community \in Seq(Byte), id \in Signed(U32Bytes), varbinds \in Seq(Binding) :
              m = TrapV2c(community, id, varbinds)
  BY <1>3, TrapV2cCarries DEF Encoded
<1>4. CASE \E engine \in Seq(Byte), context \in Seq(Byte), tag \in Byte,
              id \in Signed(U32Bytes), varbinds \in Seq(Binding) :
              m = Scoped(engine, context, tag, id, varbinds)
  BY <1>4, ScopedCarries DEF Encoded
<1>5. ASSUME 255 \in Signed(U32Bytes),
             NEW id \in Signed(U32Bytes), NEW flags \in Byte, NEW p \in Params,
             \/ \E engine \in Seq(Byte), context \in Seq(Byte), tag \in Byte,
                   number \in Signed(U32Bytes), varbinds \in Seq(Binding) :
                   m = TrapV3(id, flags, p,
                              Scoped(engine, context, tag, number, varbinds))
             \/ \E scoped \in Seq(Byte), mac \in Seq(Byte) :
                   /\ Encrypts(flags) \/ IsTlv(scoped)
                   /\ (mac = <<>> /\ p.auth = <<>>) \/ Signable(p, mac)
                   /\ m = V3(id, flags, p, scoped, mac)
             \/ \E scoped \in Seq(Byte) :
                   IsTlv(scoped) /\ m = V3WithoutParams(id, scoped)
      PROVE  \E header : Carries(m, header)
  <2>1. CASE \E engine \in Seq(Byte), context \in Seq(Byte), tag \in Byte,
                number \in Signed(U32Bytes), varbinds \in Seq(Binding) :
                m = TrapV3(id, flags, p, Scoped(engine, context, tag, number, varbinds))
    BY <1>5, <2>1, TrapV3Carries
  <2>2. CASE \E scoped \in Seq(Byte), mac \in Seq(Byte) :
                /\ Encrypts(flags) \/ IsTlv(scoped)
                /\ (mac = <<>> /\ p.auth = <<>>) \/ Signable(p, mac)
                /\ m = V3(id, flags, p, scoped, mac)
    BY <1>5, <2>2, MacPlaced, V3Carries
  <2>3. CASE \E scoped \in Seq(Byte) :
                IsTlv(scoped) /\ m = V3WithoutParams(id, scoped)
    BY <1>5, <2>3, V3WithoutParamsCarries
  <2> QED
    BY <1>5, <2>1, <2>2, <2>3
<1>6. Len(m.bytes) < 256^3
  BY DEF Encoded
<1> QED
  BY <1>1, <1>2, <1>3, <1>4, <1>5, <1>6 DEF Encoded

\* A message that arrives whole is on its way to the fields it carries.
ReadInv ==
    harm \in {"none", "trailing"} /\ Encoded(message) =>
        \E header : /\ Carries(message, header)
                    /\ Running(header \o BindingsReadAs(message.varbinds))

\* The bytes of a message stand at the start of what arrives.
LEMMA ArrivesWhole ==
    ASSUME NEW x \in Seq(Byte), 2 * (Len(x) + 1) < 256^U64Bytes,
           NEW data, data = x \/ \E b \in Bytes : data = Append(x, b)
    PROVE  data \in Seq(Byte) /\ 2 * Len(data) < 256^U64Bytes /\ At(data, 0, x)
<1> DEFINE w == 256^U64Bytes
<1>1. w \in Nat /\ Len(x) \in Nat
  BY WidthsNest, PowersOf256, WidthAssumption
<1>2. 2 * (Len(x) + 1) < w
  OBVIOUS
<1> HIDE DEF w
<1>3. CASE data = x
  <2>1. 2 * Len(x) < w
    BY <1>1, <1>2
  <2> QED
    BY <1>3, <2>1, AtAll DEF w
<1>4. ASSUME NEW b \in Bytes, data = Append(x, b)
      PROVE  data \in Seq(Byte) /\ 2 * Len(data) < w /\ At(data, 0, x)
  <2>1. b \in Byte
    BY DecoderAssumption, TagsAre
  <2>2. /\ data \in Seq(Byte) /\ Len(data) = Len(x) + 1
        /\ \A k \in 1..Len(x) : data[k] = x[k]
    BY <1>4, <2>1
  <2>3. At(data, 0, x)
    BY <1>1, <2>2 DEF At
  <2> QED
    BY <1>1, <1>2, <2>2, <2>3
<1> QED
  BY <1>3, <1>4 DEF w

LEMMA InitReads == Init => ReadInv
<1> SUFFICES ASSUME Init, harm \in {"none", "trailing"}, Encoded(message)
             PROVE  \E header : /\ Carries(message, header)
                                /\ Running(header \o BindingsReadAs(message.varbinds))
  BY DEF ReadInv
<1>1. PICK header : Carries(message, header)
  BY EncodedCarries
<1> DEFINE x == message.bytes
           out == header \o BindingsReadAs(message.varbinds)
<1>2. /\ x \in Seq(Byte) /\ message.decoder \in DOMAIN Reads
      /\ Concluding(Reads[message.decoder], x, out)
  BY <1>1 DEF Carries
<1>3. /\ Concludes(Reads[message.decoder], x, out) /\ out \in Seq(Field)
  BY <1>2 DEF Concluding
<1>4. /\ message \in Messages /\ todo = Reads[message.decoder] /\ fields = <<>>
      /\ status = "reading"
  BY DEF Init
<1>5. PICK data : frames = <<Frame(data)>> /\ data \in Harmed(x, harm)
  BY DEF Init
<1>6. data = x \/ \E b \in Bytes : data = Append(x, b)
  BY <1>5 DEF Harmed
<1>7. 2 * (Len(x) + 1) < 256^U64Bytes
  BY <1>4, DecoderAssumption
<1>8. data \in Seq(Byte) /\ 2 * Len(data) < 256^U64Bytes /\ At(data, 0, x)
  BY <1>2, <1>6, <1>7, ArrivesWhole
<1>9. Len(x) \in Sizes
  <2> DEFINE w == 256^U64Bytes
             t == 256^3
  <2>1. w \in Nat /\ Len(x) \in Nat /\ Len(x) < t
    BY <1>2, WidthsNest, PowersOf256, WidthAssumption, EncodedCarries
  <2>2. 2 * (Len(x) + 1) < w
    BY <1>7
  <2> HIDE DEF w, t
  <2>3. Len(x) < w
    BY <2>1, <2>2
  <2> QED
    BY <2>1, <2>3 DEF Sizes, w, t
<1> HIDE DEF x, out
<1>10. Runs(Config(Stack(data, 0, <<>>), Reads[message.decoder], <<>>), <<>> \o out)
  <2>1. 0 \in Nat /\ <<>> \in Seq(Slices) /\ <<>> \in Seq(Field)
    OBVIOUS
  <2> QED
    BY <1>3, <1>8, <1>9, <2>1, ZenonT(60) DEF Concludes
<1>11. Stack(data, 0, <<>>) = frames
  BY <1>5 DEF Stack, Reader, Frame
<1>12. <<>> \o out = out
  BY <1>3, EmptyEnds
<1>13. Running(out)
  BY <1>4, <1>10, <1>11, <1>12 DEF Running, Now
<1> QED
  BY <1>1, <1>13 DEF out

LEMMA NextReads ==
    ASSUME ReadInv, [Next]_vars
    PROVE  ReadInv'
<1>1. UNCHANGED <<message, harm>>
  BY DEF Next, vars, EnterTlv, EnterFails, ReadField, ReadUsm, ReadFails, LeaveTlv,
         NextBinding, Finish, Goes, End
<1> SUFFICES ASSUME harm \in {"none", "trailing"}, Encoded(message)
             PROVE  \E header : /\ Carries(message, header)
                                /\ Running(header \o BindingsReadAs(message.varbinds))'
  <2>1. message' = message /\ harm' = harm
    BY <1>1
  <2> QED
    BY <2>1 DEF ReadInv
<1>2. PICK header : /\ Carries(message, header)
                    /\ Running(header \o BindingsReadAs(message.varbinds))
  BY DEF ReadInv
<1> DEFINE all == header \o BindingsReadAs(message.varbinds)
<1>3. all' = all
  BY <1>1
<1> QED
  BY <1>2, <1>3, RunningStep

LEMMA ReadsAlways == Spec => []ReadInv
BY InitReads, NextReads, PTL DEF Spec

\* A message that the encoders of codec.rs, v3.rs and trap.rs make, of any
\* size, comes through its decoder and gives back exactly what was encoded,
\* but for what has no encoding, whether or not a byte follows it.
THEOREM EncodedComesBack == Spec => [](Encoded(message) => RoundTrip)
<1>1. ReadInv => (Encoded(message) => RoundTrip)
  <2> SUFFICES ASSUME ReadInv, Encoded(message), harm \in {"none", "trailing"},
                      status # "reading"
               PROVE  status = "ok" /\ (fields = message.fields <=> Representable(message))
    BY DEF RoundTrip
  <2>1. PICK header : /\ Carries(message, header)
                      /\ Running(header \o BindingsReadAs(message.varbinds))
    BY DEF ReadInv
  <2>2. status = "ok" /\ fields = header \o BindingsReadAs(message.varbinds)
    BY <2>1 DEF Running
  <2> QED
    BY <2>1, <2>2, ReadAsSent
<1> QED
  BY <1>1, ReadsAlways, PTL

\* as_i64 of every number of a message that arrives as it was encoded is that
\* number, unless it is a Counter64 above i64::MAX.
THEOREM AccessorOfEncoded == Spec => [](Encoded(message) => AccessorAgrees)
<1>1. ReadInv => (Encoded(message) => AccessorAgrees)
  <2> SUFFICES ASSUME ReadInv, Encoded(message), harm = "none", status = "ok",
                      NEW i \in DOMAIN message.varbinds,
                      message.varbinds[i].value.type \in Numbers
               PROVE  LET value == message.varbinds[i].value
                      IN  (AsI64(DecodedValue(i)) = value.of) <=>
                             (value.type = "Counter64" => 2 * value.of < 256^U64Bytes)
    BY DEF AccessorAgrees
  <2>1. PICK header : /\ Carries(message, header)
                      /\ Running(header \o BindingsReadAs(message.varbinds))
    BY DEF ReadInv
  <2>2. fields = header \o BindingsReadAs(message.varbinds)
    BY <2>1 DEF Running
  <2> QED
    BY <2>1, <2>2, AccessorsRead DEF DecodedValue
<1> QED
  BY <1>1, ReadsAlways, PTL

=============================================================================
