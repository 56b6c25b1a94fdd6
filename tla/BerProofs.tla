------------------------------- MODULE BerProofs -------------------------------
(***************************************************************************)
(* Proofs about the operators of Ber, for every width of the machine's     *)
(* integers: what a TLV is read as, and that the decoders of numbers,      *)
(* object identifiers and values give back what the encoders wrote.        *)
(***************************************************************************)
EXTENDS Ber, SequenceTheorems, WellFoundedInduction, TLAPS

Byte == 0..255

-----------------------------------------------------------------------------
\* Induction over the bytes of a number.  A set of naturals has a least
\* member; where an induction is by the least number for which a statement is
\* false, the statement need not be passed to a theorem.
LEMMA Least ==
    ASSUME NEW T, T \subseteq Nat, T # {}
    PROVE  \E m \in T : \A n \in T : m <= n
<1>1. IsWellFoundedOn(OpToRel(<, Nat), Nat)
  BY NatLessThanWellFounded
<1>2. PICK m \in T : \A y \in T : ~(<<y, m>> \in OpToRel(<, Nat))
  BY <1>1, WFMin
<1>3. \A y \in T : ~(y < m)
  BY <1>2 DEF OpToRel
<1> QED
  BY <1>3

\* The partial values of ShiftIn's loop, up to the k-th byte.
Shifts(f, k, start, bytes, top) ==
    /\ f \in [0..k -> Nat]
    /\ f[0] = start
    /\ \A n \in 1..k : f[n] = (f[n - 1] % top) * 256 + bytes[n]

LEMMA ShiftNext ==
    ASSUME NEW x \in Nat, NEW b \in Byte, NEW top \in Nat \ {0}
    PROVE  (x % top) * 256 + b \in Nat /\ x % top <= x
<1>1. x % top \in Nat
  OBVIOUS
<1>2. x % top <= x
  OBVIOUS
<1> QED
  BY <1>1, <1>2 DEF Byte

LEMMA ShiftsExist ==
    ASSUME NEW bytes \in Seq(Byte), NEW start \in Nat, NEW top \in Nat \ {0}
    PROVE  \E f : Shifts(f, Len(bytes), start, bytes, top)
<1> DEFINE Built(k) == \E f : Shifts(f, k, start, bytes, top)
           T == {k \in 0..Len(bytes) : ~Built(k)}
<1>1. Len(bytes) \in Nat /\ \A k \in 1..Len(bytes) : bytes[k] \in Byte
  OBVIOUS
<1>2. Built(0)
  <2>1. Shifts([n \in 0..0 |-> start], 0, start, bytes, top)
    BY DEF Shifts
  <2> QED
    BY <2>1
<1>3. ASSUME NEW m \in 1..Len(bytes), Built(m - 1)
      PROVE  Built(m)
  <2>1. PICK g : Shifts(g, m - 1, start, bytes, top)
    BY <1>3
  <2>2. /\ m \in Nat /\ m - 1 \in 0..(m - 1) /\ bytes[m] \in Byte
        /\ g \in [0..(m - 1) -> Nat]
    BY <1>1, <2>1 DEF Shifts
  <2> DEFINE last == (g[m - 1] % top) * 256 + bytes[m]
             f == [n \in 0..m |-> IF n = m THEN last ELSE g[n]]
  <2>3. last \in Nat
    BY <2>2, ShiftNext
  <2>4. f \in [0..m -> Nat] /\ f[m] = last /\ \A n \in 0..(m - 1) : f[n] = g[n]
    BY <2>2, <2>3
  <2>5. \A n \in 1..m : n = m \/ (n \in 1..(m - 1) /\ n \in 0..(m - 1))
    BY <2>2
  <2>6. \A n \in 1..m : n - 1 \in 0..(m - 1)
    BY <2>2
  <2>7. 0 \in 0..(m - 1)
    BY <2>2
  <2> HIDE DEF f
  <2>8. \A n \in 1..m : f[n] = (f[n - 1] % top) * 256 + bytes[n]
    <3>1. \A n \in 1..(m - 1) : g[n] = (g[n - 1] % top) * 256 + bytes[n]
      BY <2>1 DEF Shifts
    <3>2. \A n \in 1..(m - 1) : f[n] = (f[n - 1] % top) * 256 + bytes[n]
      BY <2>4, <2>5, <2>6, <3>1
    <3>3. f[m] = (f[m - 1] % top) * 256 + bytes[m]
      BY <2>2, <2>4
    <3> QED
      BY <2>5, <3>2, <3>3
  <2>9. Shifts(f, m, start, bytes, top)
    BY <2>1, <2>4, <2>7, <2>8 DEF Shifts
  <2> QED
    BY <2>9
<1> HIDE DEF Built
<1>4. ASSUME T # {} PROVE FALSE
  <2>1. PICK m \in T : \A n \in T : m <= n
    <3>1. T \subseteq Nat
      BY <1>1
    <3> HIDE DEF T
    <3> QED
      BY <1>4, <3>1, Least
  <2>2. m # 0
    BY <1>2, <2>1
  <2>3. m \in 1..Len(bytes) /\ m - 1 \in 0..Len(bytes) /\ m - 1 \notin T
    BY <1>1, <2>1, <2>2
  <2> QED
    BY <1>3, <2>1, <2>3
<1>5. Built(Len(bytes))
  BY <1>1, <1>4
<1> QED
  BY <1>5 DEF Built

\* The loop's value is the last of them.
LEMMA ShiftInIs ==
    ASSUME NEW bytes \in Seq(Byte), NEW start \in Nat, NEW width,
           256^(width - 1) \in Nat \ {0}
    PROVE  \E f : /\ Shifts(f, Len(bytes), start, bytes, 256^(width - 1))
                  /\ ShiftIn(start, bytes, width) = f[Len(bytes)]
<1> DEFINE top == 256^(width - 1)
           Loop(f) == f = [n \in 0..Len(bytes) |->
                             IF n = 0 THEN start
                             ELSE (f[n - 1] % top) * 256 + bytes[n]]
           g == CHOOSE f : Loop(f)
<1>1. ShiftIn(start, bytes, width) = g[Len(bytes)]
  BY DEF ShiftIn
<1>2. top \in Nat \ {0}
  OBVIOUS
<1> HIDE DEF top
<1>3. PICK f : Shifts(f, Len(bytes), start, bytes, top)
  BY <1>2, ShiftsExist
<1>4. Len(bytes) \in Nat
  OBVIOUS
<1>5. f = [n \in 0..Len(bytes) |-> f[n]]
      /\ \A n \in 0..Len(bytes) :
            f[n] = IF n = 0 THEN start ELSE (f[n - 1] % top) * 256 + bytes[n]
  BY <1>3, <1>4 DEF Shifts
<1>6. Loop(f)
  BY <1>5
<1>7. Loop(g)
  BY <1>6
<1>8. \A n \in 0..Len(bytes) :
         g[n] = IF n = 0 THEN start ELSE (g[n - 1] % top) * 256 + bytes[n]
  BY <1>7
<1> HIDE DEF g
<1>9. \A n \in 0..Len(bytes) : g[n] \in Nat
  <2> DEFINE T == {n \in 0..Len(bytes) : g[n] \notin Nat}
  <2>1. SUFFICES ASSUME T # {} PROVE FALSE
    OBVIOUS
  <2>2. PICK m \in T : \A n \in T : m <= n
    <3>1. T \subseteq Nat
      BY <1>4
    <3> HIDE DEF T
    <3> QED
      BY <2>1, <3>1, Least
  <2>3. m # 0
    BY <1>8, <2>2
  <2>4. m \in 1..Len(bytes) /\ m - 1 \in 0..Len(bytes) /\ m - 1 \notin T
    BY <1>4, <2>2, <2>3
  <2>5. g[m - 1] \in Nat /\ bytes[m] \in Byte
    BY <2>4
  <2>6. g[m] = (g[m - 1] % top) * 256 + bytes[m]
    BY <1>8, <2>2, <2>3
  <2>7. (g[m - 1] % top) * 256 + bytes[m] \in Nat
    BY <1>2, <2>5, ShiftNext
  <2> QED
    BY <2>2, <2>6, <2>7
<1>10. Shifts(g, Len(bytes), start, bytes, top)
  <2>1. g = [n \in 0..Len(bytes) |-> g[n]]
    BY <1>7 DEF g
  <2> QED
    BY <1>4, <1>8, <1>9, <2>1 DEF Shifts
<1> QED
  BY <1>1, <1>10 DEF top

\* The powers of 256 up to the width of usize.
LEMMA PowersGrow ==
    /\ 256^(U64Bytes - 1) \in Nat \ {0} /\ 256^U64Bytes \in Nat
    /\ 256^U64Bytes = 256 * 256^(U64Bytes - 1)
    /\ \A k \in 0..(U64Bytes - 1) : 256^k <= 256^(U64Bytes - 1)
<1> DEFINE top == U64Bytes - 1
           T == {n \in 0..top : \E k \in 0..n : ~(256^k <= 256^n)}
<1>1. top \in 0..(U64Bytes - 1) /\ top \in Nat /\ U64Bytes = top + 1
  BY WidthAssumption
<1>2. \A k \in 0..top : 256^k \in Nat \ {0} /\ 256^(k + 1) = 256 * 256^k
  BY PowerAssumption
<1> HIDE DEF top
<1>3. ASSUME T # {} PROVE FALSE
  <2>1. PICK m \in T : \A n \in T : m <= n
    <3>1. T \subseteq Nat
      BY <1>1
    <3> HIDE DEF T
    <3> QED
      BY <1>3, <3>1, Least
  <2>2. PICK k \in 0..m : ~(256^k <= 256^m)
    BY <2>1
  <2>3. m \in 0..top /\ k # m /\ m # 0 /\ k \in 0..(m - 1) /\ k \in 0..top
    BY <1>1, <1>2, <2>1, <2>2
  <2>4. m - 1 \in 0..top /\ m - 1 \notin T /\ m = (m - 1) + 1
    BY <1>1, <2>1, <2>3
  <2>5. 256^k <= 256^(m - 1)
    BY <2>3, <2>4
  <2>6. 256^m = 256 * 256^(m - 1)
    BY <1>2, <2>4
  <2>7. 256^k \in Nat /\ 256^(m - 1) \in Nat
    BY <1>2, <2>3, <2>4
  <2> DEFINE a == 256^k
             b == 256^(m - 1)
             c == 256^m
  <2>8. a \in Nat /\ b \in Nat /\ a <= b /\ c = 256 * b /\ ~(a <= c)
    BY <2>2, <2>5, <2>6, <2>7
  <2> HIDE DEF a, b, c
  <2> QED
    BY <2>8
<1>4. \A k \in 0..top : 256^k <= 256^top
  <2>1. top \notin T
    BY <1>3
  <2>2. SUFFICES ASSUME NEW k \in 0..top, ~(256^k <= 256^top) PROVE FALSE
    OBVIOUS
  <2> QED
    BY <1>1, <2>1, <2>2
<1>5. 256^top \in Nat \ {0} /\ 256^(top + 1) = 256 * 256^top
  BY <1>1, <1>2
<1>6. 256^(top + 1) \in Nat
  BY <1>5
<1> QED
  BY <1>1, <1>4, <1>5, <1>6 DEF top

\* A number of a length's bytes is a natural number, and one of less than
\* usize's bytes is less than the power of their number.
LEMMA DecodeUnsignedIs ==
    ASSUME NEW bytes \in Seq(Byte)
    PROVE  /\ DecodeUnsigned(bytes, U64Bytes) \in Nat
           /\ Len(bytes) < U64Bytes
              => DecodeUnsigned(bytes, U64Bytes) < 256^Len(bytes)
<1> DEFINE top == 256^(U64Bytes - 1)
<1>1. top \in Nat \ {0}
  BY PowersGrow
<1>2. PICK f : /\ Shifts(f, Len(bytes), 0, bytes, top)
               /\ DecodeUnsigned(bytes, U64Bytes) = f[Len(bytes)]
  BY <1>1, ShiftInIs DEF DecodeUnsigned
<1> HIDE DEF top
<1>3. Len(bytes) \in Nat /\ f \in [0..Len(bytes) -> Nat]
  BY <1>2 DEF Shifts
<1>4. f[Len(bytes)] \in Nat
  BY <1>3
<1>5. ASSUME Len(bytes) < U64Bytes PROVE f[Len(bytes)] < 256^Len(bytes)
  <2> DEFINE T == {n \in 0..Len(bytes) : ~(f[n] < 256^n)}
  <2>1. SUFFICES ASSUME T # {} PROVE FALSE
    BY <1>3
  <2>2. PICK m \in T : \A n \in T : m <= n
    <3>1. T \subseteq Nat
      BY <1>3
    <3> HIDE DEF T
    <3> QED
      BY <2>1, <3>1, Least
  <2>3. m # 0
    <3>1. f[0] = 0 /\ 256^0 = 1
      BY <1>2 DEF Shifts
    <3>2. f[0] < 256^0
      BY <3>1
    <3>3. ~(f[m] < 256^m)
      BY <2>2
    <3> QED
      BY <3>2, <3>3, Zenon
  <2>4. /\ m \in 1..Len(bytes) /\ m - 1 \in 0..Len(bytes) /\ m - 1 \notin T
        /\ m - 1 \in 0..(U64Bytes - 1) /\ m = (m - 1) + 1
    BY <1>3, <1>5, <2>2, <2>3, WidthAssumption
  <2> DEFINE x == f[m - 1]
             p == 256^(m - 1)
  <2>5. x < p /\ x \in Nat /\ p \in Nat /\ 256^m = 256 * p
    BY <1>3, <2>4, PowerAssumption
  <2>6. bytes[m] \in Byte /\ f[m] = (x % top) * 256 + bytes[m]
    BY <1>2, <2>4 DEF Shifts
  <2>7. ~(f[m] < 256^m)
    BY <2>2
  <2> HIDE DEF x, p
  <2> DEFINE y == x % top
  <2>8. y \in Nat /\ y <= x
    BY <1>1, <2>5
  <2>9. f[m] = y * 256 + bytes[m]
    BY <2>6
  <2> HIDE DEF y
  <2>10. y * 256 + bytes[m] < 256 * p
    <3>1. \A i, j \in Nat : \A b \in Byte : i < j => i * 256 + b < 256 * j
      BY DEF Byte
    <3>2. y < p
      BY <2>5, <2>8
    <3> QED
      BY <2>5, <2>6, <2>8, <3>1, <3>2
  <2> QED
    BY <2>5, <2>7, <2>9, <2>10
<1> QED
  BY <1>2, <1>4, <1>5

-----------------------------------------------------------------------------
\* Reading a TLV.

LEMMA SliceType ==
    ASSUME NEW data \in Seq(Byte), NEW i \in Nat \ {0}, NEW j \in 0..Len(data)
    PROVE  SubSeq(data, i, j) \in Seq(Byte)
           /\ Len(SubSeq(data, i, j)) = IF i <= j THEN j - i + 1 ELSE 0
BY SubSeqProperties, LenProperties

\* read_length reads one byte at least and stays within the slice.
LEMMA ReadLengthIs ==
    ASSUME NEW data \in Seq(Byte), NEW pos \in Nat
    PROVE  \/ ReadLength(data, pos).status = "error"
           \/ \E end, len \in Nat :
                 /\ pos < Len(data) /\ pos + 1 <= end /\ end <= Len(data)
                 /\ ReadLength(data, pos) = [status |-> "ok", len |-> len, pos |-> end]
                 /\ \/ data[pos + 1] < 128 /\ len = data[pos + 1] /\ end = pos + 1
                    \/ /\ data[pos + 1] >= 128
                       /\ end = pos + 1 + (data[pos + 1] - 128)
                       /\ len = DecodeUnsigned(SubSeq(data, pos + 2, end), U64Bytes)
<1>1. CASE pos >= Len(data)
  BY <1>1 DEF ReadLength, Refused
<1>2. CASE pos < Len(data)
  <2>1. Len(data) \in Nat /\ data[pos + 1] \in Byte
    BY <1>2
  <2>2. PICK first \in 0..255 : data[pos + 1] = first
    BY <2>1 DEF Byte
  <2>3. PICK n \in Nat : n = Len(data)
    BY <2>1
  <2> DEFINE end == pos + 1 + (first - 128)
  <2>4. ~(pos >= n)
    BY <1>2, <2>3
  <2>5. CASE first < 128
    <3>1. ReadLength(data, pos) = [status |-> "ok", len |-> first, pos |-> pos + 1]
      BY <2>2, <2>3, <2>4, <2>5 DEF ReadLength
    <3>2. pos < Len(data) /\ pos + 1 <= Len(data) /\ pos + 1 \in Nat /\ first \in Nat
      BY <1>2, <2>3
    <3>3. data[pos + 1] < 128
      BY <2>2, <2>5
    <3> QED
      BY <2>2, <3>1, <3>2, <3>3
  <2>6. CASE first >= 128 /\ end > n
    <3>1. ReadLength(data, pos) = Refused("error")
      BY <2>2, <2>3, <2>4, <2>6 DEF ReadLength
    <3> QED
      BY <3>1 DEF Refused
  <2>7. CASE first >= 128 /\ end <= n
    <3> DEFINE len == DecodeUnsigned(SubSeq(data, pos + 2, end), U64Bytes)
    <3>1. end \in (pos + 1)..n /\ end \in 0..Len(data) /\ pos + 2 \in Nat \ {0}
      BY <2>3, <2>7
    <3>2. len \in Nat
      BY <3>1, SliceType, DecodeUnsignedIs
    <3>3. ReadLength(data, pos) = [status |-> "ok", len |-> len, pos |-> end]
      BY <2>2, <2>3, <2>4, <2>7 DEF ReadLength
    <3> HIDE DEF len
    <3>4. pos < Len(data) /\ pos + 1 <= end /\ end <= Len(data) /\ end \in Nat
      BY <1>2, <2>3, <3>1
    <3> QED
      BY <2>2, <2>7, <3>2, <3>3, <3>4 DEF len
  <2> QED
    BY <2>3, <2>5, <2>6, <2>7
<1> QED
  BY <1>1, <1>2

\* read_raw gives as many bytes as it is asked for, if they are there, and
\* panics only where the position after them passes usize.
LEMMA ReadRawIs ==
    ASSUME NEW data \in Seq(Byte), NEW from \in Nat, NEW len \in Nat
    PROVE  \/ ReadRaw(data, from, len).status = "error"
           \/ /\ ReadRaw(data, from, len).status = "panic"
              /\ from + len >= 256^U64Bytes
           \/ /\ from + len <= Len(data)
              /\ SubSeq(data, from + 1, from + len) \in Seq(Byte)
              /\ Len(SubSeq(data, from + 1, from + len)) = len
              /\ ReadRaw(data, from, len) =
                    [status |-> "ok", value |-> SubSeq(data, from + 1, from + len),
                     pos |-> from + len]
<1>1. CASE from + len >= 256^U64Bytes
  BY <1>1 DEF ReadRaw, Refused
<1>2. CASE ~(from + len >= 256^U64Bytes) /\ from + len > Len(data)
  BY <1>2 DEF ReadRaw, Refused
<1>3. CASE ~(from + len >= 256^U64Bytes) /\ ~(from + len > Len(data))
  <2>1. Len(data) \in Nat
    OBVIOUS
  <2>2. /\ from + len <= Len(data) /\ from + len \in 0..Len(data)
        /\ from + 1 \in Nat \ {0}
        /\ (IF from + 1 <= from + len THEN from + len - (from + 1) + 1 ELSE 0) = len
    BY <1>3, <2>1
  <2>3. /\ SubSeq(data, from + 1, from + len) \in Seq(Byte)
        /\ Len(SubSeq(data, from + 1, from + len)) = len
    BY <2>2, SliceType
  <2> QED
    BY <1>3, <2>2, <2>3 DEF ReadRaw
<1> QED
  BY <1>1, <1>2, <1>3

\* What read_tlv at pos does when the contents start at from and are len long.
TlvOf(data, pos, from, len) ==
    /\ pos < Len(data) /\ pos + 2 <= from
    /\ ReadLength(data, pos + 1) = [status |-> "ok", len |-> len, pos |-> from]
    /\ \/ /\ ReadTlv(data, pos).status = "panic"
          /\ from + len >= 256^U64Bytes
       \/ /\ from + len <= Len(data)
          /\ SubSeq(data, from + 1, from + len) \in Seq(Byte)
          /\ Len(SubSeq(data, from + 1, from + len)) = len
          /\ ReadTlv(data, pos) =
               [status |-> "ok", tag |-> data[pos + 1],
                value |-> SubSeq(data, from + 1, from + len),
                pos |-> from + len,
                full |-> SubSeq(data, pos + 1, from + len)]

\* read_tlv reads two bytes at least, stays within the slice and gives the
\* part of it that it has just read past; it panics only where a length
\* passes usize.
LEMMA ReadTlvIs ==
    ASSUME NEW data \in Seq(Byte), NEW pos \in Nat
    PROVE  \/ ReadTlv(data, pos).status = "error"
           \/ \E from, len \in Nat : TlvOf(data, pos, from, len)
<1>1. CASE pos >= Len(data)
  BY <1>1 DEF ReadTlv, Refused
<1>2. CASE ~(pos >= Len(data)) /\ ReadLength(data, pos + 1).status # "ok"
  <2>1. ReadLength(data, pos + 1).status = "error"
    BY <1>2, ReadLengthIs
  <2> QED
    BY <1>2, <2>1 DEF ReadTlv
<1>3. CASE ~(pos >= Len(data)) /\ ReadLength(data, pos + 1).status = "ok"
  <2>1. PICK from, len \in Nat :
           /\ ReadLength(data, pos + 1) = [status |-> "ok", len |-> len, pos |-> from]
           /\ pos + 2 <= from
    <3>1. pos + 1 \in Nat
      OBVIOUS
    <3>2. ReadLength(data, pos + 1).status # "error"
      BY <1>3
    <3>3. PICK end, l \in Nat :
             /\ pos + 1 + 1 <= end
             /\ ReadLength(data, pos + 1) = [status |-> "ok", len |-> l, pos |-> end]
      BY <3>1, <3>2, ReadLengthIs
    <3>4. pos + 2 <= end
      BY <3>3
    <3> QED
      BY <3>3, <3>4
  <2> DEFINE raw == ReadRaw(data, from, len)
  <2>2. ReadTlv(data, pos) =
          IF raw.status # "ok" THEN raw
          ELSE [status |-> "ok", tag |-> data[pos + 1],
                value |-> raw.value, pos |-> raw.pos,
                full |-> SubSeq(data, pos + 1, raw.pos)]
    <3>1. /\ ReadLength(data, pos + 1).pos = from /\ ReadLength(data, pos + 1).len = len
          /\ ReadLength(data, pos + 1).status = "ok"
      BY <2>1
    <3> QED
      BY <1>3, <3>1 DEF ReadTlv
  <2>3. pos < Len(data)
    BY <1>3, LenProperties
  <2>4. CASE raw.status = "error"
    BY <2>2, <2>4
  <2>5. CASE raw.status = "panic" /\ from + len >= 256^U64Bytes
    <3>1. ReadTlv(data, pos).status = "panic"
      BY <2>2, <2>5
    <3>2. TlvOf(data, pos, from, len)
      BY <2>1, <2>3, <2>5, <3>1 DEF TlvOf
    <3> QED
      BY <3>2
  <2>6. CASE /\ from + len <= Len(data)
             /\ SubSeq(data, from + 1, from + len) \in Seq(Byte)
             /\ Len(SubSeq(data, from + 1, from + len)) = len
             /\ raw = [status |-> "ok", value |-> SubSeq(data, from + 1, from + len),
                       pos |-> from + len]
    <3>1. raw.status = "ok" /\ raw.pos = from + len
          /\ raw.value = SubSeq(data, from + 1, from + len)
      BY <2>6
    <3>2. ReadTlv(data, pos) =
            [status |-> "ok", tag |-> data[pos + 1],
             value |-> SubSeq(data, from + 1, from + len), pos |-> from + len,
             full |-> SubSeq(data, pos + 1, from + len)]
      BY <2>2, <3>1
    <3>3. TlvOf(data, pos, from, len)
      BY <2>1, <2>3, <2>6, <3>2 DEF TlvOf
    <3> QED
      BY <3>3
  <2>7. \/ raw.status = "error"
        \/ raw.status = "panic" /\ from + len >= 256^U64Bytes
        \/ /\ from + len <= Len(data)
           /\ SubSeq(data, from + 1, from + len) \in Seq(Byte)
           /\ Len(SubSeq(data, from + 1, from + len)) = len
           /\ raw = [status |-> "ok", value |-> SubSeq(data, from + 1, from + len),
                     pos |-> from + len]
    BY ReadRawIs
  <2> QED
    BY <2>4, <2>5, <2>6, <2>7
<1> QED
  BY <1>1, <1>2, <1>3

\* The first bytes of a slice.
LEMMA PrefixIs ==
    ASSUME NEW data \in Seq(Byte), NEW k \in 0..Len(data)
    PROVE  /\ SubSeq(data, 1, k) \in Seq(Byte) /\ Len(SubSeq(data, 1, k)) = k
           /\ \A i \in 1..k : SubSeq(data, 1, k)[i] = data[i]
           /\ \A i \in Nat \ {0} : \A j \in 0..k :
                 SubSeq(SubSeq(data, 1, k), i, j) = SubSeq(data, i, j)
<1> DEFINE cut == SubSeq(data, 1, k)
<1>1. k \in Nat /\ k <= Len(data) /\ Len(data) \in Nat
  OBVIOUS
<1>2. \A i \in 1..k : data[i] \in Byte
  BY <1>1
<1>3. /\ cut \in Seq(Byte) /\ Len(cut) = k
      /\ \A i \in 1..k : cut[i] = data[i]
  <2>1. /\ cut \in Seq(Byte) /\ Len(cut) = IF 1 <= k THEN k - 1 + 1 ELSE 0
        /\ \A i \in 1..(k - 1 + 1) : cut[i] = data[1 + i - 1]
    BY <1>1, <1>2, SubSeqProperties
  <2> HIDE DEF cut
  <2>2. \A i \in 1..k : i \in 1..(k - 1 + 1) /\ 1 + i - 1 = i
    BY <1>1
  <2> QED
    BY <1>1, <2>1, <2>2
<1> HIDE DEF cut
<1>4. ASSUME NEW i \in Nat \ {0}, NEW j \in 0..k
      PROVE  SubSeq(cut, i, j) = SubSeq(data, i, j)
  <2>1. j \in Int /\ i \in Int /\ \A n \in i..j : n \in 1..k
    BY <1>1
  <2>2. /\ SubSeq(data, i, j) \in Seq(Byte)
        /\ Len(SubSeq(data, i, j)) = IF i <= j THEN j - i + 1 ELSE 0
        /\ \A n \in 1..(j - i + 1) : SubSeq(data, i, j)[n] = data[i + n - 1]
    BY <1>2, <2>1, SubSeqProperties
  <2>3. /\ SubSeq(cut, i, j) \in Seq(Byte)
        /\ Len(SubSeq(cut, i, j)) = IF i <= j THEN j - i + 1 ELSE 0
        /\ \A n \in 1..(j - i + 1) : SubSeq(cut, i, j)[n] = cut[i + n - 1]
    BY <1>2, <1>3, <2>1, SubSeqProperties
  <2>4. \A n \in 1..Len(SubSeq(cut, i, j)) :
           n \in 1..(j - i + 1) /\ i + n - 1 \in 1..k
    BY <2>1, <2>3
  <2> QED
    BY <1>3, <2>2, <2>3, <2>4, SeqEqual
<1> QED
  BY <1>3, <1>4 DEF cut



LEMMA DivUnique ==
    ASSUME NEW v \in Int, NEW d \in Nat \ {0}, NEW q \in Int, NEW r \in 0..(d - 1),
           v = d * q + r
    PROVE  v \div d = q /\ v % d = r
OBVIOUS

LEMMA DivIs ==
    ASSUME NEW v \in Int, NEW d \in Nat \ {0}
    PROVE  /\ v \div d \in Int /\ v % d \in 0..(d - 1)
           /\ v = d * (v \div d) + (v % d)
OBVIOUS

LEMMA DivTwice ==
    ASSUME NEW v \in Int, NEW p \in Nat \ {0}, NEW B \in Nat \ {0}
    PROVE  /\ B * p \in Nat \ {0}
           /\ v \div (B * p) = (v \div p) \div B
<1> DEFINE q == v \div p
           r == v % p
<1>1. q \in Int /\ r \in 0..(p - 1) /\ v = p * q + r
  BY DivIs
<1> DEFINE Q == q \div B
           b == q % B
<1>2. Q \in Int /\ b \in 0..(B - 1) /\ q = B * Q + b
  BY <1>1, DivIs
<1>3. B * p \in Nat \ {0}
  OBVIOUS
<1> HIDE DEF q, r, Q, b
<1>4. v = (B * p) * Q + (p * b + r)
  <2>1. p * (B * Q + b) = (B * p) * Q + p * b
    BY <1>2
  <2> QED
    BY <1>1, <1>2, <2>1
<1>5. p * b + r \in 0..(B * p - 1)
  <2>1. p * b \in Nat /\ p * b <= p * (B - 1)
    BY <1>2
  <2>2. p * (B - 1) = B * p - p
    OBVIOUS
  <2> DEFINE x == p * b
             y == B * p
             z == p * (B - 1)
  <2>3. x \in Nat /\ y \in Nat /\ x <= z /\ z = y - p /\ r \in 0..(p - 1)
    BY <1>1, <1>3, <2>1, <2>2
  <2> HIDE DEF x, y, z
  <2> QED
    BY <2>3 DEF x, y
<1> DEFINE d == B * p
           s == p * b + r
<1>6. v = d * Q + s /\ s \in 0..(d - 1) /\ d \in Nat \ {0}
  BY <1>3, <1>4, <1>5
<1> HIDE DEF d, s
<1>7. v \div d = Q
  BY <1>2, <1>6, DivUnique
<1> QED
  BY <1>3, <1>7 DEF d, Q, q

\* Modulo a multiple, then modulo what it is a multiple of.
LEMMA ModTwice ==
    ASSUME NEW v \in Int, NEW p \in Nat \ {0}, NEW B \in Nat \ {0}
    PROVE  (v % (B * p)) % p = v % p
<1> DEFINE d == B * p
           Q == v \div d
           m == v % d
           q == m \div p
           r == m % p
<1>1. d \in Nat \ {0}
  OBVIOUS
<1>2. Q \in Int /\ m \in 0..(d - 1) /\ v = d * Q + m
  BY <1>1, DivIs
<1>3. q \in Int /\ r \in 0..(p - 1) /\ m = p * q + r
  BY <1>2, DivIs
<1>4. d * Q = p * (B * Q)
  BY <1>2
<1> HIDE DEF d, Q, m, q, r
<1> DEFINE u == B * Q
<1>5. u \in Int /\ d * Q = p * u
  BY <1>2, <1>4
<1> HIDE DEF u
<1>6. p * (u + q) = p * u + p * q /\ u + q \in Int
  BY <1>3, <1>5
<1>7. v = p * (u + q) + r
  BY <1>2, <1>3, <1>5, <1>6
<1>8. v % p = r
  BY <1>3, <1>6, <1>7, DivUnique
<1> QED
  BY <1>8 DEF r, m, d

\* A digit more: what a number of digits is modulo the next power.
LEMMA DigitAdded ==
    ASSUME NEW v \in Int, NEW p \in Nat \ {0}, NEW B \in Nat \ {0},
           NEW b \in 0..(B - 1)
    PROVE  (v % p) * B + b = (B * v + b) % (B * p)
<1> DEFINE q == v \div p
           r == v % p
           d == B * p
           s == r * B + b
<1>1. q \in Int /\ r \in 0..(p - 1) /\ v = p * q + r
  BY DivIs
<1>2. d \in Nat \ {0}
  OBVIOUS
<1> HIDE DEF q, r
<1>3. s \in 0..(d - 1)
  <2>1. r * B \in Nat /\ r * B <= (p - 1) * B /\ (p - 1) * B = B * p - B
    BY <1>1
  <2> DEFINE x == r * B
             y == B * p
             z == (p - 1) * B
  <2>2. x \in Nat /\ y \in Nat /\ x <= z /\ z = y - B
    BY <2>1
  <2> HIDE DEF x, y, z
  <2>3. x + b \in 0..(y - 1)
    BY <2>2
  <2> QED
    BY <2>3 DEF x, y
<1>4. B * v + b = d * q + s
  <2>1. B * (p * q + r) = (B * p) * q + r * B
    BY <1>1
  <2> QED
    BY <1>1, <2>1
<1>5. B * v + b \in Int
  OBVIOUS
<1> DEFINE w == B * v + b
<1> HIDE DEF d, s, w
<1>6. w % d = s
  BY <1>1, <1>2, <1>3, <1>4, <1>5, DivUnique DEF w
<1> QED
  BY <1>6 DEF w, s, r, d

\* The same where the number is itself modulo that power.
LEMMA DigitShifted ==
    ASSUME NEW v \in Int, NEW p \in Nat \ {0}, NEW B \in Nat \ {0},
           NEW b \in 0..(B - 1)
    PROVE  ((v % (B * p)) % p) * B + b = (B * v + b) % (B * p)
<1>1. (v % (B * p)) % p = v % p
  BY ModTwice
<1>2. (v % p) * B + b = (B * v + b) % (B * p)
  BY DigitAdded
<1> QED
  BY <1>1, <1>2, Zenon

\* The last digit of a number, and what is before it.
LEMMA LastDigit ==
    ASSUME NEW v \in Int, NEW p \in Nat \ {0}, NEW B \in Nat \ {0}
    PROVE  /\ v \div p \in Int /\ v \div (B * p) \in Int
           /\ (v \div p) % B \in 0..(B - 1)
           /\ v \div p = B * (v \div (B * p)) + ((v \div p) % B)
<1>1. v \div p \in Int
  BY DivIs
<1> DEFINE q == v \div p
<1>2. v \div (B * p) = q \div B
  BY DivTwice, ZenonT(60)
<1> HIDE DEF q
<1>3. q \div B \in Int /\ q % B \in 0..(B - 1) /\ q = B * (q \div B) + (q % B)
  BY <1>1, DivIs DEF q
<1> QED
  BY <1>1, <1>2, <1>3, Zenon DEF q

-----------------------------------------------------------------------------
\* Numbers.

LEMMA PowersOf256 ==
    /\ 256^0 = 1
    /\ \A k \in 0..U64Bytes : 256^k \in Nat \ {0}
    /\ \A k \in 1..U64Bytes : 256^k = 256 * 256^(k - 1) /\ 256^(k - 1) \in Nat \ {0}
<1>1. 256^0 = 1
  OBVIOUS
<1>2. \A k \in 1..U64Bytes : k - 1 \in 0..(U64Bytes - 1) /\ (k - 1) + 1 = k
  BY WidthAssumption
<1>3. \A k \in 1..U64Bytes : 256^k = 256 * 256^(k - 1) /\ 256^(k - 1) \in Nat \ {0}
  <2> TAKE k \in 1..U64Bytes
  <2> DEFINE j == k - 1
  <2>1. j \in 0..(U64Bytes - 1) /\ j + 1 = k
    BY <1>2
  <2> HIDE DEF j
  <2>2. 256^(j + 1) = 256 * 256^j /\ 256^j \in Nat \ {0}
    BY <2>1, PowerAssumption
  <2> QED
    BY <2>1, <2>2 DEF j
<1>4. \A k \in 0..U64Bytes : 256^k \in Nat \ {0}
  <2> TAKE k \in 0..U64Bytes
  <2>1. CASE k = 0
    BY <1>1, <2>1
  <2>2. CASE k # 0
    <3>1. k \in 1..U64Bytes
      BY <2>2, WidthAssumption
    <3> DEFINE p == 256^(k - 1)
    <3>2. 256^k = 256 * p /\ p \in Nat \ {0}
      BY <1>3, <3>1
    <3> HIDE DEF p
    <3> QED
      BY <3>2
  <2> QED
    BY <2>1, <2>2
<1> QED
  BY <1>1, <1>3, <1>4

\* A number without its last k bytes, its last k bytes as a number, and the
\* byte before the last k.
Above(v, k) == v \div 256^k

Low(v, k) == v % 256^k

ByteAt(v, k) == Above(v, k) % 256

\* The loop gives a number of which it is given the bytes, from the one on
\* that start holds, modulo the width.
LEMMA Shifted ==
    ASSUME NEW v \in Int, NEW width \in 1..U64Bytes,
           NEW bytes \in Seq(Byte), Len(bytes) <= U64Bytes,
           \A i \in 1..Len(bytes) : bytes[i] = ByteAt(v, Len(bytes) - i)
    PROVE  ShiftIn(Low(Above(v, Len(bytes)), width), bytes, width) = Low(v, width)
<1> DEFINE base == 256
           n == Len(bytes)
           top == 256^(width - 1)
           all == 256^width
           Part(k) == v \div 256^(n - k)
           start == Part(0) % all
<1>0. base - 1 = 255
  OBVIOUS
<1>a. base \in Nat \ {0}
  OBVIOUS
<1> HIDE DEF base
<1>1. n \in 0..U64Bytes /\ n \in Nat /\ U64Bytes \in Nat
  BY WidthAssumption
<1>2. top \in Nat \ {0} /\ all = base * top /\ all \in Nat \ {0}
  BY PowersOf256 DEF base
<1>3. \A k \in 0..n : Part(k) \in Int
  <2> TAKE k \in 0..n
  <2>1. n - k \in 0..U64Bytes
    BY <1>1
  <2>2. 256^(n - k) \in Nat \ {0}
    BY <2>1, PowersOf256
  <2> QED
    BY <2>2, DivIs
<1>4. \A k \in 1..n : Part(k) = base * Part(k - 1) + bytes[k]
  <2> TAKE k \in 1..n
  <2> DEFINE p == 256^(n - k)
  <2>1. n - k + 1 \in 1..U64Bytes /\ n - k + 1 - 1 = n - k /\ n - k + 1 = n - (k - 1)
    BY <1>1
  <2>2. p \in Nat \ {0} /\ 256^(n - k + 1) = base * p
    <3> DEFINE j == n - k + 1
    <3>1. j \in 1..U64Bytes /\ j - 1 = n - k
      BY <2>1
    <3> HIDE DEF j
    <3>2. 256^j = 256 * 256^(j - 1) /\ 256^(j - 1) \in Nat \ {0}
      BY <3>1, PowersOf256
    <3> QED
      BY <3>1, <3>2 DEF j, base
  <2>3. 256^(n - (k - 1)) = base * p
    BY <2>1, <2>2
  <2>4. bytes[k] = (v \div p) % base
    BY <1>1 DEF base, ByteAt, Above
  <2> HIDE DEF p
  <2>5. v \div (base * p) = (v \div p) \div base
    <3>1. p \in Nat \ {0}
      BY <2>2
    <3> QED
      BY <1>a, <3>1, DivTwice, ZenonT(60)
  <2>6. v \div p \in Int
    BY <2>2, DivIs
  <2>7. v \div p = base * ((v \div p) \div base) + ((v \div p) % base)
    BY <1>a, <2>6, DivIs, Zenon
  <2>8. Part(k - 1) = (v \div p) \div base
    BY <2>3, <2>5
  <2>9. Part(k) = v \div p
    BY DEF p
  <2> QED
    BY <2>4, <2>7, <2>8, <2>9
<1> HIDE DEF Part
<1>5. start \in Nat
  <2>1. 0 \in 0..n /\ all \in Nat \ {0}
    BY <1>1, <1>2
  <2>2. Part(0) \in Int
    BY <1>3, <2>1
  <2>3. start \in 0..(all - 1)
    BY <2>1, <2>2, DivIs, Zenon
  <2> QED
    BY <2>1, <2>3
<1>6. n - 0 = n
  BY <1>1
<1>7. ShiftIn(start, bytes, width) =
        ShiftIn((v \div 256^Len(bytes)) % 256^width, bytes, width)
  BY <1>6 DEF Part
<1> HIDE DEF start, all
<1>8. PICK f : /\ Shifts(f, n, start, bytes, top)
               /\ ShiftIn(start, bytes, width) = f[n]
  <2>1. 256^(width - 1) \in Nat \ {0}
    BY <1>2
  <2> QED
    BY <1>5, <2>1, ShiftInIs, ZenonT(60)
<1> DEFINE T == {k \in 0..n : f[k] # Part(k) % all}
<1>9. ASSUME T # {} PROVE FALSE
  <2>1. PICK m \in T : \A k \in T : m <= k
    <3>1. T \subseteq Nat
      BY <1>1
    <3> HIDE DEF T
    <3> QED
      BY <1>9, <3>1, Least
  <2>2. m # 0
    BY <1>8, <2>1 DEF Shifts, start
  <2>3. m \in 1..n /\ m - 1 \in 0..n /\ m - 1 \notin T
    BY <1>1, <2>1, <2>2
  <2> DEFINE x == Part(m - 1)
             b == bytes[m]
  <2>4. x \in Int /\ b \in 0..(base - 1) /\ f[m - 1] = x % all
    <3>1. x \in Int /\ f[m - 1] = x % all
      BY <1>3, <2>3
    <3>2. b \in Byte
      BY <2>3
    <3> QED
      BY <1>0, <3>1, <3>2 DEF Byte
  <2>5. f[m] = (f[m - 1] % top) * base + b
    BY <1>8, <2>3 DEF Shifts, base
  <2>6. Part(m) = base * x + b
    BY <1>4, <2>3
  <2>7. f[m] # Part(m) % all
    BY <2>1
  <2> HIDE DEF x, b, top
  <2>8. ((x % (base * top)) % top) * base + b = (base * x + b) % (base * top)
    <3>1. top \in Nat \ {0}
      BY <1>2
    <3>2. x \in Int /\ b \in 0..(base - 1)
      BY <2>4
    <3> QED
      BY <1>a, <3>1, <3>2, DigitShifted, Zenon
  <2> QED
    BY <1>2, <2>4, <2>5, <2>6, <2>7, <2>8, Zenon
<1>10. f[n] = Part(n) % all
  BY <1>1, <1>9
<1>11. Part(n) = v
  <2>1. n - n = 0 /\ 256^0 = 1
    BY <1>1
  <2>2. v \div 1 = v
    OBVIOUS
  <2> QED
    BY <2>1, <2>2 DEF Part
<1> QED
  BY <1>7, <1>8, <1>10, <1>11 DEF all, Low, Above

\* A set of numbers below a bound has a largest and a least member.
LEMMA MaxIs ==
    ASSUME NEW n \in Nat, NEW S \in SUBSET (1..n), S # {}
    PROVE  Max(S) \in S /\ \A i \in S : i <= Max(S)
<1> DEFINE T == {n - i : i \in S}
<1>0. \A i \in S : i \in 1..n /\ n - i \in Nat /\ n - i \in T
  OBVIOUS
<1>1. T \subseteq Nat /\ T # {}
  BY <1>0
<1>2. PICK t \in T : \A u \in T : t <= u
  <2> HIDE DEF T
  <2> QED
    BY <1>1, Least
<1>3. PICK m \in S : t = n - m
  BY <1>2
<1>4. \A i \in S : m >= i
  <2> TAKE i \in S
  <2>1. n - m <= n - i /\ m \in 1..n /\ i \in 1..n
    BY <1>0, <1>2, <1>3
  <2> QED
    BY <2>1
<1>5. Max(S) \in S /\ \A i \in S : Max(S) >= i
  BY <1>3, <1>4, Zenon DEF Max
<1>6. \A i \in S : i \in Int
  OBVIOUS
<1> QED
  BY <1>5, <1>6

LEMMA MinIs ==
    ASSUME NEW S \in SUBSET Nat, S # {}
    PROVE  Min(S) \in S /\ \A i \in S : Min(S) <= i
<1>1. PICK m \in S : \A i \in S : m <= i
  BY Least
<1> QED
  BY <1>1, Zenon DEF Min

\* What is stripped is at the front and redundant, and something is left.
LEMMA StrippedIs ==
    ASSUME NEW bytes \in Seq(Byte), bytes # <<>>, NEW redundant
    PROVE  \E m \in 1..Len(bytes) : /\ Stripped(bytes, redundant) =
                                         SubSeq(bytes, m, Len(bytes))
                                    /\ \A i \in 1..(m - 1) : i \in redundant
<1> DEFINE starts == {i \in DOMAIN bytes : 1..(i - 1) \subseteq redundant}
<1>1. Len(bytes) \in Nat /\ DOMAIN bytes = 1..Len(bytes) /\ 1 \in 1..Len(bytes)
  OBVIOUS
<1>2. starts \in SUBSET (1..Len(bytes)) /\ 1 \in starts
  BY <1>1
<1>3. Stripped(bytes, redundant) = SubSeq(bytes, Max(starts), Len(bytes))
  BY DEF Stripped
<1>4. \A i \in starts : \A j \in 1..(i - 1) : j \in redundant
  OBVIOUS
<1> HIDE DEF starts
<1>5. Max(starts) \in starts
  <2>1. starts # {}
    BY <1>2
  <2> QED
    BY <1>1, <1>2, <2>1, MaxIs
<1> QED
  BY <1>2, <1>3, <1>4, <1>5

LEMMA BeBytesAre ==
    ASSUME NEW v \in Int, NEW n \in 0..U64Bytes
    PROVE  /\ BeBytes(v, n) \in Seq(Byte) /\ Len(BeBytes(v, n)) = n
           /\ \A i \in 1..n : BeBytes(v, n)[i] = ByteAt(v, n - i)
<1>1. n \in Nat
  BY WidthAssumption
<1>2. \A i \in 1..n : ByteAt(v, n - i) \in Byte
  <2> TAKE i \in 1..n
  <2>1. n - i \in 0..U64Bytes
    BY <1>1, WidthAssumption
  <2>2. 256^(n - i) \in Nat \ {0}
    BY <2>1, PowersOf256
  <2>3. v \div 256^(n - i) \in Int
    BY <2>2, DivIs
  <2> DEFINE q == v \div 256^(n - i)
  <2> HIDE DEF q
  <2>4. q % 256 \in Byte
    BY <2>3 DEF q, Byte
  <2> QED
    BY <2>4 DEF q, ByteAt, Above
<1>3. BeBytes(v, n) = [i \in 1..n |-> ByteAt(v, n - i)]
  BY DEF BeBytes, ByteAt, Above
<1> QED
  BY <1>1, <1>2, <1>3

\* The last bytes of a number, shifted in after those before them.
LEMMA SuffixShifted ==
    ASSUME NEW v \in Int, NEW width \in 1..U64Bytes,
           NEW n \in 1..U64Bytes, NEW m \in 1..n
    PROVE  /\ SubSeq(BeBytes(v, n), m, n) \in Seq(Byte)
           /\ Len(SubSeq(BeBytes(v, n), m, n)) = n - m + 1
           /\ SubSeq(BeBytes(v, n), m, n)[1] = BeBytes(v, n)[m]
           /\ ShiftIn(Low(Above(v, n - m + 1), width),
                      SubSeq(BeBytes(v, n), m, n), width) = Low(v, width)
<1> DEFINE b == BeBytes(v, n)
           s == SubSeq(b, m, n)
           len == n - m + 1
<1>1. /\ n \in Nat /\ m \in Nat /\ n \in 0..U64Bytes /\ len \in 1..n /\ len <= U64Bytes
      /\ \A i \in 1..len : m + i - 1 \in 1..n /\ n - (m + i - 1) = len - i
  BY WidthAssumption
<1>2. /\ b \in Seq(Byte) /\ Len(b) = n
      /\ \A i \in 1..n : b[i] = ByteAt(v, n - i)
  <2>1. n \in 0..U64Bytes
    BY <1>1
  <2> HIDE DEF b
  <2>2. /\ BeBytes(v, n) \in Seq(Byte) /\ Len(BeBytes(v, n)) = n
        /\ \A i \in 1..n : BeBytes(v, n)[i] = ByteAt(v, n - i)
    BY <2>1, BeBytesAre
  <2> QED
    BY <2>2 DEF b
<1> HIDE DEF b
<1>3. /\ s \in Seq(Byte) /\ Len(s) = len
      /\ \A i \in 1..len : s[i] = b[m + i - 1]
  <2>1. \A i \in m..n : b[i] \in Byte
    BY <1>1, <1>2
  <2>2. m <= n /\ m \in Int /\ n \in Int
    BY <1>1
  <2>3. /\ s \in Seq(Byte)
        /\ Len(s) = (IF m <= n THEN n - m + 1 ELSE 0)
        /\ \A i \in 1..(n - m + 1) : s[i] = b[m + i - 1]
    BY <2>1, <2>2, SubSeqProperties
  <2> QED
    BY <2>2, <2>3
<1> HIDE DEF s
<1>4. \A i \in 1..len : s[i] = ByteAt(v, len - i)
  BY <1>1, <1>2, <1>3
<1>5. s[1] = b[m]
  BY <1>1, <1>3
<1> HIDE DEF len
<1>6. \A i \in 1..Len(s) : s[i] = ByteAt(v, Len(s) - i)
  BY <1>3, <1>4
<1>7. ShiftIn(Low(Above(v, Len(s)), width), s, width) = Low(v, width)
  <2>1. Len(s) <= U64Bytes
    BY <1>1, <1>3
  <2> QED
    <3>1. s \in Seq(Byte)
      BY <1>3
    <3> QED
      BY <1>6, <2>1, <3>1, Shifted, Zenon
<1> QED
  BY <1>3, <1>5, <1>7 DEF b, s, len

\* What stands before the leading bytes of a number stands after them, if they
\* only repeat it.
LEMMA LeadingBytes ==
    ASSUME NEW v \in Int, NEW c \in {0, -1}, NEW m \in 1..U64Bytes
    PROVE  /\ Above(v, U64Bytes) = c
           /\ \A i \in 1..(m - 1) : BeBytes(v, U64Bytes)[i] = c % 256
           => Above(v, U64Bytes - m + 1) = c
<1> DEFINE w == U64Bytes
           Part(k) == v \div 256^(w - k)
           base == 256
           T == {k \in 0..(m - 1) : Part(k) # c}
<1>0. SUFFICES ASSUME Part(0) = c,
                      \A i \in 1..(m - 1) : BeBytes(v, w)[i] = c % base
               PROVE  Part(m - 1) = c
  <2>1. w - 0 = w /\ w - (m - 1) = w - m + 1
    BY WidthAssumption
  <2> QED
    BY <2>1 DEF Above
<1> HIDE DEF Part
<1>1. w \in Nat /\ m \in Nat /\ w \in 0..U64Bytes
  BY WidthAssumption
<1>2. base \in Nat \ {0}
  OBVIOUS
<1> HIDE DEF base
<1>3. ASSUME T # {} PROVE FALSE
  <2>1. PICK k \in T : \A j \in T : k <= j
    <3>1. T \subseteq Nat
      BY <1>1
    <3> HIDE DEF T
    <3> QED
      BY <1>3, <3>1, Least
  <2>2. k # 0
    BY <1>0, <2>1
  <2>3. k \in 1..(m - 1) /\ k - 1 \in 0..(m - 1) /\ k - 1 \notin T /\ k \in 1..w
    BY <1>1, <2>1, <2>2
  <2> DEFINE p == 256^(w - k)
  <2>4. p \in Nat \ {0} /\ 256^(w - (k - 1)) = base * p
    <3> DEFINE j == w - (k - 1)
    <3>1. j \in 1..U64Bytes /\ j - 1 = w - k
      BY <1>1, <2>3
    <3> HIDE DEF j, w
    <3>2. 256^j = 256 * 256^(j - 1) /\ 256^(j - 1) \in Nat \ {0}
      BY <3>1, PowersOf256
    <3> QED
      BY <3>1, <3>2 DEF j, base
  <2>5. BeBytes(v, w)[k] = (v \div p) % base
    <3>1. BeBytes(v, w)[k] = ByteAt(v, w - k)
      BY <1>1, <2>3, BeBytesAre
    <3> QED
      BY <3>1 DEF ByteAt, Above, base
  <2>6. (v \div p) % base = c % base
    BY <1>0, <2>3, <2>5
  <2>7. v \div (base * p) = c
    BY <2>3, <2>4 DEF Part
  <2>8. Part(k) = v \div p /\ Part(k) # c
    BY <2>1 DEF Part
  <2> DEFINE q == v \div p
             r == v \div (base * p)
  <2>9. q \in Int /\ q = base * r + (q % base)
    <3>1. p \in Nat \ {0}
      BY <2>4
    <3> HIDE DEF p
    <3> QED
      BY <1>2, <3>1, LastDigit, Zenon DEF q, r
  <2>10. r = c /\ q % base = c % base /\ q # c
    BY <2>6, <2>7, <2>8
  <2> HIDE DEF q, r
  <2> QED
    BY <2>9, <2>10 DEF base
<1>4. m - 1 \in 0..(m - 1)
  BY <1>1
<1> QED
  BY <1>3, <1>4

\* The numbers of an i64, i32, u32 or u64.
Signed(width) == {v \in Int : -(256^width) <= 2 * v /\ 2 * v < 256^width}

Unsigned(width) == {v \in Nat : v < 256^width}

\* A number within a power of it is what the power leaves of it, or what is
\* left below it.
LEMMA Within ==
    ASSUME NEW v \in Int, NEW p \in Nat \ {0}
    PROVE  /\ 0 <= v /\ v < p => v \div p = 0 /\ v % p = v
           /\ v < 0 /\ -p <= v => v \div p = -1 /\ v % p = v + p
           /\ v % p \in 0..(p - 1)
<1>1. ASSUME 0 <= v, v < p PROVE v \div p = 0 /\ v % p = v
  <2>1. v \in 0..(p - 1) /\ v = p * 0 + v /\ 0 \in Int
    BY <1>1
  <2> QED
    BY <2>1, DivUnique
<1>2. ASSUME v < 0, -p <= v PROVE v \div p = -1 /\ v % p = v + p
  <2>1. v + p \in 0..(p - 1) /\ v = p * (-1) + (v + p) /\ -1 \in Int
    BY <1>2
  <2> QED
    BY <2>1, DivUnique
<1>3. v % p \in 0..(p - 1)
  BY DivIs
<1> QED
  BY <1>1, <1>2, <1>3

LEMMA WidthsNest ==
    /\ U32Bytes \in 1..U64Bytes /\ U64Bytes \in 1..U64Bytes
    /\ 256 * 256^U32Bytes <= 256^U64Bytes
    /\ Signed(U32Bytes) \subseteq Signed(U64Bytes)
    /\ Unsigned(U32Bytes) \subseteq Signed(U64Bytes)
    /\ Unsigned(U32Bytes) \subseteq Unsigned(U64Bytes)
<1>1. U32Bytes \in 1..U64Bytes /\ U64Bytes \in 1..U64Bytes /\ U32Bytes \in 0..(U64Bytes - 1)
  BY WidthAssumption
<1> DEFINE h == 256^U32Bytes
           w == 256^U64Bytes
           t == 256^(U64Bytes - 1)
<1>2. h <= t /\ w = 256 * t /\ t \in Nat /\ w \in Nat
  BY <1>1, PowersGrow
<1>3. h \in Nat
  BY <1>1, PowersOf256
<1> HIDE DEF h, w, t
<1>4. 256 * h <= w
  BY <1>2, <1>3
<1>5. \A v \in Int : -h <= 2 * v /\ 2 * v < h => -w <= 2 * v /\ 2 * v < w
  BY <1>2, <1>3
<1>6. \A v \in Nat : v < h => -w <= 2 * v /\ 2 * v < w /\ v < w
  BY <1>2, <1>3
<1> QED
  BY <1>1, <1>4, <1>5, <1>6 DEF Signed, Unsigned, h, w

\* The cast gives back a number of its width, and one that was made unsigned.
LEMMA AsSignedIs ==
    ASSUME NEW width \in 1..U64Bytes, NEW v \in Signed(width)
    PROVE  AsSigned(v, width) = v /\ AsSigned(v % 256^width, width) = v
<1> DEFINE p == 256^width
<1>1. p \in Nat \ {0}
  BY PowersOf256, WidthAssumption
<1>2. v \in Int /\ -p <= 2 * v /\ 2 * v < p
  BY DEF Signed
<1>3. v % p \in Int /\ (v % p) % p = v % p
  <2>1. v % p \in 0..(p - 1)
    BY <1>1, <1>2, Within
  <2> DEFINE r == v % p
  <2> HIDE DEF r, p
  <2>2. r \in Int /\ 0 <= r /\ r < p
    BY <1>1, <2>1 DEF r
  <2>3. r % p = r
    BY <1>1, <2>2, Within
  <2> QED
    BY <2>2, <2>3 DEF r
<1> DEFINE r == v % p
<1> HIDE DEF p
<1>4. \/ 0 <= v /\ r = v
      \/ v < 0 /\ r = v + p
  <2>1. v \in Int /\ -p <= v
    BY <1>1, <1>2
  <2>2. v < p
    BY <1>1, <1>2
  <2>3. 0 <= v \/ v < 0
    BY <2>1
  <2> QED
    BY <1>1, <2>1, <2>2, <2>3, Within, Zenon
<1>5. (IF 2 * r >= p THEN r - p ELSE r) = v
  <2> HIDE DEF r
  <2> QED
    BY <1>1, <1>2, <1>4
<1> QED
  BY <1>3, <1>5 DEF AsSigned, p

\* The first byte of a number of the width tells its sign.
LEMMA SignByte ==
    ASSUME NEW v \in Signed(U64Bytes)
    PROVE  /\ BeBytes(v, U64Bytes)[1] >= 128 <=> v < 0
           /\ Above(v, U64Bytes) = IF v < 0 THEN -1 ELSE 0
<1> DEFINE t == 256^(U64Bytes - 1)
           w == 256^U64Bytes
           q == v \div t
<1>1. t \in Nat \ {0} /\ w = 256 * t
  BY PowersGrow
<1>2. v \in Int /\ -w <= 2 * v /\ 2 * v < w
  BY DEF Signed
<1>3. BeBytes(v, U64Bytes)[1] = q % 256
  <2>1. 1 \in 1..U64Bytes /\ U64Bytes \in 0..U64Bytes
    BY WidthAssumption
  <2>2. BeBytes(v, U64Bytes)[1] = ByteAt(v, U64Bytes - 1)
    BY <1>2, <2>1, BeBytesAre
  <2> QED
    BY <2>2 DEF ByteAt, Above
<1> HIDE DEF t
<1>4. q \in Int /\ v % t \in 0..(t - 1) /\ v = t * q + (v % t)
  BY <1>1, <1>2, DivIs
<1> DEFINE r == v % t
           y == t * q
<1> HIDE DEF q, r, y, w
<1>5. v = y + r /\ r \in 0..(t - 1)
  BY <1>4 DEF r, y
<1>6. v >= 0 => 0 <= q /\ q < 128
  <2>1. q >= 128 => y >= t * 128
    BY <1>1, <1>4 DEF y
  <2>2. q <= -1 => y <= -t
    BY <1>1, <1>4 DEF y
  <2>3. y \in Int
    BY <1>1, <1>4 DEF y
  <2> QED
    BY <1>1, <1>2, <1>4, <1>5, <2>1, <2>2, <2>3
<1>7. v < 0 => -128 <= q /\ q < 0
  <2>1. q <= -129 => y <= t * (-129)
    BY <1>1, <1>4 DEF y
  <2>2. q >= 0 => y >= 0
    BY <1>1, <1>4 DEF y
  <2>3. y \in Int
    BY <1>1, <1>4 DEF y
  <2> QED
    BY <1>1, <1>2, <1>4, <1>5, <2>1, <2>2, <2>3
<1>8. q % 256 >= 128 <=> v < 0
  BY <1>2, <1>4, <1>6, <1>7
<1>9. v \div w = IF v < 0 THEN -1 ELSE 0
  <2>1. w \in Nat \ {0}
    BY <1>1
  <2>2. (0 <= v => v < w) /\ (v < 0 => -w <= v)
    BY <1>2, <2>1
  <2>3. v \in Int /\ (v < 0 \/ (0 <= v /\ ~(v < 0)))
    BY <1>2
  <2> DEFINE d == v \div w
  <2>4. (v < 0 => d = -1) /\ (0 <= v => d = 0)
    BY <2>1, <2>2, <2>3, Within, Zenon
  <2> HIDE DEF d
  <2> QED
    BY <2>3, <2>4 DEF d
<1> QED
  BY <1>3, <1>8, <1>9 DEF w, Above

\* The low bytes of a number of the width are the number.
LEMMA LowIs ==
    ASSUME NEW width \in 1..U64Bytes
    PROVE  /\ 256^width \in Nat \ {0}
           /\ \A v \in Unsigned(width) : Low(v, width) = v
           /\ Low(0, width) = 0
           /\ Low(-1, width) = 256^width - 1
<1> DEFINE p == 256^width
<1>1. p \in Nat \ {0}
  BY PowersOf256, WidthAssumption
<1>2. \A v \in Unsigned(width) : v \in Int /\ 0 <= v /\ v < p
  BY DEF Unsigned
<1> HIDE DEF p
<1>3. \A v \in Int : 0 <= v /\ v < p => v % p = v
  BY <1>1, Within
<1>4. \A v \in Int : v < 0 /\ -p <= v => v % p = v + p
  BY <1>1, Within
<1>5. /\ 0 <= 0 /\ 0 < p /\ -1 < 0 /\ -p <= -1 /\ -1 \in Int /\ 0 \in Int
      /\ -1 + p = p - 1
  BY <1>1
<1>6. 0 % p = 0
  BY <1>3, <1>5
<1>7. (-1) % p = p - 1
  BY <1>4, <1>5
<1> QED
  BY <1>1, <1>2, <1>3, <1>6, <1>7 DEF Low, p

\* What encode_integer_bytes leaves: the bytes from the m-th, those before it
\* being copies of the sign that it still shows.
LEMMA IntegerBytesIs ==
    ASSUME NEW v \in Signed(U64Bytes)
    PROVE  \E m \in 1..U64Bytes :
              /\ IntegerBytes(v) = SubSeq(BeBytes(v, U64Bytes), m, U64Bytes)
              /\ BeBytes(v, U64Bytes)[m] >= 128 <=> v < 0
              /\ Above(v, U64Bytes - m + 1) = IF v < 0 THEN -1 ELSE 0
<1> DEFINE b == BeBytes(v, U64Bytes)
           sign == IF v < 0 THEN -1 ELSE 0
           redundant == {j \in 1..(U64Bytes - 1) :
                           IF v < 0 THEN b[j] = 255 /\ b[j + 1] >= 128
                           ELSE b[j] = 0 /\ b[j + 1] < 128}
<1>1. U64Bytes \in 0..U64Bytes /\ U64Bytes \in Nat \ {0} /\ v \in Int
  BY WidthAssumption DEF Signed
<1>2. b \in Seq(Byte) /\ Len(b) = U64Bytes
  BY <1>1, BeBytesAre
<1>3. IntegerBytes(v) = Stripped(b, redundant)
  BY DEF IntegerBytes
<1>4. (b[1] >= 128 <=> v < 0) /\ Above(v, U64Bytes) = sign
  BY SignByte
<1>5. (v < 0 <=> sign = -1) /\ sign \in {0, -1} /\ sign % 256 = IF v < 0 THEN 255 ELSE 0
  OBVIOUS
<1> HIDE DEF b, sign
<1>6. \A j \in redundant : b[j] = sign % 256 /\ (b[j + 1] >= 128 <=> v < 0)
  <2> TAKE j \in redundant
  <2>1. b[j + 1] \in Byte
    BY <1>1, <1>2
  <2> QED
    BY <1>5, <2>1 DEF Byte
<1> HIDE DEF redundant
<1>7. PICK m \in 1..Len(b) : /\ Stripped(b, redundant) = SubSeq(b, m, Len(b))
                             /\ \A i \in 1..(m - 1) : i \in redundant
  <2>1. b # <<>>
    BY <1>1, <1>2
  <2> QED
    BY <1>2, <2>1, StrippedIs
<1>8. b[m] >= 128 <=> v < 0
  <2>1. CASE m = 1
    BY <1>4, <2>1
  <2>2. CASE m # 1
    <3>1. m - 1 \in redundant /\ (m - 1) + 1 = m
      BY <1>1, <1>2, <1>7, <2>2
    <3> QED
      BY <1>6, <3>1
  <2> QED
    BY <2>1, <2>2
<1>9. Above(v, U64Bytes - m + 1) = sign
  <2>1. \A i \in 1..(m - 1) : b[i] = sign % 256
    BY <1>6, <1>7
  <2>2. m \in 1..U64Bytes /\ sign \in {0, -1} /\ v \in Int
    BY <1>1, <1>2, <1>5
  <2>3. /\ Above(v, U64Bytes) = sign
        /\ \A i \in 1..(m - 1) : BeBytes(v, U64Bytes)[i] = sign % 256
    BY <1>4, <2>1 DEF b
  <2> QED
    BY <2>2, <2>3, LeadingBytes
<1> QED
  BY <1>2, <1>3, <1>7, <1>8, <1>9 DEF b, sign

\* An i64 is written in bytes that decode_integer reads it back from
\* (encode_integer_bytes and decode_integer).
THEOREM IntegerReadBack ==
    ASSUME NEW v \in Signed(U64Bytes)
    PROVE  DecodeInteger(IntegerBytes(v)) = v
<1> DEFINE b == BeBytes(v, U64Bytes)
           w == 256^U64Bytes
<1>1. PICK m \in 1..U64Bytes :
         /\ IntegerBytes(v) = SubSeq(b, m, U64Bytes)
         /\ b[m] >= 128 <=> v < 0
         /\ Above(v, U64Bytes - m + 1) = IF v < 0 THEN -1 ELSE 0
  BY IntegerBytesIs
<1> DEFINE s == SubSeq(b, m, U64Bytes)
           start == IF s[1] >= 128 THEN w - 1 ELSE 0
<1>2. v \in Int /\ U64Bytes \in 1..U64Bytes /\ w \in Nat \ {0}
  BY PowersOf256, WidthAssumption DEF Signed
<1>3. /\ s \in Seq(Byte) /\ Len(s) = U64Bytes - m + 1 /\ s[1] = b[m]
      /\ ShiftIn(Low(Above(v, U64Bytes - m + 1), U64Bytes), s, U64Bytes)
            = Low(v, U64Bytes)
  BY <1>2, SuffixShifted
<1>4. Low(Above(v, U64Bytes - m + 1), U64Bytes) = start
  <2>1. Low(-1, U64Bytes) = w - 1 /\ Low(0, U64Bytes) = 0
    BY <1>2, LowIs
  <2>2. (s[1] >= 128) <=> v < 0
    BY <1>1, <1>3
  <2> HIDE DEF w, s
  <2> QED
    BY <1>1, <2>1, <2>2
<1> HIDE DEF start
<1>5. s # <<>>
  <2>1. Len(s) # 0
    <3> HIDE DEF s
    <3> QED
      BY <1>1, <1>2, <1>3
  <2> HIDE DEF s
  <2> QED
    BY <2>1
<1>6. DecodeInteger(s) = AsSigned(ShiftIn(start, s, U64Bytes), U64Bytes)
  <2> HIDE DEF s
  <2> QED
    BY <1>5 DEF DecodeInteger, start
<1>7. AsSigned(Low(v, U64Bytes), U64Bytes) = v
  BY <1>2, AsSignedIs DEF Low
<1> QED
  BY <1>1, <1>3, <1>4, <1>6, <1>7

\* A number that is not negative is read back by decode_unsigned32 and
\* decode_unsigned64 as well, from the bytes of an i64.
LEMMA UnsignedReadBack ==
    ASSUME NEW width \in 1..U64Bytes, NEW v \in Unsigned(width),
           v \in Signed(U64Bytes)
    PROVE  DecodeUnsigned(IntegerBytes(v), width) = v
<1> DEFINE b == BeBytes(v, U64Bytes)
           w == 256^width
<1>1. PICK m \in 1..U64Bytes :
         /\ IntegerBytes(v) = SubSeq(b, m, U64Bytes)
         /\ Above(v, U64Bytes - m + 1) = IF v < 0 THEN -1 ELSE 0
  BY IntegerBytesIs
<1> DEFINE s == SubSeq(b, m, U64Bytes)
<1>2. v \in Int /\ 0 <= v /\ v < w /\ U64Bytes \in 1..U64Bytes /\ w \in Nat \ {0}
  BY PowersOf256, WidthAssumption DEF Unsigned
<1>3. ShiftIn(Low(Above(v, U64Bytes - m + 1), width), s, width) = Low(v, width)
  BY <1>2, SuffixShifted
<1>4. Above(v, U64Bytes - m + 1) = 0
  BY <1>1, <1>2
<1>5. Low(0, width) = 0 /\ Low(v, width) = v
  BY LowIs
<1> QED
  BY <1>1, <1>3, <1>4, <1>5 DEF DecodeUnsigned

\* A zero before the bytes of a number shifts nothing in.
LEMMA ZeroBefore ==
    ASSUME NEW bytes \in Seq(Byte), NEW width \in 1..U64Bytes
    PROVE  ShiftIn(0, <<0>> \o bytes, width) = ShiftIn(0, bytes, width)
<1> DEFINE top == 256^(width - 1)
           long == <<0>> \o bytes
           n == Len(bytes)
<1>1. top \in Nat \ {0}
  BY PowersOf256, WidthAssumption
<1>2. /\ long \in Seq(Byte) /\ n \in Nat /\ Len(long) = n + 1 /\ long[1] = 0
      /\ \A k \in 1..n : long[k + 1] = bytes[k]
  BY DEF Byte
<1> HIDE DEF long
<1>3. PICK f : Shifts(f, n, 0, bytes, top) /\ ShiftIn(0, bytes, width) = f[n]
  BY <1>1, ShiftInIs
<1>4. PICK g : Shifts(g, n + 1, 0, long, top) /\ ShiftIn(0, long, width) = g[n + 1]
  BY <1>1, <1>2, ShiftInIs
<1> HIDE DEF top, n
<1> DEFINE T == {k \in 0..n : f[k] # g[k + 1]}
<1>5. ASSUME T # {} PROVE FALSE
  <2>1. PICK m \in T : \A k \in T : m <= k
    <3>1. T \subseteq Nat
      BY <1>2
    <3> HIDE DEF T
    <3> QED
      BY <1>5, <3>1, Least
  <2>2. m # 0
    <3>1. 1 \in 1..(n + 1) /\ g[1] = (g[1 - 1] % top) * 256 + long[1]
      BY <1>2, <1>4 DEF Shifts
    <3>2. g[1 - 1] = 0 /\ 1 - 1 = 0 /\ f[0] = 0
      BY <1>3, <1>4 DEF Shifts
    <3>3. 0 % top = 0
      BY <1>1, Within
    <3>4. g[1] = 0
      BY <1>2, <3>1, <3>2, <3>3
    <3> QED
      BY <2>1, <3>2, <3>4
  <2>3. /\ m \in 1..n /\ m - 1 \in 0..n /\ m - 1 \notin T
        /\ m + 1 \in 1..(n + 1) /\ (m + 1) - 1 = m /\ (m - 1) + 1 = m
    BY <1>2, <2>1, <2>2
  <2>4. f[m] = (f[m - 1] % top) * 256 + bytes[m]
    BY <1>3, <2>3 DEF Shifts
  <2>5. g[m + 1] = (g[m] % top) * 256 + long[m + 1]
    BY <1>4, <2>3 DEF Shifts
  <2>6. f[m - 1] = g[m] /\ long[m + 1] = bytes[m] /\ f[m] # g[m + 1]
    BY <1>2, <2>1, <2>3
  <2> QED
    BY <2>4, <2>5, <2>6
<1>6. f[n] = g[n + 1]
  BY <1>2, <1>5
<1> QED
  BY <1>3, <1>4, <1>6 DEF long

\* A u64 is written in bytes that decode_unsigned64 reads it back from
\* (encode_unsigned64).
THEOREM Unsigned64ReadBack ==
    ASSUME NEW v \in Unsigned(U64Bytes)
    PROVE  DecodeUnsigned(Unsigned64Bytes(v), U64Bytes) = v
<1> DEFINE b == BeBytes(v, U64Bytes)
           w == 256^U64Bytes
           redundant == {j \in DOMAIN b : b[j] = 0}
<1>1. /\ U64Bytes \in 0..U64Bytes /\ U64Bytes \in 1..U64Bytes
      /\ v \in Int /\ 0 <= v /\ v < w /\ w \in Nat \ {0}
  BY PowersOf256, WidthAssumption DEF Unsigned
<1>2. b \in Seq(Byte) /\ Len(b) = U64Bytes /\ b # <<>>
  <2>1. b \in Seq(Byte) /\ Len(b) = U64Bytes
    BY <1>1, BeBytesAre
  <2> QED
    BY <1>1, <2>1
<1>3. \A j \in redundant : b[j] = 0
  OBVIOUS
<1>4. PICK m \in 1..Len(b) : /\ Stripped(b, redundant) = SubSeq(b, m, Len(b))
                             /\ \A i \in 1..(m - 1) : i \in redundant
  <2> HIDE DEF b, redundant
  <2> QED
    BY <1>2, StrippedIs
<1> DEFINE s == SubSeq(b, m, U64Bytes)
<1>5. Unsigned64Bytes(v) = IF s[1] >= 128 THEN <<0>> \o s ELSE s
  BY <1>2, <1>4 DEF Unsigned64Bytes
<1>6. Above(v, U64Bytes) = 0 /\ Low(v, U64Bytes) = v /\ Low(0, U64Bytes) = 0
  <2>1. v \div w = 0
    <3> HIDE DEF w
    <3>1. v \in Int /\ 0 <= v
      BY <1>1
    <3>2. w \in Nat \ {0} /\ v < w
      BY <1>1
    <3> QED
      BY <3>1, <3>2, Within, Zenon
  <2> QED
    BY <1>1, <2>1, LowIs DEF Above
<1>7. Above(v, U64Bytes - m + 1) = 0
  <2>1. 0 \in {0, -1} /\ 0 % 256 = 0 /\ m \in 1..U64Bytes
    BY <1>2, <1>4
  <2>2. \A i \in 1..(m - 1) : b[i] = 0 % 256
    BY <1>3, <1>4, <2>1
  <2> QED
    BY <1>1, <1>6, <2>1, <2>2, LeadingBytes
<1>8. s \in Seq(Byte) /\ ShiftIn(0, s, U64Bytes) = v
  <2>1. m \in 1..U64Bytes
    BY <1>2, <1>4
  <2>2. /\ s \in Seq(Byte)
        /\ ShiftIn(Low(Above(v, U64Bytes - m + 1), U64Bytes), s, U64Bytes)
              = Low(v, U64Bytes)
    BY <1>1, <2>1, SuffixShifted
  <2> QED
    BY <1>6, <1>7, <2>2
<1> HIDE DEF s
<1>9. ShiftIn(0, <<0>> \o s, U64Bytes) = v
  BY <1>1, <1>8, ZeroBefore
<1> QED
  BY <1>5, <1>8, <1>9 DEF DecodeUnsigned

-----------------------------------------------------------------------------
\* A TLV read back.

\* The lengths that the three bytes of the longest form can say.
Sizes == {n \in Nat : n < 256^3 /\ n < 256^U64Bytes}

\* The bytes x stand in data after its first pos.
At(data, pos, x) ==
    /\ pos + Len(x) <= Len(data)
    /\ \A i \in 1..Len(x) : data[pos + i] = x[i]

LEMMA AtParts ==
    ASSUME NEW data \in Seq(Byte), NEW pos \in Nat,
           NEW x \in Seq(Byte), NEW y \in Seq(Byte)
    PROVE  At(data, pos, x \o y) <=> At(data, pos, x) /\ At(data, pos + Len(x), y)
<1> DEFINE z == x \o y
           m == Len(x)
           n == Len(y)
           len == Len(data)
<1>1. /\ m \in Nat /\ n \in Nat /\ len \in Nat /\ Len(z) = m + n
      /\ \A i \in 1..m : z[i] = x[i]
      /\ \A i \in 1..n : z[m + i] = y[i]
  OBVIOUS
<1> HIDE DEF z, m, n, len
<1>2. ASSUME At(data, pos, z)
      PROVE  At(data, pos, x) /\ At(data, pos + m, y)
  <2>1. /\ pos + m + n <= len
        /\ \A i \in 1..(m + n) : data[pos + i] = z[i]
    BY <1>1, <1>2 DEF At, len
  <2>2. pos + m <= len /\ \A i \in 1..m : i \in 1..(m + n)
    BY <1>1, <2>1
  <2>3. \A i \in 1..n : m + i \in 1..(m + n) /\ pos + (m + i) = pos + m + i
    BY <1>1
  <2>4. \A i \in 1..m : data[pos + i] = x[i]
    BY <1>1, <2>1, <2>2
  <2>5. \A i \in 1..n : data[pos + m + i] = y[i]
    <3> TAKE i \in 1..n
    <3>1. data[pos + (m + i)] = z[m + i] /\ z[m + i] = y[i]
      BY <1>1, <2>1, <2>3
    <3> QED
      BY <2>3, <3>1
  <2> QED
    BY <2>1, <2>2, <2>4, <2>5 DEF At, m, n, len
<1>3. ASSUME At(data, pos, x), At(data, pos + m, y)
      PROVE  At(data, pos, z)
  <2>1. /\ pos + m + n <= len
        /\ \A i \in 1..m : data[pos + i] = x[i]
        /\ \A i \in 1..n : data[pos + m + i] = y[i]
    BY <1>3 DEF At, m, n, len
  <2>2. \A i \in 1..(m + n) : data[pos + i] = z[i]
    <3> TAKE i \in 1..(m + n)
    <3>1. CASE i \in 1..m
      BY <1>1, <2>1, <3>1
    <3>2. CASE i \notin 1..m
      <4> DEFINE j == i - m
      <4>1. j \in 1..n /\ i = m + j
        BY <1>1, <3>2
      <4> HIDE DEF j
      <4>2. data[pos + m + j] = y[j] /\ z[m + j] = y[j] /\ pos + m + j = pos + i
        BY <1>1, <2>1, <4>1
      <4> QED
        BY <4>1, <4>2
    <3> QED
      BY <3>1, <3>2
  <2> QED
    BY <1>1, <2>1, <2>2 DEF At, len
<1> QED
  BY <1>2, <1>3 DEF z, m

LEMMA AtIs ==
    ASSUME NEW data \in Seq(Byte), NEW pos \in Nat, NEW x \in Seq(Byte),
           At(data, pos, x)
    PROVE  SubSeq(data, pos + 1, pos + Len(x)) = x
<1> DEFINE n == Len(x)
           s == SubSeq(data, pos + 1, pos + n)
<1>1. /\ n \in Nat /\ Len(data) \in Nat /\ pos + n <= Len(data)
      /\ \A i \in 1..n : data[pos + i] = x[i]
  BY DEF At
<1>2. \A i \in (pos + 1)..(pos + n) : data[i] \in Byte
  BY <1>1
<1> HIDE DEF n
<1>3. pos + 1 \in Int /\ pos + n \in Int /\ (pos + n) - (pos + 1) + 1 = n
  BY <1>1
<1>4. /\ s \in Seq(Byte)
      /\ Len(s) = IF pos + 1 <= pos + n THEN (pos + n) - (pos + 1) + 1 ELSE 0
      /\ \A i \in 1..((pos + n) - (pos + 1) + 1) : s[i] = data[(pos + 1) + i - 1]
  BY <1>2, <1>3, SubSeqProperties
<1> HIDE DEF s
<1>5. Len(s) = n /\ \A i \in 1..n : s[i] = data[pos + i]
  <2>1. pos + 1 <= pos + n \/ n = 0
    BY <1>1
  <2>2. Len(s) = n
    BY <1>1, <1>3, <1>4, <2>1
  <2>3. ASSUME NEW i \in 1..n PROVE s[i] = data[pos + i]
    <3>1. i \in 1..((pos + n) - (pos + 1) + 1) /\ (pos + 1) + i - 1 = pos + i
      BY <1>1
    <3> QED
      BY <1>4, <3>1, Zenon
  <2> QED
    BY <2>2, <2>3
<1>6. s = x
  BY <1>1, <1>4, <1>5 DEF n
<1> QED
  BY <1>6 DEF s, n

\* The bytes of a length: itself, or how many bytes it has and those.
LEMMA LengthIs ==
    ASSUME NEW n \in Sizes
    PROVE  /\ Length(n) \in Seq(Byte)
           /\ \/ n < 128 /\ Length(n) = <<n>>
              \/ \E k \in 1..3 :
                    /\ Length(n) = <<128 + k>> \o BeBytes(n, k)
                    /\ BeBytes(n, k) \in Seq(Byte) /\ Len(BeBytes(n, k)) = k
                    /\ DecodeUnsigned(BeBytes(n, k), U64Bytes) = n
<1>1. n \in Nat /\ n < 256^3 /\ n < 256^U64Bytes
  BY DEF Sizes
<1>2. ASSUME NEW k \in 1..3, k <= U64Bytes, n < 256^k,
             Length(n) = <<128 + k>> \o BeBytes(n, k)
      PROVE  /\ Length(n) \in Seq(Byte)
             /\ BeBytes(n, k) \in Seq(Byte) /\ Len(BeBytes(n, k)) = k
             /\ DecodeUnsigned(BeBytes(n, k), U64Bytes) = n
  <2> DEFINE b == BeBytes(n, k)
  <2>1. k \in 0..U64Bytes /\ U64Bytes \in 1..U64Bytes /\ n \in Int
    BY <1>1, <1>2, WidthAssumption
  <2>2. b \in Seq(Byte) /\ Len(b) = k /\ \A i \in 1..k : b[i] = ByteAt(n, k - i)
    BY <2>1, BeBytesAre
  <2> HIDE DEF b
  <2>3. ShiftIn(Low(Above(n, k), U64Bytes), b, U64Bytes) = Low(n, U64Bytes)
    BY <1>2, <2>1, <2>2, Shifted
  <2>4. Low(n, U64Bytes) = n /\ Low(0, U64Bytes) = 0
    BY <1>1, <2>1, LowIs DEF Unsigned
  <2>5. Above(n, k) = 0
    <3> DEFINE p == 256^k
    <3>1. p \in Nat \ {0} /\ n < p
      BY <1>2, <2>1, PowersOf256
    <3> HIDE DEF p
    <3>2. p \in Nat \ {0}
      BY <3>1
    <3>3. n \in Int /\ 0 <= n /\ n < p
      BY <1>1, <3>1
    <3> QED
      BY <3>2, <3>3, Within, Zenon DEF Above, p
  <2>6. ShiftIn(0, b, U64Bytes) = n
    BY <2>3, <2>4, <2>5
  <2>7. <<128 + k>> \in Seq(Byte)
    BY DEF Byte
  <2> QED
    BY <1>2, <2>2, <2>6, <2>7 DEF b, DecodeUnsigned
<1>3. CASE n < 128
  <2>1. Length(n) = <<n>>
    BY <1>3, Zenon DEF Length
  <2> QED
    BY <1>1, <1>3, <2>1 DEF Byte
<1>4. CASE ~(n < 128)
  <2> DEFINE S == {j \in 1..3 : j = 3 \/ n < 256^j}
             k == Min(S)
  <2>1. k \in S /\ \A j \in S : k <= j
    <3>1. S \in SUBSET Nat /\ S # {}
      <4>1. 3 \in S
        OBVIOUS
      <4> QED
        BY <4>1
    <3> HIDE DEF S
    <3> QED
      BY <3>1, MinIs
  <2>2. k \in 1..3 /\ n < 256^k
    <3>1. k \in 1..3 /\ (k = 3 \/ n < 256^k)
      BY <2>1
    <3> HIDE DEF k
    <3> QED
      BY <1>1, <3>1
  <2>3. k <= U64Bytes
    <3>1. CASE U64Bytes \in 1..3
      <4>1. U64Bytes \in S
        BY <1>1, <3>1
      <4> QED
        BY <2>1, <4>1
    <3>2. CASE U64Bytes \notin 1..3
      <4> HIDE DEF k
      <4> QED
        BY <2>2, <3>2, WidthAssumption
    <3> QED
      BY <3>1, <3>2
  <2>4. Length(n) = <<128 + k>> \o BeBytes(n, k)
    BY <1>4 DEF Length
  <2> HIDE DEF k
  <2> QED
    BY <1>2, <2>2, <2>3, <2>4
<1> QED
  BY <1>3, <1>4

\* read_length gives back what encode_length wrote.
LEMMA LengthReadBack ==
    ASSUME NEW n \in Sizes,
           NEW data \in Seq(Byte), NEW pos \in Nat, At(data, pos, Length(n))
    PROVE  ReadLength(data, pos) =
             [status |-> "ok", len |-> n, pos |-> pos + Len(Length(n))]
<1>1. Len(data) \in Nat /\ n \in Nat
  BY DEF Sizes
<1>2. CASE n < 128 /\ Length(n) = <<n>>
  <2>1. pos + 1 <= Len(data) /\ data[pos + 1] = n /\ Len(Length(n)) = 1
    BY <1>2 DEF At
  <2>2. ~(pos >= Len(data))
    BY <1>1, <2>1
  <2> QED
    BY <1>2, <2>1, <2>2 DEF ReadLength
<1>3. ASSUME NEW k \in 1..3, Length(n) = <<128 + k>> \o BeBytes(n, k),
             BeBytes(n, k) \in Seq(Byte), Len(BeBytes(n, k)) = k,
             DecodeUnsigned(BeBytes(n, k), U64Bytes) = n
      PROVE  ReadLength(data, pos) =
               [status |-> "ok", len |-> n, pos |-> pos + Len(Length(n))]
  <2> DEFINE b == BeBytes(n, k)
             first == <<128 + k>>
             end == pos + 1 + ((128 + k) - 128)
  <2>1. first \in Seq(Byte) /\ Len(first) = 1 /\ first[1] = 128 + k
    BY DEF Byte
  <2>2. b \in Seq(Byte) /\ Len(b) = k /\ Length(n) = first \o b
    BY <1>3
  <2> HIDE DEF b, first
  <2>3. At(data, pos, first) /\ At(data, pos + 1, b)
    <3>1. At(data, pos, first \o b)
      BY <2>2
    <3>2. At(data, pos, first) /\ At(data, pos + Len(first), b)
      BY <2>1, <2>2, <3>1, AtParts, Zenon
    <3> QED
      BY <2>1, <3>2
  <2>4. data[pos + 1] = 128 + k /\ pos + 1 <= Len(data)
    BY <2>1, <2>3 DEF At
  <2>5. SubSeq(data, pos + 2, end) = b
    <3>1. SubSeq(data, (pos + 1) + 1, (pos + 1) + Len(b)) = b
      BY <2>2, <2>3, AtIs
    <3>2. (pos + 1) + 1 = pos + 2 /\ (pos + 1) + k = end
      OBVIOUS
    <3> QED
      BY <2>2, <3>1, <3>2
  <2>6. end <= Len(data) /\ end = pos + Len(Length(n))
    <3>1. pos + 1 + k <= Len(data)
      BY <2>2, <2>3 DEF At
    <3>2. Len(Length(n)) = 1 + k
      <4>1. Len(first \o b) = Len(first) + Len(b)
        <5>1. \A x, y \in Seq(Byte) : Len(x \o y) = Len(x) + Len(y)
          OBVIOUS
        <5> QED
          BY <2>1, <2>2, <5>1
      <4> QED
        BY <2>1, <2>2, <4>1
    <3> QED
      BY <3>1, <3>2
  <2>7. DecodeUnsigned(SubSeq(data, pos + 2, end), U64Bytes) = n
    BY <1>3, <2>5 DEF b
  <2>8. ~(pos >= Len(data)) /\ ~(128 + k < 128) /\ ~(end > Len(data)) /\ end \in Nat
    BY <1>1, <2>4, <2>6
  <2> DEFINE c == 128 + k
             e == end
             len == DecodeUnsigned(SubSeq(data, pos + 2, end), U64Bytes)
  <2>9. e = pos + 1 + (c - 128)
    OBVIOUS
  <2>10. data[pos + 1] = c /\ ~(c < 128) /\ ~(e > Len(data)) /\ ~(pos >= Len(data))
    BY <2>4, <2>8
  <2> HIDE DEF c
  <2>11. ReadLength(data, pos) = [status |-> "ok", len |-> len, pos |-> e]
    BY <2>9, <2>10 DEF ReadLength
  <2> QED
    BY <2>6, <2>7, <2>11
<1> QED
  BY <1>2, <1>3, LengthIs

\* The bytes of a TLV.
LEMMA TlvIs ==
    ASSUME NEW tag \in Byte, NEW content \in Seq(Byte), Len(content) \in Sizes
    PROVE  /\ Length(Len(content)) \in Seq(Byte)
           /\ <<tag>> \o Length(Len(content)) \in Seq(Byte)
           /\ Tlv(tag, content) \in Seq(Byte)
           /\ Tlv(tag, content) = (<<tag>> \o Length(Len(content))) \o content
           /\ Len(Tlv(tag, content)) =
                1 + Len(Length(Len(content))) + Len(content)
           /\ Len(Length(Len(content))) \in Nat /\ Len(content) \in Nat
<1> DEFINE l == Length(Len(content))
<1>1. l \in Seq(Byte)
  BY LengthIs
<1>2. Tlv(tag, content) = (<<tag>> \o l) \o content
  BY <1>1 DEF Tlv
<1> HIDE DEF l
<1>3. /\ <<tag>> \o l \in Seq(Byte) /\ Len(<<tag>> \o l) = 1 + Len(l)
      /\ Len(l) \in Nat /\ Len(content) \in Nat
  BY <1>1
<1> DEFINE h == <<tag>> \o l
<1> HIDE DEF h
<1>4. h \o content \in Seq(Byte) /\ Len(h \o content) = Len(h) + Len(content)
  BY <1>3 DEF h
<1> QED
  BY <1>1, <1>2, <1>3, <1>4 DEF h, l

\* read_tlv gives back the tag and the contents that encode_tlv wrote, the
\* whole of what it wrote, and the position after it.
THEOREM TlvReadBack ==
    ASSUME NEW tag \in Byte, NEW content \in Seq(Byte), Len(content) \in Sizes,
           NEW data \in Seq(Byte), Len(data) < 256^U64Bytes,
           NEW pos \in Nat, At(data, pos, Tlv(tag, content))
    PROVE  ReadTlv(data, pos) =
             [status |-> "ok", tag |-> tag, value |-> content,
              pos |-> pos + Len(Tlv(tag, content)), full |-> Tlv(tag, content)]
<1> DEFINE n == Len(content)
           l == Length(n)
           whole == Tlv(tag, content)
           from == pos + 1 + Len(l)
           end == pos + Len(whole)
<1>1. /\ l \in Seq(Byte) /\ <<tag>> \o l \in Seq(Byte) /\ whole \in Seq(Byte)
      /\ whole = (<<tag>> \o l) \o content /\ Len(whole) = 1 + Len(l) + n
      /\ Len(l) \in Nat /\ n \in Nat /\ n \in Sizes
  BY TlvIs
<1> HIDE DEF n
<1> HIDE DEF l, whole
<1>2. <<tag>> \in Seq(Byte) /\ Len(<<tag>>) = 1 /\ Len(<<tag>> \o l) = 1 + Len(l)
  BY <1>1
<1>3. At(data, pos, <<tag>> \o l) /\ At(data, pos + (1 + Len(l)), content)
  <2> DEFINE h == <<tag>> \o l
  <2> HIDE DEF h
  <2>1. h \in Seq(Byte) /\ Len(h) = 1 + Len(l) /\ At(data, pos, h \o content)
    BY <1>1, <1>2 DEF h, whole
  <2>2. At(data, pos, h) /\ At(data, pos + Len(h), content)
    BY <2>1, AtParts, Zenon
  <2> QED
    BY <2>1, <2>2 DEF h
<1>4. At(data, pos, <<tag>>) /\ At(data, pos + 1, l)
  <2> DEFINE t == <<tag>>
  <2> HIDE DEF t
  <2>1. t \in Seq(Byte) /\ Len(t) = 1 /\ At(data, pos, t \o l)
    BY <1>2, <1>3 DEF t
  <2>2. At(data, pos, t) /\ At(data, pos + Len(t), l)
    BY <1>1, <2>1, AtParts, Zenon
  <2> QED
    BY <2>1, <2>2 DEF t
<1>5. /\ from \in Nat /\ end = from + n /\ end \in Nat /\ end <= Len(data)
      /\ Len(data) \in Nat /\ pos + 1 <= Len(data) /\ data[pos + 1] = tag
  <2>1. pos + Len(whole) <= Len(data)
    BY DEF At, whole
  <2>2. pos + 1 <= Len(data) /\ data[pos + 1] = tag
    BY <1>2, <1>4 DEF At
  <2>3. Len(data) \in Nat
    OBVIOUS
  <2> DEFINE a == Len(l)
             b == Len(whole)
             d == Len(data)
  <2>4. a \in Nat /\ n \in Nat /\ b = 1 + a + n /\ d \in Nat /\ pos + b <= d
    BY <1>1, <2>1, <2>3
  <2> HIDE DEF a, b, d
  <2>5. pos + 1 + a \in Nat /\ pos + b = pos + 1 + a + n /\ pos + b \in Nat /\ pos + b <= d
    BY <2>4
  <2> QED
    BY <2>2, <2>3, <2>5 DEF a, b, d
<1>6. ReadLength(data, pos + 1) = [status |-> "ok", len |-> n, pos |-> from]
  BY <1>1, <1>4, LengthReadBack DEF l
<1>7. SubSeq(data, from + 1, end) = content
  <2>1. from = pos + (1 + Len(l))
    BY <1>1
  <2> HIDE DEF from, end
  <2>2. SubSeq(data, from + 1, from + Len(content)) = content
    BY <1>3, <1>5, <2>1, AtIs
  <2> QED
    BY <1>5, <2>2 DEF n
<1>8. SubSeq(data, pos + 1, end) = whole
  BY <1>1, AtIs DEF whole
<1>9. ReadRaw(data, from, n) = [status |-> "ok", value |-> content, pos |-> end]
  <2> HIDE DEF from, end
  <2>1. ~(from + n >= 256^U64Bytes) /\ ~(from + n > Len(data))
    <3>1. 256^U64Bytes \in Nat
      BY PowersGrow
    <3> QED
      BY <1>5, <3>1
  <2> QED
    BY <1>5, <1>7, <2>1 DEF ReadRaw
<1>10. ~(pos >= Len(data))
  BY <1>5
<1> HIDE DEF from, end
<1>11. ReadTlv(data, pos) = [status |-> "ok", tag |-> data[pos + 1], value |-> content,
                             pos |-> end, full |-> SubSeq(data, pos + 1, end)]
  <2> DEFINE length == ReadLength(data, pos + 1)
             raw == ReadRaw(data, length.pos, length.len)
  <2>1. length.status = "ok" /\ length.len = n /\ length.pos = from
    BY <1>6
  <2> HIDE DEF length
  <2>2. raw.status = "ok" /\ raw.value = content /\ raw.pos = end
    BY <1>9, <2>1
  <2> HIDE DEF raw
  <2> QED
    BY <1>10, <2>1, <2>2 DEF ReadTlv, length, raw
<1> QED
  BY <1>5, <1>8, <1>11 DEF end, whole

-----------------------------------------------------------------------------
\* Loops over a sequence.

\* What a loop has made of first after each of its n rounds.
Loops(f, n, first, step, X) ==
    /\ f \in [1..n -> X]
    /\ f[1] = first
    /\ \A k \in 2..n : f[k] = step[<<k, f[k - 1]>>]

LEMMA LoopExists ==
    ASSUME NEW X, NEW n \in Nat \ {0}, NEW first \in X,
           NEW step, step \in [(2..n) \X X -> X]
    PROVE  \E f : Loops(f, n, first, step, X)
<1> DEFINE Built(m) == \E f \in [1..m -> X] :
                          /\ f[1] = first
                          /\ \A k \in 2..m : f[k] = step[<<k, f[k - 1]>>]
           T == {m \in 1..n : ~Built(m)}
<1>1. Built(1)
  <2> DEFINE f == [k \in 1..1 |-> first]
  <2>1. f \in [1..1 -> X] /\ f[1] = first /\ \A k \in 2..1 : FALSE
    OBVIOUS
  <2> HIDE DEF f
  <2>2. \A k \in 2..1 : f[k] = step[<<k, f[k - 1]>>]
    BY <2>1
  <2> QED
    BY <2>1, <2>2
<1>2. ASSUME NEW m \in 2..n, Built(m - 1)
      PROVE  Built(m)
  <2>1. PICK g \in [1..(m - 1) -> X] :
           g[1] = first /\ \A k \in 2..(m - 1) : g[k] = step[<<k, g[k - 1]>>]
    BY <1>2
  <2>2. m \in Nat /\ m - 1 \in 1..(m - 1) /\ 1 \in 1..(m - 1)
    OBVIOUS
  <2> DEFINE last == step[<<m, g[m - 1]>>]
             f == [k \in 1..m |-> IF k = m THEN last ELSE g[k]]
  <2>3. last \in X
    BY <2>1, <2>2
  <2>4. f \in [1..m -> X] /\ f[m] = last /\ \A k \in 1..(m - 1) : f[k] = g[k]
    BY <2>1, <2>2, <2>3
  <2>5. \A k \in 2..m : k = m \/ (k \in 2..(m - 1) /\ k \in 1..(m - 1) /\ k - 1 \in 1..(m - 1))
    BY <2>2
  <2> HIDE DEF f
  <2>6. ASSUME NEW k \in 2..m PROVE f[k] = step[<<k, f[k - 1]>>]
    <3>1. CASE k = m
      BY <2>2, <2>4, <3>1
    <3>2. CASE k # m
      BY <2>1, <2>4, <2>5, <3>2
    <3> QED
      BY <3>1, <3>2
  <2>7. f[1] = first
    BY <2>1, <2>2, <2>4
  <2> QED
    BY <2>4, <2>6, <2>7
<1> HIDE DEF Built
<1>3. ASSUME T # {} PROVE FALSE
  <2>1. PICK m \in T : \A k \in T : m <= k
    <3>1. T \subseteq Nat
      OBVIOUS
    <3> HIDE DEF T
    <3> QED
      BY <1>3, <3>1, Least
  <2>2. m \in 2..n /\ m - 1 \in 1..n /\ m - 1 \notin T
    BY <1>1, <2>1
  <2> QED
    BY <1>2, <2>1, <2>2
<1>4. Built(n)
  BY <1>3
<1> QED
  BY <1>4 DEF Built, Loops

\* The sequences up to each, one after another.
Flattens(f, seqs, S) ==
    /\ f \in [0..Len(seqs) -> Seq(S)]
    /\ f[0] = <<>>
    /\ \A i \in 1..Len(seqs) : f[i] = f[i - 1] \o seqs[i]

LEMMA FlattenIs ==
    ASSUME NEW S, NEW seqs \in Seq(Seq(S))
    PROVE  \E f : Flattens(f, seqs, S) /\ FlattenSeq(seqs) = f[Len(seqs)]
<1> DEFINE n == Len(seqs)
<1>1. n \in Nat /\ \A i \in 1..n : seqs[i] \in Seq(S)
  OBVIOUS
<1>2. CASE n = 0
  <2> DEFINE f == [i \in 0..0 |-> <<>>]
  <2>1. FlattenSeq(seqs) = <<>> /\ seqs = <<>>
    BY <1>2 DEF FlattenSeq
  <2>2. f \in [0..0 -> Seq(S)] /\ f[0] = <<>>
    OBVIOUS
  <2> HIDE DEF f
  <2> QED
    BY <1>2, <2>1, <2>2 DEF Flattens
<1>3. CASE n # 0
  <2> DEFINE step == [p \in (2..n) \X Seq(S) |-> p[2] \o seqs[p[1]]]
             Loop(h) == h = [i \in 1..n |-> IF i = 1 THEN seqs[i]
                                            ELSE h[i - 1] \o seqs[i]]
             g == CHOOSE h : Loop(h)
  <2>1. FlattenSeq(seqs) = g[n]
    BY <1>3 DEF FlattenSeq
  <2>2. step \in [(2..n) \X Seq(S) -> Seq(S)]
    <3> SUFFICES ASSUME NEW p \in (2..n) \X Seq(S)
                 PROVE  p[2] \o seqs[p[1]] \in Seq(S)
      OBVIOUS
    <3>1. p[2] \in Seq(S) /\ p[1] \in 1..n
      BY <1>1
    <3> QED
      BY <1>1, <3>1
  <2>3. \A k \in 2..n : \A x \in Seq(S) : step[<<k, x>>] = x \o seqs[k]
    OBVIOUS
  <2> HIDE DEF step
  <2>4. n \in Nat \ {0} /\ seqs[1] \in Seq(S)
    BY <1>1, <1>3
  <2> HIDE DEF n
  <2>5. PICK f \in [1..n -> Seq(S)] :
           f[1] = seqs[1] /\ \A k \in 2..n : f[k] = step[<<k, f[k - 1]>>]
    <3> DEFINE X == Seq(S)
               x == seqs[1]
    <3>1. step \in [(2..n) \X X -> X]
      BY <2>2
    <3>a. x \in X
      BY <2>4
    <3>b. n \in Nat \ {0}
      BY <2>4
    <3> HIDE DEF X, x
    <3>2. \E f : Loops(f, n, x, step, X)
      BY <3>1, <3>a, <3>b, LoopExists
    <3> QED
      BY <3>2 DEF X, x, Loops
  <2>6. \A k \in 2..n : k - 1 \in 1..n /\ k \in 1..n
    BY <2>4
  <2>7. \A k \in 2..n : f[k] = f[k - 1] \o seqs[k]
    BY <2>3, <2>5, <2>6
  <2>8. Loop(f)
    <3>1. \A k \in 1..n : f[k] = IF k = 1 THEN seqs[k] ELSE f[k - 1] \o seqs[k]
      <4> TAKE k \in 1..n
      <4>1. k = 1 \/ k \in 2..n
        BY <2>4
      <4> QED
        BY <2>5, <2>7, <4>1
    <3>2. f = [k \in 1..n |-> f[k]]
      BY <2>5
    <3> QED
      BY <3>1, <3>2, Zenon
  <2>9. Loop(g)
    BY <2>8
  <2> HIDE DEF g
  <2>10. \A k \in 1..n : g[k] = f[k]
    <3> DEFINE T == {k \in 1..n : g[k] # f[k]}
    <3>1. SUFFICES ASSUME T # {} PROVE FALSE
      OBVIOUS
    <3>2. PICK m \in T : \A k \in T : m <= k
      <4>1. T \subseteq Nat
        BY <2>4
      <4> HIDE DEF T
      <4> QED
        BY <3>1, <4>1, Least
    <3>3. 1 \in 1..n /\ g[1] = seqs[1]
      BY <2>4, <2>9
    <3>4. m \in 2..n /\ m - 1 \in 1..n /\ m - 1 \notin T
      BY <2>4, <2>5, <3>2, <3>3
    <3>5. g[m] = g[m - 1] \o seqs[m]
      <4>1. \A k \in 1..n : g[k] = IF k = 1 THEN seqs[k] ELSE g[k - 1] \o seqs[k]
        BY <2>9, Zenon
      <4>2. m \in 1..n /\ m # 1
        BY <3>4
      <4> QED
        BY <4>1, <4>2, Zenon
    <3> QED
      BY <2>7, <3>2, <3>4, <3>5
  <2> DEFINE h == [i \in 0..n |-> IF i = 0 THEN <<>> ELSE f[i]]
  <2>11. h \in [0..n -> Seq(S)] /\ h[0] = <<>> /\ \A i \in 1..n : h[i] = f[i]
    <3>1. <<>> \in Seq(S) /\ 0 \in 0..n /\ \A i \in 1..n : i \in 0..n /\ i # 0
      BY <2>4
    <3>2. \A i \in 0..n : i = 0 \/ i \in 1..n
      BY <2>4
    <3> QED
      BY <2>5, <3>1, <3>2
  <2> HIDE DEF h
  <2>12. \A i \in 1..n : h[i] = h[i - 1] \o seqs[i]
    <3> TAKE i \in 1..n
    <3>1. CASE i = 1
      <4>1. seqs[1] \in Seq(S)
        BY <2>4
      <4>2. <<>> \o seqs[1] = seqs[1]
        BY <4>1
      <4>3. h[1] = seqs[1] /\ h[1 - 1] = <<>>
        BY <2>4, <2>5, <2>11
      <4> QED
        BY <3>1, <4>2, <4>3
    <3>2. CASE i # 1
      <4>1. i \in 2..n /\ i - 1 \in 1..n
        BY <2>4, <3>2
      <4> QED
        BY <2>7, <2>11, <4>1
    <3> QED
      BY <3>1, <3>2
  <2>13. h[n] = g[n]
    BY <2>4, <2>10, <2>11, SMTT(60)
  <2> QED
    BY <2>1, <2>11, <2>12, <2>13 DEF Flattens, n
<1> QED
  BY <1>2, <1>3

\* Each of the sequences stands where those before it end.
PartsStand(data, pos, f, seqs) ==
    /\ \A i \in 0..Len(seqs) : At(data, pos, f[i]) /\ Len(f[i]) \in Nat
    /\ \A i \in 1..Len(seqs) : /\ At(data, pos + Len(f[i - 1]), seqs[i])
                               /\ Len(f[i]) = Len(f[i - 1]) + Len(seqs[i])

LEMMA PartsAt ==
    ASSUME NEW data \in Seq(Byte), NEW pos \in Nat, NEW seqs \in Seq(Seq(Byte)),
           NEW f, Flattens(f, seqs, Byte), At(data, pos, f[Len(seqs)])
    PROVE  PartsStand(data, pos, f, seqs)
<1> DEFINE n == Len(seqs)
           T == {k \in 0..n : ~At(data, pos, f[n - k])}
<1>1. /\ n \in Nat /\ \A i \in 1..n : seqs[i] \in Seq(Byte)
      /\ \A i \in 0..n : f[i] \in Seq(Byte)
      /\ \A i \in 1..n : f[i] = f[i - 1] \o seqs[i] /\ i - 1 \in 0..n /\ i \in 0..n
  BY DEF Flattens
<1> HIDE DEF n
<1>2. ASSUME NEW i \in 1..n, At(data, pos, f[i])
      PROVE  At(data, pos, f[i - 1]) /\ At(data, pos + Len(f[i - 1]), seqs[i])
  <2> DEFINE x == f[i - 1]
             y == seqs[i]
  <2>1. x \in Seq(Byte) /\ y \in Seq(Byte) /\ At(data, pos, x \o y)
    BY <1>1, <1>2
  <2> HIDE DEF x, y
  <2>2. At(data, pos, x) /\ At(data, pos + Len(x), y)
    BY <2>1, AtParts, Zenon
  <2> QED
    BY <2>2 DEF x, y
<1>3. ASSUME T # {} PROVE FALSE
  <2>1. PICK m \in T : \A k \in T : m <= k
    <3>1. T \subseteq Nat
      BY <1>1
    <3> HIDE DEF T
    <3> QED
      BY <1>3, <3>1, Least
  <2>2. m # 0
    <3>1. n - 0 = n
      BY <1>1
    <3> QED
      BY <2>1, <3>1 DEF n
  <2>3. /\ m \in 1..n /\ m - 1 \in 0..n /\ n - (m - 1) \in 1..n
        /\ (n - (m - 1)) - 1 = n - m
    BY <1>1, <2>1, <2>2
  <2>4. At(data, pos, f[n - (m - 1)])
    <3>1. m - 1 \notin T
      <4> HIDE DEF T
      <4> QED
        BY <2>1, <2>3
    <3> QED
      BY <2>3, <3>1
  <2>5. At(data, pos, f[n - m])
    BY <1>2, <2>3, <2>4
  <2> QED
    BY <2>1, <2>5
<1>4. \A i \in 0..n : At(data, pos, f[i]) /\ Len(f[i]) \in Nat
  <2> TAKE i \in 0..n
  <2>1. n - i \in 0..n /\ n - i \notin T /\ n - (n - i) = i
    <3> HIDE DEF T
    <3> QED
      BY <1>1, <1>3
  <2>2. f[i] \in Seq(Byte)
    BY <1>1
  <2> QED
    BY <2>1, <2>2
<1>5. \A i \in 1..n : Len(f[i]) = Len(f[i - 1]) + Len(seqs[i])
  <2>1. \A x, y \in Seq(Byte) : Len(x \o y) = Len(x) + Len(y)
    OBVIOUS
  <2> QED
    BY <1>1, <2>1
<1> QED
  BY <1>1, <1>2, <1>4, <1>5 DEF n, PartsStand

-----------------------------------------------------------------------------
\* Object identifiers.

LEMMA PowersOf128 ==
    /\ 128^0 = 1
    /\ \A k \in 0..(2 * U32Bytes) : 128^k \in Nat \ {0}
    /\ \A k \in 1..(2 * U32Bytes) :
          128^k = 128 * 128^(k - 1) /\ 128^(k - 1) \in Nat \ {0}
<1>1. 128^0 = 1
  OBVIOUS
<1>2. \A k \in 1..(2 * U32Bytes) : k - 1 \in 0..(2 * U32Bytes - 1) /\ (k - 1) + 1 = k
  BY WidthAssumption
<1>3. \A k \in 1..(2 * U32Bytes) :
         128^k = 128 * 128^(k - 1) /\ 128^(k - 1) \in Nat \ {0}
  <2> TAKE k \in 1..(2 * U32Bytes)
  <2> DEFINE j == k - 1
  <2>1. j \in 0..(2 * U32Bytes - 1) /\ j + 1 = k
    BY <1>2
  <2> HIDE DEF j
  <2>2. 128^(j + 1) = 128 * 128^j /\ 128^j \in Nat \ {0}
    BY <2>1, PowerAssumption
  <2> QED
    BY <2>1, <2>2 DEF j
<1>4. \A k \in 0..(2 * U32Bytes) : 128^k \in Nat \ {0}
  <2> TAKE k \in 0..(2 * U32Bytes)
  <2>1. CASE k = 0
    BY <1>1, <2>1
  <2>2. CASE k # 0
    <3>1. k \in 1..(2 * U32Bytes)
      BY <2>2, WidthAssumption
    <3> DEFINE p == 128^(k - 1)
    <3>2. 128^k = 128 * p /\ p \in Nat \ {0}
      BY <1>3, <3>1
    <3> HIDE DEF p
    <3> QED
      BY <3>2
  <2> QED
    BY <2>1, <2>2
<1> QED
  BY <1>1, <1>3, <1>4

\* Two bytes of seven bits hold a byte of eight.
LEMMA SeptetsReach == 256^U32Bytes <= 128^(2 * U32Bytes)
<1> DEFINE T == {k \in 0..U32Bytes : ~(256^k <= 128^(2 * k))}
<1>1. U32Bytes \in Nat
  BY WidthAssumption
<1>2. ASSUME T # {} PROVE FALSE
  <2>1. PICK m \in T : \A k \in T : m <= k
    <3>1. T \subseteq Nat
      BY <1>1
    <3> HIDE DEF T
    <3> QED
      BY <1>2, <3>1, Least
  <2>2. m # 0
    <3>1. 2 * 0 = 0 /\ 256^0 = 1 /\ 128^0 = 1
      OBVIOUS
    <3>2. 256^0 <= 128^(2 * 0)
      BY <3>1
    <3> QED
      BY <2>1, <3>2
  <2> DEFINE j == 2 * m
             i == 2 * m - 1
             l == m - 1
  <2>3. /\ m \in 1..U64Bytes /\ j \in 1..(2 * U32Bytes) /\ i \in 1..(2 * U32Bytes)
        /\ j - 1 = i /\ i - 1 = 2 * l /\ l \in 0..U32Bytes /\ l \notin T
        /\ m - 1 = l /\ 2 * l \in 0..(2 * U32Bytes) /\ l \in 0..U64Bytes
    BY <1>1, <2>1, <2>2, WidthAssumption
  <2> HIDE DEF j, i
  <2>4. 128^j = 128 * 128^i /\ 128^i = 128 * 128^(2 * l)
    BY <2>3, PowersOf128
  <2>5. 256^m = 256 * 256^l
    BY <2>3, PowersOf256
  <2>6. 256^l <= 128^(2 * l) /\ 256^l \in Nat /\ 128^(2 * l) \in Nat
    BY <2>3, PowersOf128, PowersOf256
  <2> DEFINE a == 256^l
             b == 128^(2 * l)
             x == 256^m
             y == 128^j
             z == 128^i
  <2>7. a \in Nat /\ b \in Nat /\ a <= b /\ x = 256 * a /\ y = 128 * z /\ z = 128 * b
    BY <2>4, <2>5, <2>6
  <2> HIDE DEF a, b, x, y, z
  <2>8. x <= y
    BY <2>7
  <2>9. ~(x <= y)
    BY <2>1 DEF x, y, j
  <2> QED
    BY <2>8, <2>9
<1>3. U32Bytes \in 0..U32Bytes
  BY <1>1
<1> QED
  BY <1>2, <1>3

\* A sub-identifier without its last k septets.
Above7(v, k) == v \div 128^k

\* It is nothing without the n bytes it has, and each byte has the next seven
\* bits, all but the last with the mark.
LEMMA SubIdIs ==
    ASSUME NEW v \in Unsigned(U32Bytes)
    PROVE  LET n == Len(SubIdBytes(v)) IN
           /\ n \in 1..(2 * U32Bytes) /\ SubIdBytes(v) \in Seq(Byte)
           /\ Above7(v, 0) = v /\ Above7(v, n) = 0
           /\ \A k \in 0..n : Above7(v, k) \in Nat
           /\ \A i \in 1..n :
                 /\ 128 * Above7(v, n - i + 1) <= v
                 /\ Above7(v, n - i) =
                       128 * Above7(v, n - i + 1) + (Above7(v, n - i) % 128)
                 /\ SubIdBytes(v)[i] =
                       (Above7(v, n - i) % 128) + (IF i < n THEN 128 ELSE 0)
<1> DEFINE S == {k \in 1..(2 * U32Bytes) : v < 128^k}
           n == Min(S)
<1>1. v \in Nat /\ v \in Int /\ v < 256^U32Bytes
  BY DEF Unsigned
<1>2. n \in 1..(2 * U32Bytes) /\ v < 128^n
  <2>1. 2 * U32Bytes \in S
    <3>1. U32Bytes \in 0..U64Bytes /\ 2 * U32Bytes \in 1..(2 * U32Bytes)
          /\ 2 * U32Bytes \in 0..(2 * U32Bytes)
      BY WidthAssumption
    <3> DEFINE a == 256^U32Bytes
               b == 128^(2 * U32Bytes)
    <3>2. a \in Nat /\ b \in Nat /\ a <= b /\ v < a
      BY <1>1, <3>1, PowersOf128, PowersOf256, SeptetsReach
    <3> HIDE DEF a, b
    <3>3. v < b
      BY <1>1, <3>2
    <3> QED
      BY <3>1, <3>3 DEF b
  <2>2. S \in SUBSET Nat /\ S # {}
    BY <2>1
  <2>3. Min(S) \in S
    <3> HIDE DEF S
    <3> QED
      BY <2>2, MinIs
  <2> QED
    BY <2>3
<1> HIDE DEF S
<1>3. SubIdBytes(v) = [i \in 1..n |-> (Above7(v, n - i) % 128) + (IF i < n THEN 128 ELSE 0)]
  BY DEF SubIdBytes, Above7, S
<1> HIDE DEF n
<1>4. n \in Nat /\ \A k \in 0..n : 128^k \in Nat \ {0}
  BY <1>2, PowersOf128, WidthAssumption
<1>5. \A k \in 0..n : Above7(v, k) \in Nat /\ 128^k * Above7(v, k) <= v
  <2> TAKE k \in 0..n
  <2> DEFINE p == 128^k
             q == v \div p
             r == v % p
  <2>1. p \in Nat \ {0}
    BY <1>4
  <2> HIDE DEF p
  <2>2. q \in Int /\ r \in 0..(p - 1) /\ v = p * q + r
    BY <1>1, <2>1, DivIs
  <2> HIDE DEF q, r
  <2>3. q >= 0
    <3>1. q <= -1 => p * q <= -p
      BY <2>1, <2>2
    <3> DEFINE y == p * q
    <3>2. y \in Int /\ v = y + r /\ (q <= -1 => y <= -p)
      BY <2>1, <2>2, <3>1
    <3> HIDE DEF y
    <3> QED
      BY <1>1, <2>1, <2>2, <3>2
  <2>4. q \in Nat /\ p * q <= v
    <3> DEFINE y == p * q
    <3>1. y \in Int /\ v = y + r
      BY <2>1, <2>2
    <3> HIDE DEF y
    <3>2. y <= v
      BY <1>1, <2>1, <2>2, <3>1
    <3> QED
      BY <2>2, <2>3, <3>2 DEF y
  <2> QED
    BY <2>4 DEF p, q, Above7
<1>6. Above7(v, 0) = v
  <2>1. 128^0 = 1 /\ v \div 1 = v
    BY <1>1
  <2> QED
    BY <2>1 DEF Above7
<1>7. Above7(v, n) = 0
  <2> DEFINE p == 128^n
  <2>1. n \in 0..n
    BY <1>4
  <2>2. p \in Nat \ {0}
    BY <1>4, <2>1
  <2>3. v \in Int /\ 0 <= v /\ v < p
    BY <1>1, <1>2
  <2> HIDE DEF p
  <2> QED
    BY <2>2, <2>3, Within, Zenon DEF Above7, p
<1>8. ASSUME NEW i \in 1..n
      PROVE  /\ 128 * Above7(v, n - i + 1) <= v
             /\ Above7(v, n - i) =
                  128 * Above7(v, n - i + 1) + (Above7(v, n - i) % 128)
             /\ (Above7(v, n - i) % 128) \in 0..127
  <2> DEFINE base == 128
             j == n - i + 1
             p == 128^(n - i)
  <2>1. j \in 1..(2 * U32Bytes) /\ j - 1 = n - i /\ n - i \in 0..n /\ j \in 0..n
    BY <1>2, <1>4, WidthAssumption
  <2> HIDE DEF j
  <2>2. 128^j = base * p
    BY <2>1, PowersOf128
  <2>3. p \in Nat \ {0}
    BY <1>4, <2>1
  <2>4. base \in Nat \ {0} /\ base - 1 = 127
    OBVIOUS
  <2> HIDE DEF base
  <2> HIDE DEF p
  <2>5. base \in Nat \ {0}
    BY <2>4
  <2>6. /\ (v \div p) % base \in 0..(base - 1)
        /\ v \div p = base * (v \div (base * p)) + ((v \div p) % base)
    BY <1>1, <2>3, <2>5, LastDigit, Zenon
  <2>7. Above7(v, n - i) = v \div p /\ Above7(v, j) = v \div (base * p)
    BY <2>2 DEF Above7, p
  <2>8. base * Above7(v, j) <= v
    <3> DEFINE a == Above7(v, j)
               d == Above7(v, n - i)
               e == d % base
    <3>1. d = base * a + e /\ e \in 0..(base - 1)
      BY <2>6, <2>7
    <3>2. a \in Nat /\ d \in Nat /\ p * d <= v
      BY <1>5, <2>1 DEF p
    <3>3. d <= p * d
      <4> HIDE DEF d
      <4> QED
        BY <2>3, <3>2
    <3> HIDE DEF a, d, e
    <3> DEFINE y == p * d
               x == base * a
    <3>4. x \in Nat /\ y \in Nat /\ d = x + e /\ d <= y /\ y <= v
      BY <2>3, <2>4, <3>1, <3>2, <3>3
    <3> HIDE DEF x, y
    <3>5. x <= v
      BY <1>1, <2>4, <3>1, <3>2, <3>4
    <3> QED
      BY <3>5 DEF x, a
  <2> QED
    BY <2>4, <2>6, <2>7, <2>8 DEF base, j
<1>9. /\ Len(SubIdBytes(v)) = n /\ SubIdBytes(v) \in Seq(Byte)
      /\ \A i \in 1..n : SubIdBytes(v)[i] =
            (Above7(v, n - i) % 128) + (IF i < n THEN 128 ELSE 0)
  <2>1. \A i \in 1..n : (Above7(v, n - i) % 128) + (IF i < n THEN 128 ELSE 0) \in Byte
    <3> TAKE i \in 1..n
    <3> DEFINE d == Above7(v, n - i) % 128
    <3>1. d \in 0..127
      BY <1>8
    <3> HIDE DEF d
    <3>2. d + (IF i < n THEN 128 ELSE 0) \in Byte
      BY <3>1 DEF Byte
    <3> QED
      BY <3>2 DEF d
  <2> QED
    BY <1>3, <1>4, <2>1
<1>10. \A i \in 1..n : /\ 128 * Above7(v, n - i + 1) <= v
                        /\ Above7(v, n - i) =
                             128 * Above7(v, n - i + 1) + (Above7(v, n - i) % 128)
                        /\ SubIdBytes(v)[i] =
                             (Above7(v, n - i) % 128) + (IF i < n THEN 128 ELSE 0)
  BY <1>8, <1>9
<1>11. \A k \in 0..n : Above7(v, k) \in Nat
  BY <1>5
<1> QED
  BY <1>2, <1>6, <1>7, <1>9, <1>10, <1>11

\* What decode_oid's loop has read after each byte.
OidRead == [oid : Seq(Nat), sub : Nat]

OidReads(r, bytes) ==
    /\ r \in [1..Len(bytes) -> OidRead]
    /\ r[1] = [oid |-> <<bytes[1] \div 40, bytes[1] % 40>>, sub |-> 0]
    /\ \A n \in 2..Len(bytes) : r[n] = OidStep(r[n - 1], bytes[n])

\* Seven bits more than fit in 32 bits.
LEMMA SubIdRoom ==
    /\ 256^U32Bytes \div 128 \in Nat \ {0}
    /\ 256^U32Bytes = 128 * (256^U32Bytes \div 128)
<1>1. U32Bytes \in 1..U64Bytes
  BY WidthAssumption
<1> DEFINE p == 256^(U32Bytes - 1)
           h == 256^U32Bytes
<1>2. h = 256 * p /\ p \in Nat \ {0}
  BY <1>1, PowersOf256
<1> HIDE DEF p, h
<1>3. h = 128 * (2 * p) + 0 /\ 2 * p \in Nat \ {0} /\ h \in Int
  BY <1>2
<1>4. h \div 128 = 2 * p
  BY <1>3
<1> QED
  BY <1>3, <1>4 DEF h

\* A sub-identifier with seven bits more.
OidRoom == 256^U32Bytes \div 128

Joined7(s, d) == (s % OidRoom) * 128 + d

LEMMA JoinedIs ==
    ASSUME NEW s \in Nat, NEW d \in 0..127
    PROVE  Joined7(s, d) \in Nat /\ (s < OidRoom => Joined7(s, d) = s * 128 + d)
<1>1. OidRoom \in Nat \ {0}
  BY SubIdRoom DEF OidRoom
<1>2. s \in Int /\ 0 <= s
  OBVIOUS
<1> DEFINE q == s % OidRoom
<1>3. q \in 0..(OidRoom - 1)
  BY <1>1, <1>2, Within
<1>4. s < OidRoom => q = s
  BY <1>1, <1>2, Within, Zenon
<1>5. Joined7(s, d) = q * 128 + d
  BY DEF Joined7
<1> HIDE DEF q
<1>6. q \in Nat
  BY <1>1, <1>3
<1> QED
  BY <1>4, <1>5, <1>6

LEMMA OidStepIs ==
    ASSUME NEW o \in Seq(Nat), NEW s \in Nat, NEW d \in 0..127
    PROVE  /\ OidStep([oid |-> o, sub |-> s], d) =
                [oid |-> Append(o, Joined7(s, d)), sub |-> 0]
           /\ OidStep([oid |-> o, sub |-> s], d + 128) =
                [oid |-> o, sub |-> Joined7(s, d)]
<1> DEFINE read == [oid |-> o, sub |-> s]
<1>1. read.oid = o /\ read.sub = s
  OBVIOUS
<1> HIDE DEF read
<1>2. d < 128 /\ d % 128 = d
  OBVIOUS
<1>3. OidStep(read, d) = [oid |-> Append(o, Joined7(s, d)), sub |-> 0]
  BY <1>1, <1>2 DEF OidStep, Joined7, OidRoom
<1> DEFINE e == d + 128
<1>4. ~(e < 128) /\ e % 128 = d
  OBVIOUS
<1> HIDE DEF e
<1>5. OidStep(read, e) = [oid |-> o, sub |-> Joined7(s, d)]
  BY <1>1, <1>4 DEF OidStep, Joined7, OidRoom
<1> QED
  BY <1>3, <1>5 DEF read, e

LEMMA OidStepType ==
    ASSUME NEW read \in OidRead, NEW byte \in Byte
    PROVE  OidStep(read, byte) \in OidRead
<1>1. PICK o \in Seq(Nat), s \in Nat : read = [oid |-> o, sub |-> s]
  BY DEF OidRead
<1> DEFINE d == byte % 128
           x == Joined7(s, d)
<1>2. d \in 0..127 /\ (byte = d \/ byte = d + 128)
  BY DEF Byte
<1> HIDE DEF d
<1>3. x \in Nat
  BY <1>2, JoinedIs
<1>4. \/ OidStep(read, byte) = [oid |-> Append(o, x), sub |-> 0]
      \/ OidStep(read, byte) = [oid |-> o, sub |-> x]
  BY <1>1, <1>2, OidStepIs
<1> HIDE DEF x
<1>5. Append(o, x) \in Seq(Nat)
  BY <1>3
<1>6. \A a \in Seq(Nat) : \A b \in Nat : [oid |-> a, sub |-> b] \in OidRead
  BY DEF OidRead
<1> QED
  BY <1>3, <1>4, <1>5, <1>6

LEMMA DecodeOidIs ==
    ASSUME NEW bytes \in Seq(Byte), bytes # <<>>
    PROVE  \E r : OidReads(r, bytes) /\ DecodeOid(bytes) = r[Len(bytes)].oid
<1> DEFINE n == Len(bytes)
           first == [oid |-> <<bytes[1] \div 40, bytes[1] % 40>>, sub |-> 0]
           step == [p \in (2..n) \X OidRead |-> OidStep(p[2], bytes[p[1]])]
           Loop(h) == h = [k \in 1..n |->
                             IF k = 1 THEN first ELSE OidStep(h[k - 1], bytes[k])]
           g == CHOOSE h : Loop(h)
<1>1. n \in Nat \ {0} /\ \A k \in 1..n : bytes[k] \in Byte
  OBVIOUS
<1>2. DecodeOid(bytes) = g[n].oid
  BY DEF DecodeOid
<1>3. first \in OidRead
  <2> DEFINE b == bytes[1]
  <2>1. b \in 0..255
    BY <1>1 DEF Byte
  <2> HIDE DEF b
  <2>2. b \div 40 \in Nat /\ b % 40 \in Nat
    BY <2>1
  <2>3. <<bytes[1] \div 40, bytes[1] % 40>> \in Seq(Nat)
    BY <2>2 DEF b
  <2> QED
    BY <2>3 DEF OidRead
<1>4. step \in [(2..n) \X OidRead -> OidRead]
  <2> SUFFICES ASSUME NEW p \in (2..n) \X OidRead
               PROVE  OidStep(p[2], bytes[p[1]]) \in OidRead
    OBVIOUS
  <2>1. p[2] \in OidRead /\ p[1] \in 1..n
    BY <1>1
  <2> QED
    BY <1>1, <2>1, OidStepType
<1>5. \A k \in 2..n : \A x \in OidRead : step[<<k, x>>] = OidStep(x, bytes[k])
  OBVIOUS
<1> HIDE DEF step, first
<1> HIDE DEF n
<1>6. PICK f : Loops(f, n, first, step, OidRead)
  BY <1>1, <1>3, <1>4, LoopExists
<1>7. /\ f \in [1..n -> OidRead] /\ f[1] = first
      /\ \A k \in 2..n : k - 1 \in 1..n /\ k \in 1..n /\ f[k] = OidStep(f[k - 1], bytes[k])
  <2>1. \A k \in 2..n : k - 1 \in 1..n /\ k \in 1..n
    BY <1>1
  <2> QED
    BY <1>5, <1>6, <2>1 DEF Loops
<1>8. Loop(f)
  <2>1. \A k \in 1..n : f[k] = IF k = 1 THEN first ELSE OidStep(f[k - 1], bytes[k])
    <3> TAKE k \in 1..n
    <3>1. k = 1 \/ k \in 2..n
      BY <1>1
    <3> QED
      BY <1>7, <3>1
  <2>2. f = [k \in 1..n |-> f[k]]
    BY <1>7
  <2> QED
    BY <2>1, <2>2, Zenon
<1>9. Loop(g)
  BY <1>8
<1> HIDE DEF g
<1>10. \A k \in 1..n : g[k] = IF k = 1 THEN first ELSE OidStep(g[k - 1], bytes[k])
  BY <1>9, Zenon
<1>11. \A k \in 1..n : g[k] = f[k]
  <2> DEFINE T == {k \in 1..n : g[k] # f[k]}
  <2>1. SUFFICES ASSUME T # {} PROVE FALSE
    OBVIOUS
  <2>2. PICK m \in T : \A k \in T : m <= k
    <3>1. T \subseteq Nat
      BY <1>1
    <3> HIDE DEF T
    <3> QED
      BY <2>1, <3>1, Least
  <2>3. m \in 2..n /\ m - 1 \in 1..n /\ m - 1 \notin T /\ m # 1 /\ m \in 1..n
    BY <1>1, <1>7, <1>10, <2>2
  <2>4. g[m] = OidStep(g[m - 1], bytes[m])
    BY <1>10, <2>3, Zenon
  <2> QED
    BY <1>7, <2>2, <2>3, <2>4
<1>12. n \in 1..n
  BY <1>1
<1>13. DecodeOid(bytes) = f[n].oid
  BY <1>2, <1>11, <1>12
<1> QED
  BY <1>7, <1>13 DEF OidReads, n, first

\* The components o are what is read after k bytes.
ReadUpTo(r, k, o) == r[k] = [oid |-> o, sub |-> 0]

\* The loop takes the bytes of a sub-identifier for it.
LEMMA SubIdRead ==
    ASSUME NEW bytes \in Seq(Byte), NEW r, OidReads(r, bytes),
           NEW pos \in 1..Len(bytes), NEW v \in Unsigned(U32Bytes),
           At(bytes, pos, SubIdBytes(v)),
           NEW o \in Seq(Nat), ReadUpTo(r, pos, o)
    PROVE  /\ ReadUpTo(r, pos + Len(SubIdBytes(v)), Append(o, v))
           /\ bytes[pos + Len(SubIdBytes(v))] < 128
<1> DEFINE x == SubIdBytes(v)
           n == Len(x)
           room == OidRoom
           Rest(k) == Above7(v, k)
           T == {k \in 0..(n - 1) : r[pos + k] # [oid |-> o, sub |-> Rest(n - k)]}
<1> HIDE DEF Rest
<1>1. /\ n \in Nat /\ 1 <= n
      /\ Rest(0) = v /\ Rest(n) = 0
      /\ \A k \in 0..n : Rest(k) \in Nat
      /\ \A i \in 1..n :
            /\ 128 * Rest(n - i + 1) <= v
            /\ Rest(n - i) = 128 * Rest(n - i + 1) + (Rest(n - i) % 128)
            /\ x[i] = (Rest(n - i) % 128) + (IF i < n THEN 128 ELSE 0)
  BY SubIdIs DEF Rest
<1>2. pos + n <= Len(bytes) /\ \A i \in 1..n : bytes[pos + i] = x[i]
  BY DEF At
<1>3. room \in Nat \ {0} /\ v \in Nat /\ v < 128 * room
  BY SubIdRoom DEF Unsigned, OidRoom
<1>4. Len(bytes) \in Nat /\ pos \in Nat /\ 1 <= pos
  OBVIOUS
<1> HIDE DEF n
<1> HIDE DEF x, room
<1>5. ASSUME NEW k \in 1..n, r[pos + (k - 1)] = [oid |-> o, sub |-> Rest(n - (k - 1))]
      PROVE  /\ k < n => r[pos + k] = [oid |-> o, sub |-> Rest(n - k)]
             /\ k = n => /\ r[pos + k] = [oid |-> Append(o, Rest(n - k)), sub |-> 0]
                         /\ bytes[pos + k] < 128
  <2> DEFINE s == Rest(n - k + 1)
             d == Rest(n - k) % 128
  <2>1. /\ n - k + 1 \in 0..n /\ n - k \in 0..n /\ n - (k - 1) = n - k + 1
        /\ pos + k \in 2..Len(bytes) /\ (pos + k) - 1 = pos + (k - 1)
    <3>1. n \in Nat /\ pos + n <= Len(bytes)
      BY <1>1, <1>2
    <3> DEFINE l == Len(bytes)
    <3>2. l \in Nat /\ pos + n <= l
      BY <1>4, <3>1
    <3> HIDE DEF l
    <3>3. pos + k \in 2..l
      BY <1>4, <3>1, <3>2
    <3> QED
      BY <1>4, <3>1, <3>3 DEF l
  <2>2. r[pos + k] = OidStep([oid |-> o, sub |-> s], bytes[pos + k])
    BY <1>5, <2>1 DEF OidReads
  <2>3. s \in Nat /\ Rest(n - k) = 128 * s + d /\ 128 * s <= v
        /\ bytes[pos + k] = d + (IF k < n THEN 128 ELSE 0)
    <3>1. /\ 128 * s <= v
          /\ Rest(n - k) = 128 * s + d
          /\ x[k] = d + (IF k < n THEN 128 ELSE 0)
      BY <1>1, Zenon
    <3>2. s \in Nat /\ bytes[pos + k] = x[k]
      BY <1>1, <1>2, <2>1, Zenon
    <3> QED
      BY <3>1, <3>2, Zenon
  <2>4. d \in 0..127
    <3> DEFINE y == Rest(n - k)
    <3>1. y \in Nat
      BY <1>1, <2>1
    <3> HIDE DEF y
    <3>2. y % 128 \in 0..127
      BY <3>1
    <3> QED
      BY <3>2 DEF y
  <2> HIDE DEF d, s
  <2>5. s < room
    BY <1>3, <2>3
  <2>6. Joined7(s, d) = Rest(n - k)
    <3>1. Joined7(s, d) = s * 128 + d
      BY <2>3, <2>4, <2>5, JoinedIs DEF room
    <3> QED
      BY <2>3, <2>4, <3>1
  <2>7. CASE k < n
    <3>1. bytes[pos + k] = d + 128
      BY <2>3, <2>7
    <3>2. OidStep([oid |-> o, sub |-> s], d + 128) = [oid |-> o, sub |-> Joined7(s, d)]
      BY <2>3, <2>4, OidStepIs
    <3>3. k # n
      BY <2>7
    <3> QED
      BY <2>2, <2>6, <3>1, <3>2, <3>3
  <2>8. CASE k = n
    <3>1. bytes[pos + k] = d /\ d < 128
      <4>1. ~(k < n) /\ d + 0 = d /\ d < 128
        BY <1>1, <2>4, <2>8
      <4> QED
        BY <2>3, <4>1
    <3>2. OidStep([oid |-> o, sub |-> s], d) =
            [oid |-> Append(o, Joined7(s, d)), sub |-> 0]
      BY <2>3, <2>4, OidStepIs
    <3>3. ~(k < n)
      BY <1>1, <2>8
    <3> QED
      BY <2>2, <2>6, <3>1, <3>2, <3>3
  <2> QED
    BY <1>1, <2>7, <2>8
<1>6. ASSUME T # {} PROVE FALSE
  <2>1. PICK m \in T : \A k \in T : m <= k
    <3>1. T \subseteq Nat
      BY <1>1
    <3> HIDE DEF T
    <3> QED
      BY <1>6, <3>1, Least
  <2>2. m # 0
    <3>1. pos + 0 = pos /\ n - 0 = n
      BY <1>1, <1>4
    <3> QED
      BY <1>1, <2>1, <3>1 DEF ReadUpTo
  <2>3. m \in 1..n /\ m < n /\ m - 1 \in 0..(n - 1) /\ m - 1 \notin T
    <3>1. m \in 1..n /\ m < n /\ m - 1 \in 0..(n - 1) /\ T \subseteq Nat /\ ~(m <= m - 1)
      BY <1>1, <2>1, <2>2
    <3> HIDE DEF T
    <3> QED
      BY <2>1, <3>1
  <2>4. r[pos + (m - 1)] = [oid |-> o, sub |-> Rest(n - (m - 1))]
    BY <2>3
  <2>5. r[pos + m] = [oid |-> o, sub |-> Rest(n - m)]
    BY <1>5, <2>3, <2>4
  <2> QED
    BY <2>1, <2>5
<1>7. r[pos + (n - 1)] = [oid |-> o, sub |-> Rest(n - (n - 1))]
  <2>1. n - 1 \in 0..(n - 1)
    BY <1>1
  <2> QED
    BY <1>6, <2>1
<1>8. n \in 1..n /\ n - n = 0 /\ pos + n \in 1..Len(bytes)
  BY <1>1, <1>2, <1>4
<1>9. /\ r[pos + n] = [oid |-> Append(o, Rest(0)), sub |-> 0]
      /\ bytes[pos + n] < 128
  BY <1>5, <1>7, <1>8
<1> QED
  BY <1>1, <1>8, <1>9 DEF n, x, ReadUpTo

\* The first byte of an OID, and the OID that its bytes are read as.
FirstByte(oid) == (oid[1] * 40 + oid[2]) % 256

OidReadAs(oid) ==
    IF Len(oid) < 2 THEN <<>>
    ELSE [i \in 1..Len(oid) |-> IF i = 1 THEN FirstByte(oid) \div 40
                                ELSE IF i = 2 THEN FirstByte(oid) % 40
                                ELSE oid[i]]

Oid == Seq(Unsigned(U32Bytes))

\* The bytes of an OID of two components or more: one byte, and those of its
\* sub-identifiers one after another.
LEMMA OidBytesAre ==
    ASSUME NEW oid \in Oid, Len(oid) >= 2
    PROVE  LET subs == [i \in 1..(Len(oid) - 2) |-> SubIdBytes(oid[i + 2])]
           IN  /\ subs \in Seq(Seq(Byte)) /\ Len(subs) = Len(oid) - 2
               /\ \E f : /\ Flattens(f, subs, Byte)
                         /\ OidBytes(oid) = <<FirstByte(oid)>> \o f[Len(subs)]
               /\ FirstByte(oid) \in Byte
<1> DEFINE n == Len(oid)
           subs == [i \in 1..(n - 2) |-> SubIdBytes(oid[i + 2])]
<1>1. n \in Nat /\ n - 2 \in Nat /\ \A i \in 1..n : oid[i] \in Unsigned(U32Bytes)
  BY DEF Oid
<1>2. \A i \in 1..(n - 2) : SubIdBytes(oid[i + 2]) \in Seq(Byte)
  <2> TAKE i \in 1..(n - 2)
  <2>1. i + 2 \in 1..n
    BY <1>1
  <2>2. oid[i + 2] \in Unsigned(U32Bytes)
    BY <1>1, <2>1
  <2> QED
    BY <2>2, SubIdIs
<1>3. subs \in Seq(Seq(Byte)) /\ Len(subs) = n - 2
  BY <1>1, <1>2
<1>4. OidBytes(oid) = <<FirstByte(oid)>> \o FlattenSeq(subs)
  BY <1>1 DEF OidBytes, FirstByte
<1>5. FirstByte(oid) \in Byte
  <2> DEFINE a == oid[1]
             b == oid[2]
  <2>1. a \in Nat /\ b \in Nat
    BY <1>1 DEF Unsigned
  <2> HIDE DEF a, b
  <2> DEFINE c == a * 40 + b
  <2>2. c \in Nat
    BY <2>1
  <2> HIDE DEF c
  <2>3. c % 256 \in 0..255
    BY <2>2
  <2> QED
    BY <2>3 DEF FirstByte, Byte, a, b, c
<1> HIDE DEF subs
<1>6. PICK f : Flattens(f, subs, Byte) /\ FlattenSeq(subs) = f[Len(subs)]
  BY <1>3, FlattenIs
<1> QED
  BY <1>3, <1>4, <1>5, <1>6 DEF subs

\* What encode_oid writes is read to its end by decode_oid, with the
\* components from the third on as they were (encode_oid and decode_oid).
THEOREM OidReadBack ==
    ASSUME NEW oid \in Oid
    PROVE  /\ OidBytes(oid) \in Seq(Byte)
           /\ ~TruncatedOid(OidBytes(oid))
           /\ DecodeOid(OidBytes(oid)) = OidReadAs(oid)
<1>1. CASE Len(oid) < 2
  <2>1. OidBytes(oid) = <<>> /\ OidReadAs(oid) = <<>>
    BY <1>1 DEF OidBytes, OidReadAs
  <2>2. DecodeOid(<<>>) = <<>> /\ ~TruncatedOid(<<>>) /\ <<>> \in Seq(Byte)
    BY DEF DecodeOid, TruncatedOid
  <2> QED
    BY <2>1, <2>2
<1>2. CASE ~(Len(oid) < 2)
  <2> DEFINE n == Len(oid)
             m == n - 2
             subs == [i \in 1..m |-> SubIdBytes(oid[i + 2])]
             first == <<FirstByte(oid)>>
             bytes == OidBytes(oid)
             all == OidReadAs(oid)
             Upto(i) == SubSeq(all, 1, i + 2)
  <2>1. /\ n \in Nat /\ m \in Nat /\ n = m + 2 /\ n >= 2
        /\ \A i \in 1..n : oid[i] \in Unsigned(U32Bytes)
    BY <1>2 DEF Oid
  <2>2. /\ subs \in Seq(Seq(Byte)) /\ Len(subs) = m
        /\ \E f : Flattens(f, subs, Byte) /\ bytes = first \o f[Len(subs)]
        /\ FirstByte(oid) \in Byte
    BY <2>1, OidBytesAre
  <2>3. \A i \in 1..m : subs[i] = SubIdBytes(oid[i + 2])
                        /\ oid[i + 2] \in Unsigned(U32Bytes)
    BY <2>1
  <2> HIDE DEF subs
  <2>4. PICK f : Flattens(f, subs, Byte) /\ bytes = first \o f[m]
    BY <2>2
  <2>5. /\ \A i \in 0..m : f[i] \in Seq(Byte) /\ Len(f[i]) \in Nat
        /\ f[0] = <<>> /\ Len(f[0]) = 0
    <3>1. \A i \in 0..m : f[i] \in Seq(Byte)
      BY <2>2, <2>4 DEF Flattens
    <3>2. f[0] = <<>>
      BY <2>4 DEF Flattens
    <3>3. \A x \in Seq(Byte) : Len(x) \in Nat
      OBVIOUS
    <3>4. Len(<<>>) = 0
      OBVIOUS
    <3> QED
      BY <3>1, <3>2, <3>3, <3>4, Zenon
  <2>6. /\ bytes \in Seq(Byte) /\ Len(bytes) = 1 + Len(f[m]) /\ bytes[1] = FirstByte(oid)
        /\ At(bytes, 1, f[m])
    <3> DEFINE y == f[m]
    <3>1. y \in Seq(Byte) /\ first \in Seq(Byte) /\ Len(first) = 1
      BY <2>1, <2>2, <2>5
    <3>2. bytes = first \o y
      BY <2>4
    <3> HIDE DEF y, bytes
    <3>3. /\ bytes \in Seq(Byte) /\ Len(bytes) = 1 + Len(y)
          /\ bytes[1] = FirstByte(oid)
          /\ \A i \in 1..Len(y) : bytes[1 + i] = y[i]
      BY <3>1, <3>2
    <3> QED
      BY <3>3 DEF At, y
  <2> HIDE DEF bytes
  <2>7. /\ \A i \in 0..m : At(bytes, 1, f[i])
        /\ \A i \in 1..m : At(bytes, 1 + Len(f[i - 1]), subs[i])
                           /\ Len(f[i]) = Len(f[i - 1]) + Len(subs[i])
    <3>1. At(bytes, 1, f[Len(subs)])
      BY <2>2, <2>6
    <3>2. 1 \in Nat
      OBVIOUS
    <3>3. bytes \in Seq(Byte) /\ subs \in Seq(Seq(Byte))
      BY <2>2, <2>6
    <3>4. Flattens(f, subs, Byte)
      BY <2>4
    <3>5. PartsStand(bytes, 1, f, subs)
      BY <3>1, <3>2, <3>3, <3>4, PartsAt
    <3> HIDE DEF m
    <3> QED
      BY <2>2, <3>5 DEF PartsStand
  <2>8. bytes # <<>>
    BY <2>1, <2>5, <2>6
  <2>9. PICK r : OidReads(r, bytes) /\ DecodeOid(bytes) = r[Len(bytes)].oid
    BY <2>6, <2>8, DecodeOidIs
  <2>10. /\ all \in Seq(Nat) /\ Len(all) = n
         /\ all[1] = FirstByte(oid) \div 40 /\ all[2] = FirstByte(oid) % 40
         /\ \A i \in 1..m : all[i + 2] = oid[i + 2]
    <3> DEFINE b == FirstByte(oid)
               d == b \div 40
               e == b % 40
    <3>1. d \in Nat /\ e \in Nat
      <4>1. b \in 0..255
        BY <2>2 DEF Byte
      <4> HIDE DEF b
      <4> QED
        BY <4>1
    <3>2. all = [i \in 1..n |-> IF i = 1 THEN d ELSE IF i = 2 THEN e ELSE oid[i]]
      BY <1>2 DEF OidReadAs
    <3> HIDE DEF d, e, all
    <3>3. \A i \in 1..n : oid[i] \in Nat
      BY <2>1 DEF Unsigned
    <3> QED
      BY <2>1, <3>1, <3>2, <3>3 DEF d, e
  <2> HIDE DEF all
  <2>11. /\ Upto(0) = <<FirstByte(oid) \div 40, FirstByte(oid) % 40>>
         /\ Upto(m) = all
         /\ \A i \in 1..m : Upto(i) = Append(Upto(i - 1), oid[i + 2])
         /\ \A i \in 0..m : Upto(i) \in Seq(Nat)
    <3>1. \A i \in 0..m : /\ Upto(i) \in Seq(Nat) /\ Len(Upto(i)) = i + 2
                          /\ \A k \in 1..(i + 2) : Upto(i)[k] = all[k]
      BY <2>1, <2>10
    <3> HIDE DEF Upto
    <3>2. 0 \in 0..m /\ m \in 0..m
      BY <2>1
    <3>3. Upto(m) = all
      <4> DEFINE x == Upto(m)
      <4>1. x \in Seq(Nat) /\ Len(x) = n /\ \A k \in 1..n : x[k] = all[k]
        BY <2>1, <3>1, <3>2
      <4> HIDE DEF x
      <4>2. x = all
        <5>1. all \in Seq(Nat) /\ Len(all) = n
          BY <2>10
        <5> HIDE DEF n
        <5> QED
          BY <4>1, <5>1
      <4> QED
        BY <4>2 DEF x
    <3>4. Upto(0) = <<FirstByte(oid) \div 40, FirstByte(oid) % 40>>
      <4> DEFINE x == Upto(0)
                 c == FirstByte(oid) \div 40
                 d == FirstByte(oid) % 40
      <4>1. x \in Seq(Nat) /\ Len(x) = 2 /\ x[1] = all[1] /\ x[2] = all[2]
        <5>1. /\ x \in Seq(Nat) /\ Len(x) = 0 + 2
              /\ \A k \in 1..(0 + 2) : x[k] = all[k]
          BY <3>1, <3>2
        <5> HIDE DEF x
        <5> QED
          BY <5>1
      <4>2. all[1] = c /\ all[2] = d
        BY <2>10
      <4> HIDE DEF x, c, d
      <4>3. x = <<c, d>>
        BY <4>1, <4>2
      <4> QED
        BY <4>3 DEF x, c, d
    <3>5. ASSUME NEW i \in 1..m PROVE Upto(i) = Append(Upto(i - 1), oid[i + 2])
      <4>1. i - 1 \in 0..m /\ i \in 0..m /\ (i - 1) + 2 = i + 1 /\ all[i + 2] = oid[i + 2]
        BY <2>1, <2>10
      <4> DEFINE x == Upto(i - 1)
                 y == Upto(i)
                 v == oid[i + 2]
      <4>2. /\ x \in Seq(Nat) /\ Len(x) = i + 1 /\ \A k \in 1..(i + 1) : x[k] = all[k]
            /\ y \in Seq(Nat) /\ Len(y) = i + 2 /\ \A k \in 1..(i + 2) : y[k] = all[k]
            /\ all[i + 2] = v /\ i \in Nat
        BY <3>1, <4>1
      <4> HIDE DEF x, y, v
      <4>3. y[i + 2] = v /\ \A k \in 1..(i + 1) : y[k] = x[k]
        <5>1. i + 2 \in 1..(i + 2) /\ \A k \in 1..(i + 1) : k \in 1..(i + 2)
          BY <4>2
        <5> QED
          BY <4>2, <5>1
      <4>4. v \in Nat
        BY <4>2, <4>3
      <4>5. y = Append(x, v)
        BY <4>2, <4>3, <4>4
      <4> QED
        BY <4>5 DEF x, y, v
    <3> QED
      BY <3>1, <3>3, <3>4, <3>5
  <2> HIDE DEF Upto
  <2> DEFINE T == {i \in 0..m : ~ReadUpTo(r, 1 + Len(f[i]), Upto(i))}
             Ended(i) == i > 0 => bytes[1 + Len(f[i])] < 128
  <2>12. ASSUME NEW i \in 1..m,
                ReadUpTo(r, 1 + Len(f[i - 1]), Upto(i - 1))
         PROVE  /\ ReadUpTo(r, 1 + Len(f[i]), Upto(i))
                /\ bytes[1 + Len(f[i])] < 128
    <3> DEFINE pos == 1 + Len(f[i - 1])
               v == oid[i + 2]
               o == Upto(i - 1)
    <3>1. i - 1 \in 0..m /\ i \in 0..m
      BY <2>1
    <3>2. /\ v \in Unsigned(U32Bytes) /\ subs[i] = SubIdBytes(v) /\ o \in Seq(Nat)
          /\ Upto(i) = Append(o, v)
      BY <2>3, <2>11, <3>1
    <3>3. /\ At(bytes, pos, SubIdBytes(v))
          /\ 1 + Len(f[i]) = pos + Len(SubIdBytes(v))
      <4>1. At(bytes, pos, subs[i]) /\ Len(f[i]) = Len(f[i - 1]) + Len(subs[i])
        BY <2>7
      <4>2. Len(f[i - 1]) \in Nat /\ Len(subs[i]) \in Nat
        BY <2>5, <3>1, <3>2, SubIdIs
      <4>3. At(bytes, pos, SubIdBytes(v))
        BY <3>2, <4>1
      <4> DEFINE a == Len(f[i - 1])
                 b == Len(subs[i])
      <4>4. a \in Nat /\ b \in Nat /\ Len(f[i]) = a + b /\ Len(SubIdBytes(v)) = b
        BY <3>2, <4>1, <4>2
      <4> HIDE DEF a, b
      <4>5. 1 + Len(f[i]) = (1 + a) + Len(SubIdBytes(v))
        BY <4>4
      <4> QED
        BY <4>3, <4>5 DEF a
    <3>4. pos \in 1..Len(bytes)
      <4>1. At(bytes, 1, f[i - 1]) /\ Len(f[i - 1]) \in Nat /\ Len(bytes) \in Nat
        BY <2>5, <2>6, <2>7, <3>1
      <4> QED
        BY <4>1 DEF At
    <3>5. ReadUpTo(r, pos, o)
      BY <2>12
    <3> HIDE DEF pos, v, o
    <3>6. /\ ReadUpTo(r, pos + Len(SubIdBytes(v)), Append(o, v))
          /\ bytes[pos + Len(SubIdBytes(v))] < 128
      <4>1. bytes \in Seq(Byte) /\ OidReads(r, bytes)
        BY <2>6, <2>9
      <4>2. v \in Unsigned(U32Bytes) /\ o \in Seq(Nat) /\ At(bytes, pos, SubIdBytes(v))
        BY <3>2, <3>3
      <4>3. v \in Unsigned(U32Bytes)
        BY <4>2
      <4>4. o \in Seq(Nat)
        BY <4>2
      <4>5. At(bytes, pos, SubIdBytes(v))
        BY <4>2
      <4>6. bytes \in Seq(Byte)
        BY <4>1
      <4>7. OidReads(r, bytes)
        BY <4>1
      <4> QED
        BY <3>4, <3>5, <4>3, <4>4, <4>5, <4>6, <4>7, SubIdRead
    <3> QED
      BY <3>2, <3>3, <3>6
  <2>13. ASSUME T # {} PROVE FALSE
    <3>1. PICK k \in T : \A i \in T : k <= i
      <4>1. T \subseteq Nat
        BY <2>1
      <4> HIDE DEF T
      <4> QED
        BY <2>13, <4>1, Least
    <3>2. k # 0
      <4>1. ReadUpTo(r, 1, Upto(0))
        BY <2>6, <2>9, <2>11 DEF OidReads, ReadUpTo
      <4>2. 1 + Len(f[0]) = 1
        BY <2>5
      <4> QED
        BY <3>1, <4>1, <4>2
    <3>3. k \in 1..m /\ k - 1 \in 0..m /\ k - 1 \notin T
      <4>1. k \in 1..m /\ k - 1 \in 0..m /\ ~(k <= k - 1)
        BY <2>1, <3>1, <3>2
      <4> HIDE DEF T
      <4> QED
        BY <3>1, <4>1
    <3>4. ReadUpTo(r, 1 + Len(f[k - 1]), Upto(k - 1))
      BY <3>3
    <3>5. ReadUpTo(r, 1 + Len(f[k]), Upto(k))
      BY <2>12, <3>3, <3>4
    <3> QED
      BY <3>1, <3>5
  <2>14. \A i \in 0..m : ReadUpTo(r, 1 + Len(f[i]), Upto(i))
    BY <2>13
  <2> HIDE DEF T
  <2>15. DecodeOid(bytes) = all
    <3>1. m \in 0..m
      BY <2>1
    <3>2. ReadUpTo(r, Len(bytes), Upto(m))
      BY <2>6, <2>14, <3>1
    <3> QED
      BY <2>9, <2>11, <3>2 DEF ReadUpTo
  <2>16. ~TruncatedOid(bytes)
    <3>1. CASE m = 0
      <4>1. Len(bytes) = 1
        <5>1. Len(f[m]) = 0
          BY <2>5, <3>1
        <5> HIDE DEF m
        <5> QED
          BY <2>6, <5>1
      <4> QED
        BY <4>1 DEF TruncatedOid
    <3>2. CASE m # 0
      <4>1. m \in 1..m /\ m - 1 \in 0..m
        BY <2>1, <3>2
      <4>2. bytes[Len(bytes)] < 128
        BY <2>6, <2>12, <2>14, <4>1
      <4>3. Len(bytes) \in 1..Len(bytes) /\ bytes[Len(bytes)] \in Byte
        <5>1. Len(bytes) \in Nat \ {0}
          BY <2>6, <2>8
        <5> QED
          BY <2>6, <5>1
      <4>4. ~(bytes[Len(bytes)] >= 128)
        <5> DEFINE b == bytes[Len(bytes)]
        <5>1. b < 128 /\ b \in 0..255
          BY <4>2, <4>3 DEF Byte
        <5> HIDE DEF b
        <5>2. ~(b >= 128)
          BY <5>1
        <5> QED
          BY <5>2 DEF b
      <4> QED
        BY <4>4 DEF TruncatedOid
    <3> QED
      BY <3>1, <3>2
  <2> QED
    BY <2>6, <2>15, <2>16 DEF bytes, all
<1> QED
  BY <1>1, <1>2

-----------------------------------------------------------------------------
\* Values.

\* The values that there are (Value): numbers of their widths, addresses of
\* four bytes, and nothing where the type says all.
Value ==
    [type : {"Integer"}, of : Signed(U64Bytes)]
    \cup [type : {"OctetString", "Opaque"}, of : Seq(Byte)]
    \cup [type : {"ObjectIdentifier"}, of : Oid]
    \cup [type : {"IpAddress"}, of : {b \in Seq(Byte) : Len(b) = 4}]
    \cup [type : {"Counter32", "Gauge32", "TimeTicks"}, of : Unsigned(U32Bytes)]
    \cup [type : {"Counter64"}, of : Unsigned(U64Bytes)]
    \cup [type : {"Null", "NoSuchObject", "NoSuchInstance", "EndOfMibView"},
          of : {<<>>}]

\* What a value is read back as.
ValueReadAs(value) ==
    CASE value.type \in DOMAIN MarkerTag -> ValueOf("Null", <<>>)
      [] value.type = "ObjectIdentifier" ->
            ValueOf("ObjectIdentifier", OidReadAs(value.of))
      [] OTHER -> value

LEMMA Markers == DOMAIN MarkerTag = {"NoSuchObject", "NoSuchInstance", "EndOfMibView"}
BY DEF MarkerTag

LEMMA NumberTypes ==
    /\ \A v \in Signed(U64Bytes) : IntegerBytes(v) \in Seq(Byte)
    /\ \A v \in Unsigned(U64Bytes) : Unsigned64Bytes(v) \in Seq(Byte)
<1>1. U64Bytes \in 1..U64Bytes
  BY WidthsNest
<1>2. ASSUME NEW v \in Signed(U64Bytes) PROVE IntegerBytes(v) \in Seq(Byte)
  <2>1. PICK m \in 1..U64Bytes : IntegerBytes(v) = SubSeq(BeBytes(v, U64Bytes), m, U64Bytes)
    BY IntegerBytesIs
  <2>2. v \in Int
    BY DEF Signed
  <2>3. SubSeq(BeBytes(v, U64Bytes), m, U64Bytes) \in Seq(Byte)
    BY <1>1, <2>2, SuffixShifted
  <2> QED
    BY <2>1, <2>3
<1>3. ASSUME NEW v \in Unsigned(U64Bytes) PROVE Unsigned64Bytes(v) \in Seq(Byte)
  <2> DEFINE b == BeBytes(v, U64Bytes)
             redundant == {j \in DOMAIN b : b[j] = 0}
  <2>1. v \in Int /\ U64Bytes \in 0..U64Bytes
    BY WidthAssumption DEF Unsigned
  <2>2. b \in Seq(Byte) /\ Len(b) = U64Bytes
    BY <2>1, BeBytesAre
  <2>3. b # <<>>
    BY <1>1, <2>2
  <2>4. PICK m \in 1..Len(b) : Stripped(b, redundant) = SubSeq(b, m, Len(b))
    <3> HIDE DEF b, redundant
    <3> QED
      BY <2>2, <2>3, StrippedIs
  <2> DEFINE s == SubSeq(b, m, U64Bytes)
  <2>5. Unsigned64Bytes(v) = IF s[1] >= 128 THEN <<0>> \o s ELSE s
    BY <2>2, <2>4 DEF Unsigned64Bytes
  <2>6. s \in Seq(Byte)
    BY <1>1, <2>1, <2>2, SuffixShifted
  <2>7. <<0>> \in Seq(Byte)
    BY DEF Byte
  <2> HIDE DEF s
  <2> QED
    BY <2>5, <2>6, <2>7
<1> QED
  BY <1>2, <1>3

\* What the tags of the values are read as.
LEMMA DecodeValueIs ==
    ASSUME NEW bytes \in Seq(Byte)
    PROVE  /\ DecodeValue(2, bytes) = ValueOf("Integer", DecodeInteger(bytes))
           /\ DecodeValue(4, bytes) = ValueOf("OctetString", bytes)
           /\ DecodeValue(5, bytes) = ValueOf("Null", <<>>)
           /\ DecodeValue(6, bytes) = ValueOf("ObjectIdentifier", DecodeOid(bytes))
           /\ Len(bytes) = 4 => DecodeValue(64, bytes) = ValueOf("IpAddress", bytes)
           /\ DecodeValue(65, bytes) = ValueOf("Counter32", DecodeUnsigned(bytes, U32Bytes))
           /\ DecodeValue(66, bytes) = ValueOf("Gauge32", DecodeUnsigned(bytes, U32Bytes))
           /\ DecodeValue(67, bytes) = ValueOf("TimeTicks", DecodeUnsigned(bytes, U32Bytes))
           /\ DecodeValue(68, bytes) = ValueOf("Opaque", bytes)
           /\ DecodeValue(70, bytes) = ValueOf("Counter64", DecodeUnsigned(bytes, U64Bytes))
<1>1. /\ ApplicationTag.IpAddress = 64 /\ ApplicationTag.Opaque = 68
      /\ ApplicationTag.Counter64 = 70
  BY DEF ApplicationTag
<1>2. /\ TypeOf(65, ApplicationTag) = "Counter32"
      /\ TypeOf(66, ApplicationTag) = "Gauge32"
      /\ TypeOf(67, ApplicationTag) = "TimeTicks"
  BY DEF ApplicationTag, TypeOf
<1>3. \A tag \in {2, 4, 5, 6, 64, 65, 66, 67, 68, 70} :
         ~\E t \in DOMAIN MarkerTag : MarkerTag[t] = tag
  BY DEF MarkerTag
<1>4. DecodeValue(2, bytes) = ValueOf("Integer", DecodeInteger(bytes))
  BY <1>1, <1>2, <1>3 DEF DecodeValue, INTEGER, NULL, OBJECT_ID
<1>5. DecodeValue(5, bytes) = ValueOf("Null", <<>>)
  BY <1>1, <1>2, <1>3 DEF DecodeValue, INTEGER, NULL, OBJECT_ID
<1>6. DecodeValue(6, bytes) = ValueOf("ObjectIdentifier", DecodeOid(bytes))
  BY <1>1, <1>2, <1>3 DEF DecodeValue, INTEGER, NULL, OBJECT_ID
<1>7. Len(bytes) = 4 => DecodeValue(64, bytes) = ValueOf("IpAddress", bytes)
  BY <1>1, <1>2, <1>3 DEF DecodeValue, INTEGER, NULL, OBJECT_ID
<1>8. DecodeValue(65, bytes) = ValueOf("Counter32", DecodeUnsigned(bytes, U32Bytes))
  BY <1>1, <1>2, <1>3 DEF DecodeValue, INTEGER, NULL, OBJECT_ID
<1>9. DecodeValue(66, bytes) = ValueOf("Gauge32", DecodeUnsigned(bytes, U32Bytes))
  BY <1>1, <1>2, <1>3 DEF DecodeValue, INTEGER, NULL, OBJECT_ID
<1>10. DecodeValue(67, bytes) = ValueOf("TimeTicks", DecodeUnsigned(bytes, U32Bytes))
  BY <1>1, <1>2, <1>3 DEF DecodeValue, INTEGER, NULL, OBJECT_ID
<1>11. DecodeValue(68, bytes) = ValueOf("Opaque", bytes)
  BY <1>1, <1>2, <1>3 DEF DecodeValue, INTEGER, NULL, OBJECT_ID
<1>12. DecodeValue(70, bytes) = ValueOf("Counter64", DecodeUnsigned(bytes, U64Bytes))
  BY <1>1, <1>2, <1>3 DEF DecodeValue, INTEGER, NULL, OBJECT_ID
<1>13. DecodeValue(4, bytes) = ValueOf("OctetString", bytes)
  BY <1>1, <1>2, <1>3 DEF DecodeValue, INTEGER, NULL, OBJECT_ID
<1> QED
  BY <1>4, <1>5, <1>6, <1>7, <1>8, <1>9, <1>10, <1>11, <1>12, <1>13

\* The contents that a value is read back from, under the tag.
Holds(tag, bytes, value) ==
    /\ tag \in Byte /\ bytes \in Seq(Byte)
    /\ EncodeValue(value) = Tlv(tag, bytes)
    /\ DecodeValue(tag, bytes) = ValueReadAs(value)
    /\ tag = OBJECT_ID => ~TruncatedOid(bytes)

\* read_value gives back the value that encode_value wrote, but for an end
\* marker, which is read as null, and the first two components of an OID.
THEOREM ValueReadBack ==
    ASSUME NEW value \in Value
    PROVE  \E tag, bytes : Holds(tag, bytes, value)
<1> DEFINE ty == value.type
           of == value.of
<1>1. value = ValueOf(ty, of)
  BY DEF Value, ValueOf
<1>2. \/ ty = "Integer" /\ of \in Signed(U64Bytes)
      \/ ty \in {"OctetString", "Opaque"} /\ of \in Seq(Byte)
      \/ ty = "ObjectIdentifier" /\ of \in Oid
      \/ ty = "IpAddress" /\ of \in Seq(Byte) /\ Len(of) = 4
      \/ ty \in {"Counter32", "Gauge32", "TimeTicks"} /\ of \in Unsigned(U32Bytes)
      \/ ty = "Counter64" /\ of \in Unsigned(U64Bytes)
      \/ ty \in {"Null", "NoSuchObject", "NoSuchInstance", "EndOfMibView"} /\ of = <<>>
  BY DEF Value
<1>3. ty \notin DOMAIN MarkerTag /\ ty # "ObjectIdentifier" => ValueReadAs(value) = value
  BY DEF ValueReadAs
<1>4. /\ ApplicationTag["IpAddress"] = 64 /\ ApplicationTag["Counter32"] = 65
      /\ ApplicationTag["Gauge32"] = 66 /\ ApplicationTag["TimeTicks"] = 67
      /\ ApplicationTag["Opaque"] = 68 /\ ApplicationTag["Counter64"] = 70
  BY DEF ApplicationTag
<1>5. 2 \in Byte /\ 4 \in Byte /\ 5 \in Byte /\ 6 \in Byte /\ \A t \in 64..70 : t \in Byte
  BY DEF Byte
<1> HIDE DEF ty, of
<1>6. CASE ty = "Integer" /\ of \in Signed(U64Bytes)
  <2>1. EncodeValue(value) = Tlv(2, IntegerBytes(of))
    BY <1>6 DEF EncodeValue, Integer, INTEGER, ty, of
  <2>2. DecodeValue(2, IntegerBytes(of)) = ValueOf("Integer", of)
    BY <1>6, DecodeValueIs, IntegerReadBack, NumberTypes
  <2>3. IntegerBytes(of) \in Seq(Byte)
    BY <1>6, NumberTypes
  <2>4. Holds(2, IntegerBytes(of), value)
    BY <1>1, <1>3, <1>5, <1>6, <2>1, <2>2, <2>3, Markers DEF Holds, OBJECT_ID
  <2> QED
    BY <2>4
<1>7. CASE ty = "OctetString" /\ of \in Seq(Byte)
  <2>1. EncodeValue(value) = Tlv(4, of)
    BY <1>7 DEF EncodeValue, OctetString, OCTET_STRING, ty, of
  <2>2. DecodeValue(4, of) = ValueOf("OctetString", of)
    BY <1>7, DecodeValueIs
  <2>3. Holds(4, of, value)
    BY <1>1, <1>3, <1>5, <1>7, <2>1, <2>2, Markers DEF Holds, OBJECT_ID
  <2> QED
    BY <2>3
<1>8. CASE ty = "Opaque" /\ of \in Seq(Byte)
  <2>1. EncodeValue(value) = Tlv(68, of)
    BY <1>4, <1>8 DEF EncodeValue, ty, of
  <2>2. DecodeValue(68, of) = ValueOf("Opaque", of)
    BY <1>8, DecodeValueIs
  <2>3. Holds(68, of, value)
    BY <1>1, <1>3, <1>5, <1>8, <2>1, <2>2, Markers DEF Holds, OBJECT_ID
  <2> QED
    BY <2>3
<1>9. CASE ty = "IpAddress" /\ of \in Seq(Byte) /\ Len(of) = 4
  <2>1. EncodeValue(value) = Tlv(64, of)
    BY <1>4, <1>9 DEF EncodeValue, ty, of
  <2>2. DecodeValue(64, of) = ValueOf("IpAddress", of)
    BY <1>9, DecodeValueIs
  <2>3. Holds(64, of, value)
    BY <1>1, <1>3, <1>5, <1>9, <2>1, <2>2, Markers DEF Holds, OBJECT_ID
  <2> QED
    BY <2>3
<1>10. CASE ty \in {"Counter32", "Gauge32", "TimeTicks"} /\ of \in Unsigned(U32Bytes)
  <2> DEFINE tag == ApplicationTag[ty]
  <2>1. EncodeValue(value) = Tlv(tag, IntegerBytes(of))
    BY <1>10 DEF EncodeValue, ty, of
  <2>2. IntegerBytes(of) \in Seq(Byte)
    BY <1>10, NumberTypes, WidthsNest
  <2>3. DecodeUnsigned(IntegerBytes(of), U32Bytes) = of
    BY <1>10, UnsignedReadBack, WidthsNest
  <2>4. DecodeValue(tag, IntegerBytes(of)) = ValueOf(ty, of)
    <3>1. CASE ty = "Counter32"
      BY <1>4, <2>2, <2>3, <3>1, DecodeValueIs
    <3>2. CASE ty = "Gauge32"
      BY <1>4, <2>2, <2>3, <3>2, DecodeValueIs
    <3>3. CASE ty = "TimeTicks"
      BY <1>4, <2>2, <2>3, <3>3, DecodeValueIs
    <3> QED
      BY <1>10, <3>1, <3>2, <3>3
  <2>5. tag \in Byte /\ tag # OBJECT_ID
    BY <1>4, <1>5, <1>10 DEF OBJECT_ID
  <2>6. Holds(tag, IntegerBytes(of), value)
    <3> HIDE DEF tag
    <3> QED
      BY <1>1, <1>3, <1>10, <2>1, <2>2, <2>4, <2>5, Markers DEF Holds
  <2> QED
    BY <2>6
<1>11. CASE ty = "Counter64" /\ of \in Unsigned(U64Bytes)
  <2>1. EncodeValue(value) = Tlv(70, Unsigned64Bytes(of))
    BY <1>4, <1>11 DEF EncodeValue, ty, of
  <2>2. Unsigned64Bytes(of) \in Seq(Byte)
    BY <1>11, NumberTypes
  <2>3. DecodeValue(70, Unsigned64Bytes(of)) = ValueOf("Counter64", of)
    BY <1>11, <2>2, DecodeValueIs, Unsigned64ReadBack
  <2>4. Holds(70, Unsigned64Bytes(of), value)
    BY <1>1, <1>3, <1>5, <1>11, <2>1, <2>2, <2>3, Markers DEF Holds, OBJECT_ID
  <2> QED
    BY <2>4
<1>12. CASE ty = "ObjectIdentifier" /\ of \in Oid
  <2>1. EncodeValue(value) = Tlv(6, OidBytes(of))
    BY <1>12 DEF EncodeValue, OBJECT_ID, ty, of
  <2>2. /\ OidBytes(of) \in Seq(Byte) /\ ~TruncatedOid(OidBytes(of))
        /\ DecodeValue(6, OidBytes(of)) = ValueOf("ObjectIdentifier", OidReadAs(of))
    BY <1>12, DecodeValueIs, OidReadBack
  <2>3. ValueReadAs(value) = ValueOf("ObjectIdentifier", OidReadAs(of))
    BY <1>12, Markers DEF ValueReadAs, ty, of
  <2>4. Holds(6, OidBytes(of), value)
    BY <1>5, <2>1, <2>2, <2>3 DEF Holds
  <2> QED
    BY <2>4
<1>13. CASE ty \in {"Null", "NoSuchObject", "NoSuchInstance", "EndOfMibView"} /\ of = <<>>
  <2>1. EncodeValue(value) = Tlv(5, <<>>)
    BY <1>13 DEF EncodeValue, NULL, ty
  <2>2. <<>> \in Seq(Byte)
    OBVIOUS
  <2>3. DecodeValue(5, <<>>) = ValueOf("Null", <<>>)
    BY <2>2, DecodeValueIs
  <2>4. ValueReadAs(value) = ValueOf("Null", <<>>)
    <3>1. CASE ty = "Null"
      BY <1>1, <1>3, <1>13, <3>1, Markers
    <3>2. CASE ty # "Null"
      BY <1>13, <3>2, Markers DEF ValueReadAs, ty
    <3> QED
      BY <3>1, <3>2
  <2>5. Holds(5, <<>>, value)
    BY <1>5, <2>1, <2>2, <2>3, <2>4 DEF Holds, OBJECT_ID
  <2> QED
    BY <2>5
<1> QED
  BY <1>2, <1>6, <1>7, <1>8, <1>9, <1>10, <1>11, <1>12, <1>13

\* A larger power is no smaller.
LEMMA PowersOrdered ==
    ASSUME NEW i \in 0..U64Bytes, NEW k \in i..U64Bytes
    PROVE  256^i <= 256^k /\ 256^i \in Nat \ {0} /\ 256^k \in Nat \ {0}
<1> DEFINE P(n) == 256^n
           T == {n \in i..U64Bytes : ~(P(i) <= P(n))}
<1>1. /\ U64Bytes \in Nat /\ i \in Nat
      /\ \A n \in 0..U64Bytes : P(n) \in Nat \ {0}
      /\ \A n \in 1..U64Bytes : P(n) = 256 * P(n - 1)
  BY WidthAssumption, PowersOf256
<1> HIDE DEF P
<1>2. ASSUME T # {} PROVE FALSE
  <2>1. PICK m \in T : \A n \in T : m <= n
    <3>1. T \subseteq Nat
      BY <1>1
    <3> HIDE DEF T
    <3> QED
      BY <1>2, <3>1, Least
  <2>2. m # i
    BY <1>1, <2>1
  <2>3. m - 1 \in i..U64Bytes /\ m \in 1..U64Bytes /\ m - 1 \in 0..U64Bytes
    BY <1>1, <2>1, <2>2
  <2>4. m - 1 \notin T
    BY <2>1, <2>3
  <2>5. P(i) <= P(m - 1) /\ P(m) = 256 * P(m - 1) /\ P(m - 1) \in Nat /\ P(i) \in Nat
    BY <1>1, <2>3, <2>4
  <2>6. P(i) <= P(m)
    BY <2>5
  <2> QED
    BY <2>1, <2>6
<1>3. P(i) <= P(k)
  BY <1>1, <1>2
<1>4. k \in 0..U64Bytes
  BY <1>1
<1> QED
  BY <1>1, <1>3, <1>4 DEF P

\* Nothing redundant is left at the front.
LEMMA StrippedShort ==
    ASSUME NEW bytes \in Seq(Byte), NEW redundant,
           NEW k \in 1..Len(bytes), \A i \in 1..(k - 1) : i \in redundant
    PROVE  Len(Stripped(bytes, redundant)) <= Len(bytes) - k + 1
<1> DEFINE starts == {i \in DOMAIN bytes : 1..(i - 1) \subseteq redundant}
           m == Max(starts)
<1>1. Len(bytes) \in Nat /\ DOMAIN bytes = 1..Len(bytes)
  OBVIOUS
<1>2. starts \in SUBSET (1..Len(bytes)) /\ k \in starts
  BY <1>1
<1>3. Stripped(bytes, redundant) = SubSeq(bytes, m, Len(bytes))
  BY DEF Stripped
<1> HIDE DEF starts
<1>4. m \in starts /\ k <= m
  <2>1. starts # {}
    BY <1>2
  <2> QED
    BY <1>1, <1>2, <2>1, MaxIs
<1>5. m \in 1..Len(bytes)
  BY <1>2, <1>4
<1> HIDE DEF m
<1>6. Len(SubSeq(bytes, m, Len(bytes))) = Len(bytes) - m + 1
  BY <1>1, <1>5, SliceType
<1> QED
  BY <1>1, <1>3, <1>4, <1>5, <1>6

\* What stands in an i64 above the bytes of an i32 or u32 is its sign.
LEMMA AboveU32 ==
    ASSUME NEW v \in Signed(U32Bytes) \cup Unsigned(U32Bytes),
           NEW k \in U32Bytes..U64Bytes
    PROVE  Above(v, k) = IF v < 0 THEN -1 ELSE 0
<1> DEFINE h == 256^U32Bytes
           p == 256^k
<1>1. v \in Int /\ -h <= v /\ v < h /\ h \in Nat \ {0}
  <2>1. h \in Nat \ {0}
    BY WidthAssumption, PowersOf256
  <2>2. \/ v \in Int /\ -h <= 2 * v /\ 2 * v < h
        \/ v \in Nat /\ v < h
    <3>1. CASE v \in Signed(U32Bytes)
      BY <3>1, Zenon DEF Signed
    <3>2. CASE v \in Unsigned(U32Bytes)
      BY <3>2, Zenon DEF Unsigned
    <3> QED
      BY <3>1, <3>2
  <2> HIDE DEF h
  <2> QED
    BY <2>1, <2>2
<1>2. h <= p /\ p \in Nat \ {0}
  BY WidthAssumption, PowersOrdered
<1> HIDE DEF h, p
<1>3. v \in Int /\ -p <= v /\ v < p
  BY <1>1, <1>2
<1>4. CASE v < 0
  <2>1. v \div p = -1
    BY <1>2, <1>3, <1>4, Within
  <2> QED
    BY <1>4, <2>1 DEF Above, p
<1>5. CASE ~(v < 0)
  <2>1. 0 <= v
    BY <1>3, <1>5
  <2>2. v \div p = 0
    BY <1>2, <1>3, <2>1, Within
  <2> QED
    BY <1>5, <2>2 DEF Above, p
<1> QED
  BY <1>4, <1>5

\* A number of 32 bits is written in no more bytes than it has, and one.
LEMMA IntegerBytesShort ==
    ASSUME NEW v \in Signed(U32Bytes) \cup Unsigned(U32Bytes)
    PROVE  IntegerBytes(v) \in Seq(Byte) /\ Len(IntegerBytes(v)) <= U32Bytes + 1
<1> DEFINE b == BeBytes(v, U64Bytes)
           d == U64Bytes - U32Bytes
           c == IF v < 0 THEN 255 ELSE 0
           redundant == {j \in 1..(U64Bytes - 1) :
                           IF v < 0 THEN b[j] = 255 /\ b[j + 1] >= 128
                           ELSE b[j] = 0 /\ b[j + 1] < 128}
<1>1. /\ U64Bytes \in 0..U64Bytes /\ U64Bytes \in Nat \ {0} /\ U32Bytes \in Nat
      /\ d \in 1..U64Bytes /\ d \in Nat \ {0} /\ d < U64Bytes
  BY WidthAssumption
<1>2. v \in Int
  BY DEF Signed, Unsigned
<1>3. b \in Seq(Byte) /\ Len(b) = U64Bytes /\ \A i \in 1..U64Bytes : b[i] = ByteAt(v, U64Bytes - i)
  BY <1>1, <1>2, BeBytesAre
<1>4. IntegerBytes(v) = Stripped(b, redundant)
  BY DEF IntegerBytes
<1>5. \A i \in 1..d : b[i] = c
  <2> TAKE i \in 1..d
  <2>1. U64Bytes - i \in U32Bytes..U64Bytes /\ i \in 1..U64Bytes
    BY <1>1
  <2>2. Above(v, U64Bytes - i) = IF v < 0 THEN -1 ELSE 0
    BY <2>1, AboveU32
  <2>3. b[i] = Above(v, U64Bytes - i) % 256
    BY <1>3, <2>1 DEF ByteAt
  <2> HIDE DEF b
  <2> QED
    BY <1>2, <2>2, <2>3
<1>6. c = IF v < 0 THEN 255 ELSE 0
  OBVIOUS
<1> HIDE DEF b, c
<1>7. \A i \in 1..(d - 1) : i \in redundant
  <2> TAKE i \in 1..(d - 1)
  <2>1. i \in 1..d /\ i + 1 \in 1..d /\ i \in 1..(U64Bytes - 1)
    BY <1>1
  <2>2. b[i] = c /\ b[i + 1] = c
    BY <1>5, <2>1
  <2> QED
    BY <1>6, <2>1, <2>2
<1> HIDE DEF redundant
<1>8. d \in 1..Len(b)
  BY <1>1, <1>3
<1>9. Len(Stripped(b, redundant)) <= Len(b) - d + 1
  BY <1>3, <1>7, <1>8, StrippedShort
<1>10. v \in Signed(U64Bytes)
  BY WidthsNest
<1>11. IntegerBytes(v) \in Seq(Byte)
  BY <1>10, NumberTypes
<1> QED
  BY <1>1, <1>3, <1>4, <1>9, <1>11

\* The bytes of any length: one below 128, or a mark and up to three.
LEMMA LengthBytes ==
    ASSUME NEW n \in Nat
    PROVE  /\ Length(n) \in Seq(Byte) /\ Len(Length(n)) \in 1..4
           /\ n < 128 => Length(n) = <<n>>
           /\ n >= 128 => Length(n)[1] >= 128 /\ Len(Length(n)) > 1
<1>1. CASE n < 128
  <2>1. Length(n) = <<n>>
    BY <1>1, Zenon DEF Length
  <2> QED
    BY <1>1, <2>1 DEF Byte
<1>2. CASE ~(n < 128)
  <2> DEFINE S == {j \in 1..3 : j = 3 \/ n < 256^j}
             k == Min(S)
             b == BeBytes(n, k)
  <2>1. k \in 1..3
    <3>1. S \in SUBSET Nat /\ S # {}
      <4>1. 3 \in S
        OBVIOUS
      <4> QED
        BY <4>1
    <3>2. S \subseteq 1..3
      OBVIOUS
    <3> HIDE DEF S
    <3> QED
      BY <3>1, <3>2, MinIs
  <2>2. Length(n) = <<128 + k>> \o b
    BY <1>2 DEF Length
  <2> HIDE DEF k
  <2>3. b \in Seq(Byte) /\ Len(b) = k
    <3>1. \A i \in 1..k : (n \div 256^(k - i)) % 256 \in Byte
      <4> TAKE i \in 1..k
      <4>1. k - i \in 0..U64Bytes
        BY <2>1, WidthAssumption
      <4> DEFINE p == 256^(k - i)
                 q == n \div p
      <4>2. p \in Nat \ {0}
        BY <4>1, PowersOf256
      <4> HIDE DEF p
      <4>3. q \in Int
        BY <4>2, DivIs
      <4> HIDE DEF q
      <4>4. q % 256 \in Byte
        BY <4>3 DEF Byte
      <4> QED
        BY <4>4 DEF p, q
    <3> QED
      BY <2>1, <3>1 DEF BeBytes
  <2>4. <<128 + k>> \in Seq(Byte) /\ Len(<<128 + k>>) = 1 /\ <<128 + k>>[1] = 128 + k
    BY <2>1 DEF Byte
  <2> DEFINE first == <<128 + k>>
  <2> HIDE DEF first, b
  <2>5. /\ first \o b \in Seq(Byte) /\ Len(first \o b) = 1 + k
        /\ (first \o b)[1] = 128 + k
    BY <2>1, <2>3, <2>4 DEF first
  <2> QED
    BY <1>2, <2>1, <2>2, <2>5 DEF first
<1> QED
  BY <1>1, <1>2

-----------------------------------------------------------------------------
\* The place of the MAC.

\* No run of n zeros is in the bytes x.
NoRun(x, n) == \A i \in 0..(Len(x) - n) : \E j \in 1..n : x[i + j] # 0

\* Nor is one that begins before them and ends in them.
Clear(x, n) == x \in Seq(Byte) /\ Len(x) > 0 /\ x[1] # 0 /\ NoRun(x, n)

LEMMA NoRunIs ==
    ASSUME NEW x \in Seq(Byte), NEW n \in Nat, ~HasZeroRun(x, n)
    PROVE  NoRun(x, n)
<1> SUFFICES ASSUME NEW i \in 0..(Len(x) - n), \A j \in 1..n : x[i + j] = 0
             PROVE  FALSE
  BY DEF NoRun
<1>1. SubSeq(x, i + 1, i + n) = [j \in 1..n |-> x[i + j]]
  <2>1. i + 1 \in Nat \ {0} /\ i + n \in 0..Len(x)
    OBVIOUS
  <2>2. SubSeq(x, i + 1, i + n) = [j \in 1..((i + n) - (i + 1) + 1) |-> x[j + (i + 1) - 1]]
    BY <2>1
  <2>3. (i + n) - (i + 1) + 1 = n /\ \A j \in 1..n : j + (i + 1) - 1 = i + j
    OBVIOUS
  <2> QED
    BY <2>2, <2>3
<1>2. SubSeq(x, i + 1, i + n) = Zeros(n)
  BY <1>1 DEF Zeros
<1> QED
  BY <1>2 DEF HasZeroRun

\* The places in two strings of bytes one after the other.
LEMMA Appended ==
    ASSUME NEW x \in Seq(Byte), NEW y \in Seq(Byte)
    PROVE  /\ x \o y \in Seq(Byte) /\ Len(x \o y) = Len(x) + Len(y)
           /\ \A i \in 1..Len(x) : (x \o y)[i] = x[i]
           /\ \A i \in 1..Len(y) : (x \o y)[Len(x) + i] = y[i]
OBVIOUS

LEMMA ClearBoth ==
    ASSUME NEW n \in Nat \ {0}, NEW x, NEW y, Clear(x, n), Clear(y, n)
    PROVE  Clear(x \o y, n)
<1> DEFINE z == x \o y
           l == Len(x)
<1>1. /\ x \in Seq(Byte) /\ y \in Seq(Byte) /\ l \in Nat /\ l > 0 /\ Len(y) \in Nat /\ Len(y) > 0
      /\ x[1] # 0 /\ y[1] # 0 /\ NoRun(x, n) /\ NoRun(y, n)
  BY DEF Clear
<1>2. /\ z \in Seq(Byte) /\ Len(z) = l + Len(y)
      /\ \A i \in 1..l : z[i] = x[i]
      /\ \A i \in 1..Len(y) : z[l + i] = y[i]
  BY <1>1, Appended
<1> HIDE DEF z, l
<1>3. ASSUME NEW i \in 0..(Len(z) - n) PROVE \E j \in 1..n : z[i + j] # 0
  <2>1. CASE i + n <= l
    <3>1. i \in 0..(Len(x) - n)
      BY <1>1, <2>1 DEF l
    <3>2. PICK j \in 1..n : x[i + j] # 0
      BY <1>1, <3>1 DEF NoRun
    <3>3. i + j \in 1..l
      BY <1>1, <2>1, <3>1
    <3> QED
      BY <1>2, <3>2, <3>3
  <2>2. CASE i < l /\ i + n > l
    <3>1. l + 1 - i \in 1..n /\ i + (l + 1 - i) = l + 1 /\ 1 \in 1..Len(y)
      BY <1>1, <2>2
    <3>2. z[l + 1] = y[1]
      BY <1>2, <3>1
    <3> QED
      BY <1>1, <3>1, <3>2
  <2>3. CASE i >= l
    <3>1. i - l \in 0..(Len(y) - n)
      BY <1>1, <1>2, <2>3
    <3>2. PICK j \in 1..n : y[i - l + j] # 0
      BY <1>1, <3>1 DEF NoRun
    <3>3. i - l + j \in 1..Len(y) /\ l + (i - l + j) = i + j
      BY <1>1, <3>1
    <3> QED
      BY <1>2, <3>2, <3>3
  <2> QED
    BY <1>1, <2>1, <2>2, <2>3
<1>4. z[1] = x[1] /\ Len(z) > 0
  BY <1>1, <1>2 DEF l
<1> QED
  BY <1>1, <1>2, <1>3, <1>4 DEF Clear, NoRun, z

\* The tag and the length of a TLV of len bytes.
Header(tag, len) == <<tag>> \o Length(len)

LEMMA HeaderIs ==
    ASSUME NEW tag \in Byte, NEW len \in Nat
    PROVE  LET h == Header(tag, len)
               l == Length(len)
           IN  /\ h \in Seq(Byte) /\ Len(h) = 1 + Len(l) /\ Len(l) \in 1..4
               /\ h[1] = tag /\ h[2] = l[1]
               /\ IF len < 128 THEN Len(l) = 1 /\ l[1] = len ELSE l[1] >= 128
<1> DEFINE l == Length(len)
           t == <<tag>>
<1>1. /\ l \in Seq(Byte) /\ Len(l) \in 1..4
      /\ IF len < 128 THEN Len(l) = 1 /\ l[1] = len ELSE l[1] >= 128
  <2>1. /\ l \in Seq(Byte) /\ Len(l) \in 1..4
        /\ len < 128 => l = <<len>>
        /\ len >= 128 => l[1] >= 128
    BY LengthBytes
  <2> HIDE DEF l
  <2>2. len < 128 => Len(l) = 1 /\ l[1] = len
    BY <2>1
  <2> QED
    BY <2>1, <2>2
<1>2. t \in Seq(Byte) /\ Len(t) = 1 /\ t[1] = tag
  OBVIOUS
<1> DEFINE h == t \o l
<1>3. h = Header(tag, len)
  BY DEF Header
<1> HIDE DEF l, t
<1>4. /\ h \in Seq(Byte) /\ Len(h) = Len(t) + Len(l)
      /\ \A i \in 1..Len(t) : h[i] = t[i]
      /\ \A i \in 1..Len(l) : h[Len(t) + i] = l[i]
  BY <1>1, <1>2, Appended
<1> HIDE DEF h
<1>5. /\ h \in Seq(Byte) /\ Len(h) = 1 + Len(l) /\ h[1] = tag /\ h[2] = l[1]
  BY <1>1, <1>2, <1>4
<1> QED
  BY <1>1, <1>3, <1>5 DEF l

LEMMA TlvHeaded ==
    ASSUME NEW tag \in Byte, NEW content \in Seq(Byte)
    PROVE  Tlv(tag, content) = Header(tag, Len(content)) \o content
<1> DEFINE l == Length(Len(content))
<1>1. l \in Seq(Byte)
  BY LengthBytes
<1>2. Tlv(tag, content) = (<<tag>> \o l) \o content
  BY <1>1 DEF Tlv
<1> QED
  BY <1>1, <1>2 DEF Header

\* A header has no run of four zeros, as only the last three bytes of a
\* length can be zero.
LEMMA ClearHeader ==
    ASSUME NEW n \in Nat, n > 3, NEW tag \in Byte, tag # 0, NEW len \in Nat
    PROVE  Clear(Header(tag, len), n)
<1> DEFINE l == Length(len)
           a == Len(l)
           f == l[1]
           h == Header(tag, len)
           s == Len(h)
<1>1. /\ h \in Seq(Byte) /\ s = 1 + a /\ a \in 1..4 /\ h[1] = tag /\ h[2] = f
      /\ IF len < 128 THEN a = 1 /\ f = len ELSE f >= 128
  BY HeaderIs
<1> HIDE DEF l, a, f, h, s
<1>2. a > 1 => f # 0
  BY <1>1
<1>3. ASSUME NEW i \in 0..(s - n) PROVE \E j \in 1..n : h[i + j] # 0
  <2>1. s \in 2..5
    BY <1>1
  <2>2. i = 0 \/ (i = 1 /\ s = 5)
    BY <2>1
  <2>3. CASE i = 0
    <3>1. h[i + 1] # 0
      BY <1>1, <2>3
    <3> QED
      BY <3>1
  <2>4. CASE i = 1 /\ s = 5
    <3>1. h[i + 1] # 0
      BY <1>1, <1>2, <2>4
    <3> QED
      BY <3>1
  <2> QED
    BY <2>2, <2>3, <2>4
<1>4. NoRun(h, n)
  BY <1>3 DEF NoRun, s
<1>5. Clear(h, n)
  BY <1>1, <1>4 DEF Clear, s
<1> QED
  BY <1>5 DEF h

\* A short TLV has no run of zeros, if its contents have none.
LEMMA ClearTlv ==
    ASSUME NEW n \in Nat, n > 3, NEW tag \in Byte, tag # 0,
           NEW x \in Seq(Byte), Len(x) < 128, NoRun(x, n)
    PROVE  Clear(Tlv(tag, x), n)
<1> DEFINE l == Len(x)
           h == Header(tag, l)
           z == h \o x
           s == Len(z)
<1>1. l \in Nat /\ l < 128
  OBVIOUS
<1>2. h \in Seq(Byte) /\ Len(h) = 2 /\ h[1] = tag /\ h[2] = l
  <2> DEFINE a == Len(Length(l))
             f == Length(l)[1]
  <2>1. /\ h \in Seq(Byte) /\ Len(h) = 1 + a /\ h[1] = tag /\ h[2] = f
        /\ IF l < 128 THEN a = 1 /\ f = l ELSE f >= 128
    BY <1>1, HeaderIs
  <2> HIDE DEF a, f, h, l
  <2> QED
    BY <1>1, <2>1
<1>3. Tlv(tag, x) = z
  BY TlvHeaded
<1> HIDE DEF h
<1>4. /\ z \in Seq(Byte) /\ Len(z) = Len(h) + Len(x)
      /\ \A i \in 1..Len(h) : z[i] = h[i]
      /\ \A i \in 1..Len(x) : z[Len(h) + i] = x[i]
  BY <1>2, Appended
<1> HIDE DEF z
<1>5. /\ s = 2 + l /\ z[1] = tag /\ z[2] = l
      /\ \A i \in 1..l : z[2 + i] = x[i]
  BY <1>2, <1>4
<1>6. \A i \in 0..(l - n) : \E j \in 1..n : x[i + j] # 0
  BY DEF NoRun
<1> HIDE DEF l, s
<1>7. ASSUME NEW i \in 0..(s - n) PROVE \E j \in 1..n : z[i + j] # 0
  <2>1. CASE i = 0
    <3>1. z[i + 1] # 0
      BY <1>5, <2>1
    <3> QED
      BY <3>1
  <2>2. CASE i = 1
    <3>1. l # 0
      BY <1>1, <1>5, <2>2
    <3>2. z[i + 1] # 0
      BY <1>5, <2>2, <3>1
    <3> QED
      BY <3>2
  <2>3. CASE i > 1
    <3>1. i - 2 \in 0..(l - n)
      BY <1>1, <1>5, <2>3
    <3>2. PICK j \in 1..n : x[i - 2 + j] # 0
      BY <1>6, <3>1
    <3>3. i - 2 + j \in 1..l /\ 2 + (i - 2 + j) = i + j
      BY <1>1, <3>1
    <3> QED
      BY <1>5, <3>2, <3>3
  <2> QED
    BY <2>1, <2>2, <2>3
<1>8. NoRun(z, n)
  BY <1>7 DEF NoRun, s
<1>9. Clear(z, n)
  BY <1>1, <1>4, <1>5, <1>8 DEF Clear, s
<1> QED
  BY <1>3, <1>9

\* The bytes x in the middle.
Between(pre, x, post) == pre \o (x \o post)

\* A clear string, then zeros: the search for as many finds them, if the byte
\* before them is none.
LEMMA PlaceholderFound ==
    ASSUME NEW n \in Nat \ {0}, NEW pre, Clear(pre, n), pre[Len(pre)] # 0,
           NEW post \in Seq(Byte)
    PROVE  FindAuthPlaceholder(Between(pre, Zeros(n), post), n) = Len(pre)
<1> DEFINE o == Zeros(n)
           rest == o \o post
           z == pre \o rest
           l == Len(pre)
           S == {i \in 0..(Len(z) - n) : SubSeq(z, i + 1, i + n) = Zeros(n)}
<1>1. /\ pre \in Seq(Byte) /\ l \in Nat /\ l > 0 /\ NoRun(pre, n) /\ Len(post) \in Nat
      /\ pre[l] # 0
  BY DEF Clear
<1>2. o \in Seq(Byte) /\ Len(o) = n /\ \A i \in 1..n : o[i] = 0
  BY DEF Zeros, Byte
<1> HIDE DEF o
<1>3. /\ rest \in Seq(Byte) /\ Len(rest) = n + Len(post)
      /\ \A i \in 1..n : rest[i] = 0
  <2>1. /\ rest \in Seq(Byte) /\ Len(rest) = Len(o) + Len(post)
        /\ \A i \in 1..Len(o) : rest[i] = o[i]
    BY <1>2, Appended
  <2> HIDE DEF rest
  <2> QED
    BY <1>2, <2>1
<1> HIDE DEF rest
<1>4. /\ z \in Seq(Byte) /\ Len(z) = l + Len(rest)
      /\ \A i \in 1..l : z[i] = pre[i]
      /\ \A i \in 1..Len(rest) : z[l + i] = rest[i]
  BY <1>1, <1>3, Appended
<1>5. FindAuthPlaceholder(z, n) = Min(S)
  BY DEF FindAuthPlaceholder
<1> HIDE DEF z, l
<1>6. /\ Len(z) = l + n + Len(post) /\ \A i \in 1..n : z[l + i] = 0
      /\ \A i \in 1..l : z[i] = pre[i]
  BY <1>1, <1>3, <1>4
<1>7. \A i \in 0..(Len(z) - n) : SubSeq(z, i + 1, i + n) = [j \in 1..n |-> z[i + j]]
  <2> TAKE i \in 0..(Len(z) - n)
  <2>1. SubSeq(z, i + 1, i + n) = [j \in 1..((i + n) - (i + 1) + 1) |-> z[j + (i + 1) - 1]]
    OBVIOUS
  <2>2. i \in Int
    BY <1>4
  <2>3. (i + n) - (i + 1) + 1 = n /\ \A j \in 1..n : j + (i + 1) - 1 = i + j
    BY <2>2
  <2> QED
    BY <2>1, <2>3
<1>8. l \in S
  <2>1. l \in 0..(Len(z) - n)
    BY <1>1, <1>6
  <2>2. [j \in 1..n |-> z[l + j]] = Zeros(n)
    BY <1>6 DEF Zeros
  <2> QED
    BY <1>7, <2>1, <2>2
<1>9. \A i \in S : l <= i
  <2> SUFFICES ASSUME NEW i \in S, i < l PROVE FALSE
    BY <1>1, <1>6
  <2>1. i \in 0..(Len(z) - n) /\ i \in Nat
    BY <1>6
  <2>2. \A j \in 1..n : z[i + j] = 0
    <3>1. [j \in 1..n |-> z[i + j]] = Zeros(n)
      BY <1>7, <2>1
    <3> QED
      BY <3>1 DEF Zeros
  <2>3. CASE i + n <= l
    <3>1. i \in 0..(l - n)
      BY <1>1, <2>1, <2>3
    <3>2. PICK j \in 1..n : pre[i + j] # 0
      BY <1>1, <3>1 DEF NoRun, l
    <3>3. i + j \in 1..l
      BY <1>1, <2>1, <2>3
    <3> QED
      BY <1>6, <2>2, <3>2, <3>3
  <2>4. CASE i + n > l
    <3>1. l - i \in 1..n /\ i + (l - i) = l /\ l \in 1..l
      BY <1>1, <2>1, <2>4
    <3>2. z[l] = 0
      BY <2>2, <3>1
    <3> QED
      BY <1>1, <1>6, <3>1, <3>2
  <2> QED
    BY <1>1, <2>1, <2>3, <2>4
<1>10. Min(S) = l
  <2>1. S \in SUBSET Nat /\ S # {}
    <3>1. S \subseteq 0..(Len(z) - n) /\ \A i \in 0..(Len(z) - n) : i \in Nat
      OBVIOUS
    <3> HIDE DEF S
    <3> QED
      BY <1>8, <3>1
  <2> HIDE DEF S
  <2>2. Min(S) \in S /\ \A i \in S : Min(S) <= i
    BY <2>1, MinIs
  <2>3. Min(S) <= l /\ l <= Min(S) /\ Min(S) \in Nat
    BY <1>8, <1>9, <2>1, <2>2
  <2> QED
    BY <1>1, <2>3
<1> QED
  BY <1>5, <1>10 DEF Between, z, rest, o, l

\* What is written over bytes in the middle stands there, and nothing else
\* changes.
LEMMA WrittenBetween ==
    ASSUME NEW pre \in Seq(Byte), NEW was \in Seq(Byte), NEW mac \in Seq(Byte),
           NEW post \in Seq(Byte), Len(was) = Len(mac)
    PROVE  WriteAt(Between(pre, was, post), Len(pre), mac) = Between(pre, mac, post)
<1> DEFINE n == Len(mac)
           l == Len(pre)
           x == was \o post
           y == mac \o post
           z == pre \o x
           w == pre \o y
<1>1. /\ x \in Seq(Byte) /\ Len(x) = n + Len(post)
      /\ \A i \in 1..Len(post) : x[n + i] = post[i]
  <2>1. /\ x \in Seq(Byte) /\ Len(x) = Len(was) + Len(post)
        /\ \A i \in 1..Len(post) : x[Len(was) + i] = post[i]
    BY Appended
  <2> HIDE DEF x
  <2> QED
    BY <2>1
<1>2. /\ y \in Seq(Byte) /\ Len(y) = n + Len(post)
      /\ \A i \in 1..n : y[i] = mac[i]
      /\ \A i \in 1..Len(post) : y[n + i] = post[i]
  BY Appended
<1> HIDE DEF x, y
<1>3. /\ z \in Seq(Byte) /\ Len(z) = l + Len(x)
      /\ \A i \in 1..l : z[i] = pre[i]
      /\ \A i \in 1..Len(x) : z[l + i] = x[i]
  BY <1>1, Appended
<1>4. /\ w \in Seq(Byte) /\ Len(w) = l + Len(y)
      /\ \A i \in 1..l : w[i] = pre[i]
      /\ \A i \in 1..Len(y) : w[l + i] = y[i]
  BY <1>2, Appended
<1> HIDE DEF z, w
<1>5. n \in Nat /\ l \in Nat /\ Len(post) \in Nat
  OBVIOUS
<1> DEFINE at == WriteAt(z, l, mac)
           s == Len(z)
<1>6. at = [i \in 1..s |-> IF i \in (l + 1)..(l + n) THEN mac[i - l] ELSE z[i]]
  BY <1>3 DEF WriteAt
<1> HIDE DEF n, l, at
<1>7. \A i \in 1..s : at[i] = w[i]
  <2> TAKE i \in 1..s
  <2>1. s = l + n + Len(post) /\ i \in Nat
    BY <1>1, <1>3, <1>5
  <2> HIDE DEF s
  <2>2. CASE i <= l
    <3>1. i \in 1..l /\ i \notin (l + 1)..(l + n)
      BY <1>5, <2>1, <2>2
    <3> QED
      BY <1>3, <1>4, <1>6, <3>1
  <2>3. CASE i > l /\ i <= l + n
    <3>1. i \in (l + 1)..(l + n) /\ i - l \in 1..n /\ l + (i - l) = i /\ i - l \in 1..Len(y)
      BY <1>2, <1>5, <2>1, <2>3
    <3>2. at[i] = mac[i - l]
      BY <1>6, <3>1
    <3>3. w[l + (i - l)] = y[i - l] /\ y[i - l] = mac[i - l]
      BY <1>2, <1>4, <3>1
    <3> QED
      BY <3>1, <3>2, <3>3
  <2>4. CASE i > l + n
    <3> DEFINE j == i - l - n
    <3>1. /\ i \notin (l + 1)..(l + n) /\ j \in 1..Len(post) /\ l + (n + j) = i
          /\ n + j \in 1..Len(x) /\ n + j \in 1..Len(y)
      BY <1>1, <1>2, <1>5, <2>1, <2>4
    <3> HIDE DEF j
    <3>2. z[i] = post[j] /\ w[i] = post[j]
      BY <1>1, <1>2, <1>3, <1>4, <3>1
    <3> QED
      BY <1>6, <3>1, <3>2
  <2> QED
    BY <1>5, <2>1, <2>2, <2>3, <2>4
<1>8. w \in Seq(Byte) /\ Len(w) = s
  BY <1>1, <1>2, <1>3, <1>4
<1>9. w = [i \in 1..s |-> w[i]]
  BY <1>8
<1> HIDE DEF s
<1>10. at = w
  BY <1>6, <1>7, <1>9
<1> QED
  BY <1>10 DEF Between, at, l, z, w, x, y

LEMMA BetweenType ==
    ASSUME NEW pre \in Seq(Byte), NEW x \in Seq(Byte), NEW post \in Seq(Byte)
    PROVE  /\ Between(pre, x, post) \in Seq(Byte)
           /\ Len(Between(pre, x, post)) = Len(pre) + Len(x) + Len(post)
<1> DEFINE y == x \o post
           z == pre \o y
<1>1. y \in Seq(Byte) /\ Len(y) = Len(x) + Len(post)
  BY Appended
<1> HIDE DEF y
<1>2. z \in Seq(Byte) /\ Len(z) = Len(pre) + Len(y)
  BY <1>1, Appended
<1> HIDE DEF z
<1>3. z \in Seq(Byte) /\ Len(z) = Len(pre) + Len(x) + Len(post)
  BY <1>1, <1>2
<1> QED
  BY <1>3 DEF Between, z, y

LEMMA TlvType ==
    ASSUME NEW tag \in Byte, NEW content \in Seq(Byte)
    PROVE  Tlv(tag, content) \in Seq(Byte)
<1> DEFINE h == Header(tag, Len(content))
<1>1. h \in Seq(Byte)
  BY HeaderIs
<1>2. Tlv(tag, content) = h \o content
  BY TlvHeaded
<1> HIDE DEF h
<1> QED
  BY <1>1, <1>2, Appended

LEMMA ClearEnclosed ==
    ASSUME NEW n \in Nat, n > 3, NEW tag \in Byte, tag # 0, NEW x, Clear(x, n)
    PROVE  Clear(Tlv(tag, x), n)
<1>1. x \in Seq(Byte) /\ Len(x) \in Nat /\ n \in Nat \ {0}
  BY DEF Clear
<1>2. Clear(Header(tag, Len(x)), n)
  BY <1>1, ClearHeader
<1>3. Tlv(tag, x) = Header(tag, Len(x)) \o x
  BY <1>1, TlvHeaded
<1> QED
  BY <1>1, <1>2, <1>3, ClearBoth

\* The bytes u and w differ only in that u has zeros where w has the MAC, and
\* no run of as many begins earlier in u.
MacOnly(u, w, mac) ==
    \E pre, post \in Seq(Byte) :
        /\ Clear(pre, Len(mac)) /\ pre[Len(pre)] # 0
        /\ u = Between(pre, Zeros(Len(mac)), post)
        /\ w = Between(pre, mac, post)

\* What send_request does to u makes w of it.
LEMMA MacWritten ==
    ASSUME NEW mac \in Seq(Byte), mac # <<>>, NEW u, NEW w, MacOnly(u, w, mac)
    PROVE  WriteAt(u, FindAuthPlaceholder(u, Len(mac)), mac) = w
<1> DEFINE n == Len(mac)
           o == Zeros(n)
<1>1. n \in Nat \ {0}
  OBVIOUS
<1>2. o \in Seq(Byte) /\ Len(o) = n
  BY <1>1 DEF Zeros, Byte
<1>3. PICK pre, post \in Seq(Byte) : /\ Clear(pre, n) /\ pre[Len(pre)] # 0
                                     /\ u = Between(pre, o, post)
                                     /\ w = Between(pre, mac, post)
  BY DEF MacOnly
<1>4. FindAuthPlaceholder(Between(pre, Zeros(n), post), n) = Len(pre)
  BY <1>1, <1>3, PlaceholderFound
<1> HIDE DEF o
<1>5. WriteAt(Between(pre, o, post), Len(pre), mac) = Between(pre, mac, post)
  <2>1. Len(o) = Len(mac)
    BY <1>2
  <2> QED
    BY <1>2, <2>1, WrittenBetween
<1> QED
  BY <1>3, <1>4, <1>5 DEF o

LEMMA MacType ==
    ASSUME NEW mac \in Seq(Byte), NEW u, NEW w, MacOnly(u, w, mac)
    PROVE  u \in Seq(Byte) /\ w \in Seq(Byte) /\ Len(u) = Len(w)
<1> DEFINE n == Len(mac)
           o == Zeros(n)
<1>1. o \in Seq(Byte) /\ Len(o) = n /\ n \in Nat
  BY DEF Zeros, Byte
<1>2. PICK pre, post \in Seq(Byte) : u = Between(pre, o, post) /\ w = Between(pre, mac, post)
  BY DEF MacOnly
<1>3. u \in Seq(Byte) /\ Len(u) = Len(pre) + Len(o) + Len(post)
  BY <1>1, <1>2, BetweenType
<1>4. w \in Seq(Byte) /\ Len(w) = Len(pre) + Len(mac) + Len(post)
  BY <1>2, BetweenType
<1> QED
  BY <1>1, <1>3, <1>4

LEMMA MacBehind ==
    ASSUME NEW mac \in Seq(Byte), mac # <<>>, NEW u, NEW w, MacOnly(u, w, mac),
           NEW a, Clear(a, Len(mac))
    PROVE  MacOnly(a \o u, a \o w, mac)
<1> DEFINE n == Len(mac)
           o == Zeros(n)
<1>1. o \in Seq(Byte) /\ n \in Nat \ {0} /\ a \in Seq(Byte)
  BY DEF Zeros, Byte, Clear
<1>2. PICK pre, post \in Seq(Byte) : /\ Clear(pre, n) /\ pre[Len(pre)] # 0
                                     /\ u = Between(pre, o, post)
                                     /\ w = Between(pre, mac, post)
  BY DEF MacOnly
<1> DEFINE b == a \o pre
<1>3. Clear(b, n)
  BY <1>1, <1>2, ClearBoth
<1>4. b \in Seq(Byte) /\ b[Len(b)] # 0
  <2>1. /\ b \in Seq(Byte) /\ Len(b) = Len(a) + Len(pre)
        /\ \A i \in 1..Len(pre) : b[Len(a) + i] = pre[i]
    BY <1>1, Appended
  <2>2. Len(pre) > 0
    BY <1>2 DEF Clear
  <2> HIDE DEF b
  <2>3. Len(pre) \in 1..Len(pre) /\ Len(a) \in Nat
    BY <1>1, <2>2
  <2>4. b[Len(a) + Len(pre)] = pre[Len(pre)]
    BY <2>1, <2>3
  <2> QED
    BY <1>2, <2>1, <2>4
<1>5. a \o u = Between(b, o, post) /\ a \o w = Between(b, mac, post)
  <2> HIDE DEF o, n
  <2>0. a \in Seq(Byte) /\ o \in Seq(Byte)
    BY <1>1
  <2>1. a \o (pre \o (o \o post)) = (a \o pre) \o (o \o post)
    BY <2>0, SMTT(60)
  <2>2. a \o (pre \o (mac \o post)) = (a \o pre) \o (mac \o post)
    BY <2>0, SMTT(60)
  <2> QED
    BY <1>2, <2>1, <2>2, Zenon DEF Between
<1> HIDE DEF b
<1> QED
  BY <1>3, <1>4, <1>5 DEF MacOnly

LEMMA MacBefore ==
    ASSUME NEW mac \in Seq(Byte), NEW u, NEW w, MacOnly(u, w, mac),
           NEW b \in Seq(Byte)
    PROVE  MacOnly(u \o b, w \o b, mac)
<1> DEFINE n == Len(mac)
           o == Zeros(n)
<1>1. o \in Seq(Byte)
  BY DEF Zeros, Byte
<1>2. PICK pre, post \in Seq(Byte) : /\ Clear(pre, n) /\ pre[Len(pre)] # 0
                                     /\ u = Between(pre, o, post)
                                     /\ w = Between(pre, mac, post)
  BY DEF MacOnly
<1>3. post \o b \in Seq(Byte)
  BY Appended
<1>4. u \o b = Between(pre, o, post \o b) /\ w \o b = Between(pre, mac, post \o b)
  <2> HIDE DEF o, n
  <2>1. (pre \o (o \o post)) \o b = pre \o (o \o (post \o b))
    BY <1>1
  <2>2. (pre \o (mac \o post)) \o b = pre \o (mac \o (post \o b))
    OBVIOUS
  <2> QED
    BY <1>2, <2>1, <2>2, Zenon DEF Between
<1> QED
  BY <1>2, <1>3, <1>4 DEF MacOnly

LEMMA MacEnclosed ==
    ASSUME NEW mac \in Seq(Byte), Len(mac) > 3, NEW u, NEW w, MacOnly(u, w, mac),
           NEW tag \in Byte, tag # 0
    PROVE  MacOnly(Tlv(tag, u), Tlv(tag, w), mac)
<1>1. u \in Seq(Byte) /\ w \in Seq(Byte) /\ Len(u) = Len(w) /\ Len(u) \in Nat
  <2>1. u \in Seq(Byte) /\ w \in Seq(Byte) /\ Len(u) = Len(w)
    BY MacType
  <2> QED
    BY <2>1
<1> DEFINE h == Header(tag, Len(u))
<1>2. Tlv(tag, u) = h \o u /\ Tlv(tag, w) = h \o w
  BY <1>1, TlvHeaded
<1>3. Clear(h, Len(mac)) /\ mac # <<>>
  <2>1. Len(mac) \in Nat
    OBVIOUS
  <2> QED
    BY <1>1, <2>1, ClearHeader
<1> HIDE DEF h
<1>4. MacOnly(h \o u, h \o w, mac)
  BY <1>3, MacBehind
<1> QED
  BY <1>2, <1>4

\* The placeholder itself, in its octet string.
LEMMA MacHeld ==
    ASSUME NEW mac \in Seq(Byte), Len(mac) > 3, Len(mac) < 128
    PROVE  MacOnly(OctetString(Zeros(Len(mac))), OctetString(mac), mac)
<1> DEFINE n == Len(mac)
           o == Zeros(n)
           h == Header(OCTET_STRING, n)
           none == SubSeq(mac, 1, 0)
<1>1. n \in Nat /\ n > 3 /\ n < 128 /\ OCTET_STRING \in Byte /\ OCTET_STRING # 0
  BY DEF OCTET_STRING, Byte
<1>2. o \in Seq(Byte) /\ Len(o) = n
  BY <1>1 DEF Zeros, Byte
<1>3. OctetString(o) = h \o o /\ OctetString(mac) = h \o mac
  BY <1>1, <1>2, TlvHeaded DEF OctetString
<1>4. Clear(h, n)
  BY <1>1, ClearHeader
<1>5. h \in Seq(Byte) /\ h[Len(h)] # 0
  <2> DEFINE l == Length(n)
             a == Len(l)
             f == l[1]
  <2>1. /\ h \in Seq(Byte) /\ Len(h) = 1 + a /\ h[2] = f
        /\ IF n < 128 THEN a = 1 /\ f = n ELSE f >= 128
    BY <1>1, HeaderIs
  <2> HIDE DEF l, a, f, h, n
  <2> QED
    BY <1>1, <2>1
<1> HIDE DEF h, o, n
<1>6. none \in Seq(Byte) /\ \A x \in Seq(Byte) : x \o none = x
  OBVIOUS
<1> HIDE DEF none
<1>7. OctetString(o) = Between(h, o, none) /\ OctetString(mac) = Between(h, mac, none)
  BY <1>2, <1>3, <1>6 DEF Between
<1>8. MacOnly(OctetString(o), OctetString(mac), mac)
  BY <1>4, <1>5, <1>6, <1>7 DEF MacOnly, o, n
<1> QED
  BY <1>8 DEF o, n

-----------------------------------------------------------------------------
\* The MAC of a v3 message.

\* The USM parameters of a message.
Params ==
    [engine : Seq(Byte), boots : Unsigned(U32Bytes), time : Unsigned(U32Bytes),
     user : Seq(Byte), auth : Seq(Byte), priv : Seq(Byte)]

\* Parameters with a placeholder for the MAC, and no run of zeros before it that
\* is as long: what finding 4 is not about.  A MAC has 12 or 24 bytes.
Signable(p, mac) ==
    /\ p.auth = Zeros(Len(mac))
    /\ Len(mac) > 3 /\ Len(mac) > U32Bytes + 1 /\ Len(mac) < 128
    /\ Len(p.engine) < 128 /\ ~HasZeroRun(p.engine, Len(mac))
    /\ Len(p.user) < 128 /\ ~HasZeroRun(p.user, Len(mac))

LEMMA ClearInteger ==
    ASSUME NEW n \in Nat, n > 3, n > U32Bytes + 1, n < 128,
           NEW v \in Signed(U32Bytes) \cup Unsigned(U32Bytes)
    PROVE  Clear(Integer(v), n)
<1> DEFINE x == IntegerBytes(v)
<1>1. x \in Seq(Byte) /\ Len(x) <= U32Bytes + 1
  BY IntegerBytesShort
<1>2. INTEGER \in Byte /\ INTEGER # 0 /\ U32Bytes \in Nat
  BY WidthAssumption DEF INTEGER, Byte
<1> HIDE DEF x
<1>3. Len(x) < n /\ Len(x) < 128 /\ Len(x) \in Nat
  BY <1>1, <1>2
<1>4. NoRun(x, n)
  BY <1>3 DEF NoRun
<1>5. Clear(Tlv(INTEGER, x), n)
  BY <1>1, <1>2, <1>3, <1>4, ClearTlv
<1> QED
  BY <1>5 DEF Integer, x

LEMMA ClearOctets ==
    ASSUME NEW n \in Nat, n > 3, NEW x \in Seq(Byte), Len(x) < 128,
           Len(x) < n \/ ~HasZeroRun(x, n)
    PROVE  Clear(OctetString(x), n)
<1>1. OCTET_STRING \in Byte /\ OCTET_STRING # 0
  BY DEF OCTET_STRING, Byte
<1>2. NoRun(x, n)
  <2>1. CASE Len(x) < n
    <3>1. Len(x) \in Nat
      OBVIOUS
    <3> QED
      BY <2>1, <3>1 DEF NoRun
  <2>2. CASE ~HasZeroRun(x, n)
    BY <2>2, NoRunIs
  <2> QED
    BY <2>1, <2>2
<1>3. Clear(Tlv(OCTET_STRING, x), n)
  BY <1>1, <1>2, ClearTlv
<1> QED
  BY <1>3 DEF OctetString

LEMMA HeaderNumbers == 3 \in Unsigned(U32Bytes) /\ 255 \in Unsigned(U32Bytes)
<1> DEFINE P(n) == 256^n
<1>1. \A i \in 0..U64Bytes : \A k \in i..U64Bytes : P(i) <= P(k) /\ P(k) \in Nat
  <2> TAKE i \in 0..U64Bytes
  <2> TAKE k \in i..U64Bytes
  <2> QED
    BY PowersOrdered
<1>2. P(1) = 256
  BY PowersOf256, WidthsNest
<1> HIDE DEF P
<1>3. 1 \in 0..U64Bytes /\ U32Bytes \in 1..U64Bytes
  BY WidthAssumption
<1>4. P(1) <= P(U32Bytes) /\ P(U32Bytes) \in Nat
  BY <1>1, <1>3
<1>5. 3 < P(U32Bytes) /\ 255 < P(U32Bytes)
  BY <1>2, <1>4
<1> QED
  BY <1>5 DEF Unsigned, P

LEMMA UsmDiffers ==
    ASSUME NEW p \in Params, NEW mac \in Seq(Byte), Signable(p, mac)
    PROVE  MacOnly(EncodeUsmParams(p), EncodeUsmParams([p EXCEPT !.auth = mac]), mac)
<1> DEFINE n == Len(mac)
           q == [p EXCEPT !.auth = mac]
           e == OctetString(p.engine)
           b == Integer(p.boots)
           t == Integer(p.time)
           u == OctetString(p.user)
           o == OctetString(Zeros(n))
           m == OctetString(mac)
           r == OctetString(p.priv)
<1>1. /\ p.engine \in Seq(Byte) /\ p.user \in Seq(Byte) /\ p.priv \in Seq(Byte)
      /\ p.boots \in Unsigned(U32Bytes) /\ p.time \in Unsigned(U32Bytes)
  BY DEF Params
<1>2. /\ n \in Nat \ {0} /\ n > 3 /\ n > U32Bytes + 1 /\ n < 128 /\ p.auth = Zeros(n)
      /\ Len(p.engine) < 128 /\ ~HasZeroRun(p.engine, n)
      /\ Len(p.user) < 128 /\ ~HasZeroRun(p.user, n)
  BY DEF Signable
<1>3. /\ EncodeUsmParams(p) = Tlv(SEQUENCE, ((((e \o b) \o t) \o u) \o o) \o r)
      /\ EncodeUsmParams(q) = Tlv(SEQUENCE, ((((e \o b) \o t) \o u) \o m) \o r)
  <2>1. /\ q.engine = p.engine /\ q.boots = p.boots /\ q.time = p.time
        /\ q.user = p.user /\ q.auth = mac /\ q.priv = p.priv
    BY DEF Params
  <2> HIDE DEF q
  <2> QED
    BY <1>2, <2>1, Zenon DEF EncodeUsmParams
<1>4. Clear(e, n) /\ Clear(u, n)
  BY <1>1, <1>2, ClearOctets
<1>5. Clear(b, n) /\ Clear(t, n)
  BY <1>1, <1>2, ClearInteger
<1>6. MacOnly(o, m, mac)
  BY <1>2, MacHeld
<1>7. r \in Seq(Byte) /\ SEQUENCE \in Byte /\ SEQUENCE # 0 /\ mac # <<>>
  <2>1. OCTET_STRING \in Byte /\ SEQUENCE \in Byte /\ SEQUENCE # 0
    BY DEF OCTET_STRING, SEQUENCE, Byte
  <2>2. r \in Seq(Byte)
    BY <1>1, <2>1, TlvType DEF OctetString
  <2> QED
    BY <1>2, <2>1, <2>2
<1> HIDE DEF e, b, t, u, o, m, r, q
<1>8. Clear(e \o b, n)
  BY <1>2, <1>4, <1>5, ClearBoth
<1>9. Clear((e \o b) \o t, n)
  BY <1>2, <1>5, <1>8, ClearBoth
<1>10. Clear(((e \o b) \o t) \o u, n)
  BY <1>2, <1>4, <1>9, ClearBoth
<1>11. MacOnly((((e \o b) \o t) \o u) \o o, (((e \o b) \o t) \o u) \o m, mac)
  BY <1>6, <1>7, <1>10, MacBehind
<1>12. MacOnly(((((e \o b) \o t) \o u) \o o) \o r, ((((e \o b) \o t) \o u) \o m) \o r, mac)
  BY <1>7, <1>11, MacBefore
<1>13. MacOnly(EncodeUsmParams(p), EncodeUsmParams(q), mac)
  BY <1>2, <1>3, <1>7, <1>12, MacEnclosed
<1> QED
  BY <1>13 DEF q

\* The message that send_request encodes around its parameters differs from the
\* one with the MAC in them in the MAC only.
LEMMA MessageDiffers ==
    ASSUME NEW id \in Signed(U32Bytes), NEW flags \in Byte, NEW scoped \in Seq(Byte),
           NEW encrypted \in BOOLEAN, NEW mac \in Seq(Byte),
           Len(mac) > 3, Len(mac) > U32Bytes + 1, Len(mac) < 128,
           NEW u, NEW w, MacOnly(u, w, mac)
    PROVE  MacOnly(EncodeV3Message(id, 255, flags, 3, u, scoped, encrypted),
                   EncodeV3Message(id, 255, flags, 3, w, scoped, encrypted), mac)
<1> DEFINE n == Len(mac)
           i == Integer(id)
           s == Integer(255)
           f == OctetString(<<flags>>)
           v == Integer(3)
           h == Tlv(SEQUENCE, ((i \o s) \o f) \o v)
           body == IF encrypted THEN OctetString(scoped) ELSE scoped
           x == OctetString(u)
           y == OctetString(w)
<1>1. n \in Nat \ {0} /\ n > 3 /\ n > U32Bytes + 1 /\ n < 128 /\ mac # <<>>
  OBVIOUS
<1>2. /\ OCTET_STRING \in Byte /\ OCTET_STRING # 0 /\ SEQUENCE \in Byte /\ SEQUENCE # 0
  BY DEF OCTET_STRING, SEQUENCE, Byte
<1>3. /\ EncodeV3Message(id, 255, flags, 3, u, scoped, encrypted)
            = Tlv(SEQUENCE, ((v \o h) \o x) \o body)
      /\ EncodeV3Message(id, 255, flags, 3, w, scoped, encrypted)
            = Tlv(SEQUENCE, ((v \o h) \o y) \o body)
  BY Zenon DEF EncodeV3Message
<1>4. Clear(i, n) /\ Clear(s, n) /\ Clear(v, n)
  BY <1>1, HeaderNumbers, ClearInteger
<1>5. Clear(f, n)
  <2> DEFINE c == <<flags>>
  <2>1. c \in Seq(Byte) /\ Len(c) = 1
    OBVIOUS
  <2> HIDE DEF c, n
  <2>2. n \in Nat /\ n > 3 /\ c \in Seq(Byte) /\ Len(c) < 128 /\ Len(c) < n
    BY <1>1, <2>1
  <2>3. Clear(OctetString(c), n)
    BY <2>2, ClearOctets
  <2> QED
    BY <2>3 DEF c
<1>6. body \in Seq(Byte)
  BY <1>2, TlvType DEF OctetString
<1>7. MacOnly(x, y, mac)
  BY <1>1, <1>2, MacEnclosed DEF OctetString
<1> HIDE DEF n, i, s, f, v, body, x, y
<1>8. Clear(i \o s, n)
  BY <1>1, <1>4, ClearBoth
<1>9. Clear((i \o s) \o f, n)
  BY <1>1, <1>5, <1>8, ClearBoth
<1>10. Clear(((i \o s) \o f) \o v, n)
  BY <1>1, <1>4, <1>9, ClearBoth
<1>11. Clear(h, n)
  BY <1>1, <1>2, <1>10, ClearEnclosed
<1> HIDE DEF h
<1>12. Clear(v \o h, n)
  BY <1>1, <1>4, <1>11, ClearBoth
<1>13. MacOnly((v \o h) \o x, (v \o h) \o y, mac)
  BY <1>1, <1>7, <1>12, MacBehind DEF n
<1>14. MacOnly(((v \o h) \o x) \o body, ((v \o h) \o y) \o body, mac)
  BY <1>6, <1>13, MacBefore
<1>15. MacOnly(Tlv(SEQUENCE, ((v \o h) \o x) \o body), Tlv(SEQUENCE, ((v \o h) \o y) \o body), mac)
  BY <1>2, <1>14, MacEnclosed
<1> QED
  BY <1>3, <1>15

\* Unless the engine id or the user name holds a run of zeros as long, the MAC
\* that send_request writes into the packet takes the place of its placeholder:
\* the packet is the one that would have been encoded with the MAC known.
THEOREM MacInItsPlace ==
    ASSUME NEW id \in Signed(U32Bytes), NEW flags \in Byte, NEW p \in Params,
           NEW scoped \in Seq(Byte), NEW encrypted \in BOOLEAN,
           NEW mac \in Seq(Byte), Signable(p, mac)
    PROVE  LET packet == EncodeV3Message(id, 255, flags, 3, EncodeUsmParams(p),
                                         scoped, encrypted)
           IN  WriteAt(packet, FindAuthPlaceholder(packet, Len(mac)), mac) =
                   EncodeV3Message(id, 255, flags, 3,
                                   EncodeUsmParams([p EXCEPT !.auth = mac]),
                                   scoped, encrypted)
<1> DEFINE u == EncodeUsmParams(p)
           w == EncodeUsmParams([p EXCEPT !.auth = mac])
<1>1. MacOnly(u, w, mac)
  BY UsmDiffers
<1>2. Len(mac) > 3 /\ Len(mac) > U32Bytes + 1 /\ Len(mac) < 128 /\ mac # <<>>
  BY DEF Signable
<1> HIDE DEF u, w
<1>3. MacOnly(EncodeV3Message(id, 255, flags, 3, u, scoped, encrypted),
              EncodeV3Message(id, 255, flags, 3, w, scoped, encrypted), mac)
  BY <1>1, <1>2, MessageDiffers
<1> QED
  BY <1>2, <1>3, MacWritten DEF u, w

=============================================================================
