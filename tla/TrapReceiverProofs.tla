-------------------------- MODULE TrapReceiverProofs --------------------------
(***************************************************************************)
(* Proofs about TrapReceiver, for any number of callers, every kind of     *)
(* message, every capacity of the socket and every bound: it implements    *)
(* TrapQueue.                                                              *)
(***************************************************************************)
EXTENDS TrapReceiver, SequenceTheorems, FiniteSetTheorems, TLAPS

-----------------------------------------------------------------------------
\* Type correctness, of the sender's variables, the receiver's and the path's.
Entry == [k : Nat, d : Datagram]

SenderType ==
    /\ flight \subseteq Datagram
    /\ sent \in Seq(Message) /\ tries \in Seq(Nat) /\ Len(tries) = Len(sent)
    /\ copies \in Nat
    /\ \A d \in flight : d.n <= Len(sent)

ReceiverType ==
    /\ waiting \subseteq Callers
    /\ got \in [Callers -> Result]
    /\ returns \in Seq(Nat) /\ Len(returns) = Len(sent)
    /\ calls \in Nat

SocketType ==
    /\ sock \in Seq(Entry)
    /\ \A i \in DOMAIN sock : sock[i].d.n <= Len(sent)
    /\ arrived \in Nat

LEMMA TypeParts == TypeOK <=> SenderType /\ ReceiverType /\ SocketType
BY DEF TypeOK, SenderType, ReceiverType, SocketType, Entry

\* The datagram that recv_from returns.
LEMMA HeadType ==
    ASSUME SocketType, sock # <<>>
    PROVE  /\ Head(sock) \in Entry /\ Head(sock) = sock[1]
           /\ Head(sock).d.n \in 1..Len(sent)
           /\ Tail(sock) \in Seq(Entry)
           /\ Len(Tail(sock)) = Len(sock) - 1
           /\ \A i \in DOMAIN Tail(sock) :
                i + 1 \in DOMAIN sock /\ Tail(sock)[i] = sock[i + 1]
<1>1. sock \in Seq(Entry) /\ Len(sock) \in Nat \ {0} /\ 1 \in DOMAIN sock
  BY EmptySeq DEF SocketType
<1>2. Head(sock) = sock[1] /\ sock[1] \in Entry
  BY <1>1
<1>3. sock[1].d.n <= Len(sent) /\ sock[1].d.n \in Nat \ {0}
  BY <1>1, <1>2 DEF SocketType, Entry, Datagram
<1>4. /\ Tail(sock) \in Seq(Entry)
      /\ Len(Tail(sock)) = Len(sock) - 1
      /\ \A i \in 1..Len(Tail(sock)) : Tail(sock)[i] = sock[i + 1]
  BY <1>1, HeadTailProperties
<1> QED
  BY <1>1, <1>2, <1>3, <1>4

\* Taking it leaves the socket well typed.
LEMMA TailType ==
    ASSUME SocketType, sock # <<>>, sock' = Tail(sock), UNCHANGED <<sent, arrived>>
    PROVE  SocketType'
BY HeadType DEF SocketType

\* An arrival, kept or not.
LEMMA EnqueueType ==
    ASSUME SocketType, NEW d \in Datagram, d.n <= Len(sent), Enqueue(d),
           UNCHANGED sent
    PROVE  SocketType'
<1>1. arrived' \in Nat /\ [k |-> arrived', d |-> d] \in Entry
  BY DEF SocketType, Enqueue, Entry
<1>2. CASE Len(sock) < SockCapacity
  <2>1. sock' = Append(sock, [k |-> arrived', d |-> d])
    BY <1>2 DEF Enqueue
  <2>2. /\ sock' \in Seq(Entry) /\ Len(sock') = Len(sock) + 1
        /\ \A i \in 1..Len(sock) : sock'[i] = sock[i]
        /\ sock'[Len(sock) + 1] = [k |-> arrived', d |-> d]
    BY <1>1, <2>1, AppendProperties DEF SocketType
  <2> QED
    BY <1>1, <2>2 DEF SocketType
<1>3. CASE ~(Len(sock) < SockCapacity)
  BY <1>1, <1>3 DEF Enqueue, SocketType
<1> QED
  BY <1>2, <1>3

LEMMA InitType == Init => TypeOK
BY DEF Init, TypeOK, Result, NoResult

\* What a call returns.
LEMMA ResultType ==
    /\ NoResult \in Result
    /\ \A kind \in {"Io", "cancelled", "overflow"} : Err(kind) \in Result
    /\ \A e \in Entry : Decodes(e.d.m) => Ok(e) \in Result
<1>1. ASSUME NEW e \in Entry, Decodes(e.d.m)
      PROVE  Ok(e) \in Result
  <2>1. e.k \in Nat /\ e.d.n \in Nat \ {0}
    BY DEF Entry, Datagram
  <2>2. e.d.m.version \in {"V1", "V2c", "V3"}
    BY <1>1 DEF Decodes
  <2> QED
    BY <2>1, <2>2 DEF Ok, TrapOf, Result
<1> QED
  BY <1>1 DEF NoResult, Err, Result

\* Every step of a caller, of the runtime, of a sender and of the path.
LEMMA StepType == TypeOK /\ [Next]_vars => TypeOK'
<1> SUFFICES ASSUME SenderType, ReceiverType, SocketType, [Next]_vars
             PROVE  SenderType' /\ ReceiverType' /\ SocketType'
  BY TypeParts, PTL
<1>1. ASSUME NEW c \in Callers, Recv(c)
      PROVE  SenderType' /\ ReceiverType' /\ SocketType'
  BY <1>1, ResultType
     DEF Recv, senderVars, SenderType, ReceiverType, SocketType
<1>2. ASSUME NEW c \in Callers, NEW kind \in {"Io", "cancelled"}, GiveUp(c, kind)
      PROVE  SenderType' /\ ReceiverType' /\ SocketType'
  BY <1>2, ResultType
     DEF GiveUp, Return, senderVars, SenderType, ReceiverType, SocketType
<1>3. ASSUME NEW c \in Callers, TakeTrap(c)
      PROVE  SenderType' /\ ReceiverType' /\ SocketType'
  <2>1. sock # <<>> /\ Ok(Head(sock)) \in Result
    BY <1>3, HeadType, ResultType DEF TakeTrap
  <2>2. Head(sock).d.n \in DOMAIN returns
    BY <2>1, HeadType DEF ReceiverType
  <2>3. returns' \in Seq(Nat) /\ Len(returns') = Len(returns)
    BY <1>3, <2>2 DEF TakeTrap, ReceiverType
  <2>4. SocketType'
    BY <1>3, <2>1, TailType DEF TakeTrap, Return, senderVars
  <2> QED
    BY <1>3, <2>1, <2>3, <2>4 DEF TakeTrap, Return, senderVars, SenderType, ReceiverType
<1>4. ASSUME NEW c \in Callers, SkipDatagram(c)
      PROVE  SenderType' /\ ReceiverType' /\ SocketType'
  <2>1. SocketType'
    BY <1>4, TailType DEF SkipDatagram, senderVars
  <2> QED
    BY <1>4, <2>1 DEF SkipDatagram, senderVars, receiverVars, SenderType, ReceiverType
<1>10. ASSUME NEW c \in Callers, PanicDatagram(c)
       PROVE  SenderType' /\ ReceiverType' /\ SocketType'
  <2>1. SocketType'
    BY <1>10, TailType DEF PanicDatagram, Return, senderVars
  <2> QED
    BY <1>10, <2>1, ResultType
       DEF PanicDatagram, Return, senderVars, SenderType, ReceiverType
<1>5. CASE Notify
  <2>1. PICK m \in Kinds :
          /\ sent' = Append(sent, m)
          /\ flight' = flight \cup {[n |-> Len(sent'), try |-> 1, m |-> m]}
    BY <1>5 DEF Notify
  <2>2. m \in Message
    BY ReceiverAssumption
  <2>3. sent' \in Seq(Message) /\ Len(sent') = Len(sent) + 1
    BY <2>1, <2>2 DEF SenderType
  <2>4. tries' \in Seq(Nat) /\ returns' \in Seq(Nat)
        /\ Len(tries') = Len(sent') /\ Len(returns') = Len(sent')
    BY <1>5, <2>3 DEF Notify, SenderType, ReceiverType
  <2>5. [n |-> Len(sent'), try |-> 1, m |-> m] \in Datagram
    BY <2>2, <2>3 DEF SenderType, Datagram
  <2>6. \A d \in flight : d.n <= Len(sent')
    BY <2>3 DEF SenderType, Datagram
  <2>7. SocketType'
    <3>1. UNCHANGED <<sock, arrived>>
      BY <1>5 DEF Notify
    <3>2. ASSUME NEW i \in DOMAIN sock
          PROVE  sock[i].d.n <= Len(sent')
      <4>1. sock[i].d.n <= Len(sent) /\ sock[i] \in Entry
        BY DEF SocketType
      <4>2. sock[i].d.n \in Nat /\ Len(sent) \in Nat
        BY <4>1 DEF Entry, Datagram, SenderType
      <4> QED
        BY <2>3, <4>1, <4>2
    <3> QED
      BY <3>1, <3>2 DEF SocketType
  <2> QED
    BY <1>5, <2>1, <2>3, <2>4, <2>5, <2>6, <2>7
       DEF Notify, SenderType, ReceiverType
<1>6. CASE Repeat
  <2>1. PICK n \in DOMAIN sent :
          /\ tries' = [tries EXCEPT ![n] = @ + 1]
          /\ flight' = flight \cup {[n |-> n, try |-> tries'[n], m |-> sent[n]]}
    BY <1>6 DEF Repeat
  <2>2. n \in 1..Len(sent) /\ sent[n] \in Message /\ n \in DOMAIN tries
    BY DEF SenderType
  <2>3. tries' \in Seq(Nat) /\ Len(tries') = Len(tries) /\ tries'[n] \in Nat
    BY <2>1, <2>2 DEF SenderType
  <2>4. [n |-> n, try |-> tries'[n], m |-> sent[n]] \in Datagram
    BY <2>2, <2>3 DEF Datagram
  <2> QED
    BY <1>6, <2>1, <2>2, <2>3, <2>4
       DEF Repeat, receiverVars, SenderType, ReceiverType, SocketType
<1>7. CASE Arrive \/ ArriveCopy
  <2>1. PICK d \in flight : Enqueue(d)
    BY <1>7 DEF Arrive, ArriveCopy
  <2>2. SocketType'
    BY <1>7, <2>1, EnqueueType DEF Arrive, ArriveCopy, SenderType
  <2> QED
    BY <1>7, <2>2 DEF Arrive, ArriveCopy, receiverVars, SenderType, ReceiverType
<1>8. CASE Lose
  BY <1>8 DEF Lose, receiverVars, SenderType, ReceiverType, SocketType
<1>9. CASE UNCHANGED vars
  BY <1>9 DEF vars, senderVars, receiverVars, SenderType, ReceiverType, SocketType
<1> QED
  BY <1>1, <1>2, <1>3, <1>4, <1>5, <1>6, <1>7, <1>8, <1>9, <1>10
     DEF Next, Poll, RecvFails, Cancel

\* Whatever is sent and however it arrives, what recv returned is a result that
\* trap.rs builds, and the socket holds datagrams that were sent.
THEOREM TypeCorrect == Spec => []TypeOK
BY InitType, StepType, PTL DEF Spec

-----------------------------------------------------------------------------
\* What the socket holds, as the queue of TrapQueue: datagrams numbered as
\* they came in, of which those that decode are pending.
Ascending ==
    /\ \A i \in DOMAIN sock : sock[i].k <= arrived
    /\ \A i, j \in DOMAIN sock : i < j => sock[i].k < sock[j].k

TrapIn(e) == [k |-> e.k, trap |-> TrapOf(e.d)]

Pending == {TrapIn(sock[i]) : i \in {j \in DOMAIN sock : Decodes(sock[j].d.m)}}

LEMMA EntryNumber ==
    ASSUME sock \in Seq(Entry), NEW i \in DOMAIN sock
    PROVE  sock[i] \in Entry /\ sock[i].k \in Nat
<1>1. sock[i] \in Entry
  OBVIOUS
<1> QED
  BY <1>1 DEF Entry

LEMMA PendingIs ==
    \A e : e \in Pending <=>
             \E i \in DOMAIN sock : Decodes(sock[i].d.m) /\ e = TrapIn(sock[i])
BY DEF Pending

\* Taking the first datagram keeps the order.
LEMMA TailAscending ==
    ASSUME TypeOK, Ascending, sock # <<>>, sock' = Tail(sock), UNCHANGED arrived
    PROVE  Ascending'
<1>1. SocketType
  BY TypeParts
<1>2. \A i \in DOMAIN Tail(sock) :
        i + 1 \in DOMAIN sock /\ Tail(sock)[i] = sock[i + 1]
  BY <1>1, HeadType
<1>3. DOMAIN Tail(sock) \subseteq Int
  BY <1>1, HeadType
<1>4. ASSUME NEW i \in DOMAIN Tail(sock)
      PROVE  Tail(sock)[i].k <= arrived
  BY <1>2 DEF Ascending
<1>5. ASSUME NEW i \in DOMAIN Tail(sock), NEW j \in DOMAIN Tail(sock), i < j
      PROVE  Tail(sock)[i].k < Tail(sock)[j].k
  <2>1. i + 1 < j + 1
    BY <1>3, <1>5
  <2> QED
    BY <1>2, <2>1 DEF Ascending
<1> QED
  BY <1>4, <1>5 DEF Ascending

\* So does an arrival, which comes last; and it adds to what is pending the
\* trap that it is, if it is one and is kept.
LEMMA EnqueueAscending ==
    ASSUME TypeOK, Ascending, NEW d \in flight, Enqueue(d)
    PROVE  /\ arrived' > arrived
           /\ Ascending'
           /\ Pending \subseteq Pending'
           /\ \A e \in Pending' : e \in Pending \/ e.k = arrived'
<1>1. arrived \in Nat /\ arrived' = arrived + 1 /\ sock \in Seq(Entry)
  BY DEF TypeOK, Enqueue, Entry
<1>2. \A i \in DOMAIN sock : sock[i].k \in Nat
  BY <1>1, EntryNumber
<1>3. CASE sock' = sock
  BY <1>1, <1>2, <1>3 DEF Ascending, Pending
<1>4. CASE sock' = Append(sock, [k |-> arrived', d |-> d])
  <2>1. d \in Datagram /\ [k |-> arrived', d |-> d] \in Entry
    BY <1>1 DEF TypeOK, Entry
  <2>2. /\ DOMAIN sock' = 1..(Len(sock) + 1) /\ DOMAIN sock = 1..Len(sock)
        /\ \A i \in DOMAIN sock : sock'[i] = sock[i]
        /\ sock'[Len(sock) + 1] = [k |-> arrived', d |-> d]
        /\ Len(sock) \in Nat
    BY <1>1, <1>4, <2>1, AppendProperties
  <2>3. Ascending'
    BY <1>1, <1>2, <2>2 DEF Ascending
  <2>4. Pending \subseteq Pending'
    BY <2>2 DEF Pending
  <2>5. ASSUME NEW e \in Pending'
        PROVE  e \in Pending \/ e.k = arrived'
    <3>1. PICK i \in DOMAIN sock' :
            Decodes(sock'[i].d.m) /\ e = TrapIn(sock'[i])
      BY <2>5 DEF Pending
    <3>2. CASE i \in DOMAIN sock
      BY <2>2, <3>1, <3>2 DEF Pending
    <3>3. CASE i = Len(sock) + 1
      BY <2>2, <3>1, <3>3 DEF TrapIn
    <3> QED
      BY <2>2, <3>2, <3>3
  <2> QED
    BY <1>1, <2>3, <2>4, <2>5
<1> QED
  BY <1>3, <1>4 DEF Enqueue

\* A trap pending is named by its number.
LEMMA PendingNamed ==
    TypeOK /\ Ascending => \A e, f \in Pending : e.k = f.k => e = f
<1> SUFFICES ASSUME TypeOK, Ascending, NEW e \in Pending, NEW f \in Pending, e.k = f.k
             PROVE  e = f
  OBVIOUS
<1>1. PICK i \in DOMAIN sock : e = TrapIn(sock[i])
  BY PendingIs
<1>2. PICK j \in DOMAIN sock : f = TrapIn(sock[j])
  BY PendingIs
<1>3. sock \in Seq(Entry) /\ i \in Int /\ j \in Int /\ sock[i] \in Entry
  BY TypeParts DEF SocketType
<1>4. sock[i].k = sock[j].k /\ sock[i].k \in Nat
  BY <1>1, <1>2, <1>3 DEF TrapIn, Entry
<1>5. ~(i < j) /\ ~(j < i)
  BY <1>4 DEF Ascending
<1>6. i = j
  BY <1>3, <1>5
<1> QED
  BY <1>1, <1>2, <1>6

\* What pends once the first datagram is off the socket.
LEMMA TailPending ==
    ASSUME TypeOK, Ascending, sock # <<>>, sock' = Tail(sock)
    PROVE  /\ ~Decodes(Head(sock).d.m) => Pending' = Pending
           /\ Decodes(Head(sock).d.m) =>
                /\ TrapIn(Head(sock)) \in Pending
                /\ \A f \in Pending : TrapIn(Head(sock)).k <= f.k
                /\ Pending' = Pending \ {TrapIn(Head(sock))}
<1>1. /\ SocketType /\ Len(sock) \in Nat \ {0} /\ DOMAIN sock = 1..Len(sock)
      /\ \A i \in DOMAIN sock : sock[i].k \in Nat
  <2>1. SocketType /\ sock \in Seq(Entry)
    BY TypeParts DEF SocketType
  <2>2. Len(sock) \in Nat \ {0} /\ DOMAIN sock = 1..Len(sock)
    BY <2>1, EmptySeq
  <2> QED
    BY <2>1, <2>2, EntryNumber
<1>2. /\ Head(sock) = sock[1]
      /\ DOMAIN Tail(sock) = 1..(Len(sock) - 1)
      /\ \A i \in DOMAIN Tail(sock) :
            i + 1 \in DOMAIN sock /\ Tail(sock)[i] = sock[i + 1]
  BY <1>1, HeadType
<1>3. \A e : e \in Pending' <=>
               \E i \in 2..Len(sock) : Decodes(sock[i].d.m) /\ e = TrapIn(sock[i])
  <2>1. ASSUME NEW i \in DOMAIN Tail(sock)
        PROVE  i + 1 \in 2..Len(sock) /\ Tail(sock)[i] = sock[i + 1]
    BY <1>1, <1>2
  <2>2. ASSUME NEW i \in 2..Len(sock)
        PROVE  i - 1 \in DOMAIN Tail(sock) /\ Tail(sock)[i - 1] = sock[i]
    BY <1>1, <1>2
  <2>3. \A e : e \in Pending' <=>
                 \E i \in DOMAIN Tail(sock) :
                    Decodes(Tail(sock)[i].d.m) /\ e = TrapIn(Tail(sock)[i])
    BY DEF Pending, TrapIn
  <2>4. ASSUME NEW e, e \in Pending'
        PROVE  \E i \in 2..Len(sock) : Decodes(sock[i].d.m) /\ e = TrapIn(sock[i])
    <3>1. PICK i \in DOMAIN Tail(sock) :
            Decodes(Tail(sock)[i].d.m) /\ e = TrapIn(Tail(sock)[i])
      BY <2>3, <2>4
    <3> QED
      BY <2>1, <3>1
  <2>5. ASSUME NEW i \in 2..Len(sock), Decodes(sock[i].d.m)
        PROVE  TrapIn(sock[i]) \in Pending'
    BY <2>2, <2>3, <2>5
  <2> QED
    BY <2>4, <2>5
<1>4. \A i : i \in DOMAIN sock <=> i = 1 \/ i \in 2..Len(sock)
  BY <1>1
<1>5. CASE ~Decodes(Head(sock).d.m)
  <2>1. \A e : e \in Pending' <=> e \in Pending
    BY <1>2, <1>3, <1>4, <1>5, PendingIs
  <2> QED
    BY <1>5, <2>1
<1>6. CASE Decodes(Head(sock).d.m)
  <2> DEFINE first == TrapIn(sock[1])
  <2>1. \A e : e \in Pending <=> e \in Pending' \/ e = first
    BY <1>2, <1>3, <1>4, <1>6, PendingIs
  <2>2. ASSUME NEW f \in Pending'
        PROVE  first.k < f.k /\ f # first
    <3>1. PICK i \in 2..Len(sock) : f = TrapIn(sock[i])
      BY <1>3
    <3>2. sock[1].k < sock[i].k /\ sock[1].k \in Nat /\ sock[i].k \in Nat
      BY <1>1 DEF Ascending
    <3>3. f.k = sock[i].k /\ first.k = sock[1].k
      BY <3>1 DEF TrapIn
    <3> QED
      BY <3>2, <3>3
  <2>3. first.k = sock[1].k /\ sock[1].k \in Nat
    BY <1>1 DEF TrapIn
  <2>4. \A f \in Pending : first.k <= f.k
    <3> SUFFICES ASSUME NEW f \in Pending
                 PROVE  first.k <= f.k
      OBVIOUS
    <3>1. PICK i \in DOMAIN sock : f = TrapIn(sock[i])
      BY PendingIs
    <3>2. f.k = sock[i].k /\ sock[i].k \in Nat
      BY <1>1, <3>1 DEF TrapIn
    <3>3. i = 1 \/ sock[1].k < sock[i].k
      BY <1>1 DEF Ascending
    <3> QED
      BY <2>3, <3>2, <3>3
  <2>5. \A e : e \in Pending' <=> e \in Pending /\ e # first
    BY <2>1, <2>2
  <2>6. Pending' = Pending \ {first}
    BY <2>5
  <2> QED
    BY <1>2, <1>6, <2>1, <2>4, <2>6
<1> QED
  BY <1>5, <1>6

\* Every step of the receiver is one of the queue, or none of it.
LEMMA QueueStep ==
    ASSUME TypeOK, Ascending, [Next]_vars
    PROVE  Ascending' /\ [Queue!QueueNext]_(Queue!queueVars)
<1> DEFINE Idle == UNCHANGED <<sock, arrived>>
<1>0. Idle => Ascending' /\ Pending' = Pending
  BY DEF Ascending, Pending
<1>m. /\ Pending = {[k |-> sock[i].k, trap |-> TrapOf(sock[i].d)] :
                       i \in {j \in DOMAIN sock : Decodes(sock[j].d.m)}}
      /\ Pending' = {[k |-> sock[i].k, trap |-> TrapOf(sock[i].d)] :
                       i \in {j \in DOMAIN sock : Decodes(sock[j].d.m)}}'
  BY DEF Pending, TrapIn
<1>1. ASSUME NEW c \in Callers, Recv(c)
      PROVE  Ascending' /\ Queue!Wait(c)
  <2>1. Idle /\ NoResult = Queue!Nothing
    BY <1>1 DEF Recv, senderVars, NoResult, Queue!Nothing
  <2> QED
    BY <1>0, <1>m, <1>1, <2>1 DEF Recv, Queue!Wait
<1>2. ASSUME NEW c \in Callers, NEW kind \in {"Io", "cancelled"}, GiveUp(c, kind)
      PROVE  Ascending' /\ Queue!GiveUp(c)
  <2>1. Idle /\ Err(kind) = Queue!Failure(kind)
    BY <1>2 DEF GiveUp, Return, senderVars, Err, Queue!Failure
  <2> QED
    BY <1>0, <1>m, <1>2, <2>1 DEF GiveUp, Return, Queue!GiveUp
<1>3. ASSUME NEW c \in Callers, TakeTrap(c)
      PROVE  Ascending' /\ Queue!Deliver(c)
  <2>1. sock # <<>> /\ sock' = Tail(sock) /\ Decodes(Head(sock).d.m)
        /\ UNCHANGED arrived /\ c \in waiting
    BY <1>3 DEF TakeTrap, Return
  <2>2. /\ TrapIn(Head(sock)) \in Pending
        /\ \A f \in Pending : TrapIn(Head(sock)).k <= f.k
        /\ Pending' = Pending \ {TrapIn(Head(sock))}
    BY <2>1, TailPending
  <2>3. Ok(Head(sock)) = Queue!Trap(TrapIn(Head(sock)))
    BY DEF Ok, TrapIn, Queue!Trap
  <2>4. waiting' = waiting \ {c} /\ got' = [got EXCEPT ![c] = Ok(Head(sock))]
    BY <1>3 DEF TakeTrap, Return
  <2> QED
    BY <1>m, <2>1, <2>2, <2>3, <2>4, TailAscending DEF Queue!Deliver, Queue!Oldest
<1>4. ASSUME NEW c \in Callers, SkipDatagram(c)
      PROVE  Ascending' /\ UNCHANGED Queue!queueVars
  <2>1. sock # <<>> /\ sock' = Tail(sock) /\ ~Decodes(Head(sock).d.m)
        /\ UNCHANGED <<arrived, waiting, got>>
    BY <1>4 DEF SkipDatagram, receiverVars
  <2>2. Ascending' /\ Pending' = Pending
    BY <2>1, TailPending, TailAscending
  <2> QED
    BY <1>m, <2>1, <2>2 DEF Queue!queueVars
<1>7. ASSUME NEW c \in Callers, PanicDatagram(c)
      PROVE  Ascending' /\ Queue!GiveUp(c)
  <2>1. /\ sock # <<>> /\ sock' = Tail(sock) /\ ~Decodes(Head(sock).d.m)
        /\ UNCHANGED arrived /\ c \in waiting
        /\ waiting' = waiting \ {c} /\ got' = [got EXCEPT ![c] = Err("overflow")]
    BY <1>7 DEF PanicDatagram, Return, Decodes
  <2>2. Ascending' /\ Pending' = Pending
    BY <2>1, TailPending, TailAscending
  <2>3. Err("overflow") = Queue!Failure("overflow")
    BY DEF Err, Queue!Failure
  <2> QED
    BY <1>m, <2>1, <2>2, <2>3 DEF Queue!GiveUp
<1>5. CASE Arrive \/ ArriveCopy
  <2>1. PICK d \in flight : Enqueue(d)
    BY <1>5 DEF Arrive, ArriveCopy
  <2>2. UNCHANGED <<waiting, got>>
    BY <1>5 DEF Arrive, ArriveCopy, receiverVars
  <2>3. /\ arrived' > arrived /\ Ascending' /\ Pending \subseteq Pending'
        /\ \A e \in Pending' : e \in Pending \/ e.k = arrived'
    BY <2>1, EnqueueAscending
  <2>4. TypeOK'
    BY StepType
  <2>5. \A e, f \in Pending' : e.k = f.k => e = f
    <3>1. (TypeOK /\ Ascending => \A e, f \in Pending : e.k = f.k => e = f)'
      BY PendingNamed, PTL
    <3> QED
      BY <2>3, <2>4, <3>1
  <2>6. Queue!Arrive
    BY <1>m, <2>2, <2>3, <2>5 DEF Queue!Arrive
  <2> QED
    BY <2>3, <2>6 DEF Queue!QueueNext
<1>6. CASE Notify \/ Repeat \/ Lose \/ UNCHANGED vars
  <2>1. Idle /\ UNCHANGED <<waiting, got>>
    BY <1>6 DEF Notify, Repeat, Lose, vars, receiverVars
  <2> QED
    BY <1>0, <1>m, <2>1 DEF Queue!queueVars
<1> QED
  BY <1>1, <1>2, <1>3, <1>4, <1>5, <1>6, <1>7
     DEF Next, Poll, RecvFails, Cancel, Queue!QueueNext

\* The receiver implements the queue of traps: in order, each trap to one
\* caller, and none lost to a skipped datagram, a failing socket or a caller
\* that gives up.
THEOREM ReceiverIsQueue == Spec => Implements
<1>1. Init => Ascending /\ Queue!QueueInit
  BY DEF Init, Ascending, Queue!QueueInit, Queue!Nothing, NoResult
<1>2. TypeOK /\ Ascending /\ [Next]_vars
        => Ascending' /\ [Queue!QueueNext]_(Queue!queueVars)
  BY QueueStep
<1> QED
  BY <1>1, <1>2, TypeCorrect, PTL DEF Spec, Implements, Queue!QueueSpec

-----------------------------------------------------------------------------
\* How often a message can still be returned: it was returned already, or the
\* socket holds it, or one of its sender's tries is under way; and each copy the
\* path makes allows for one more.
Try(n, t) == [n |-> n, try |-> t, m |-> sent[n]]

UnderWay(n) == {t \in 1..tries[n] : Try(n, t) \in flight}

Kept(n) == {k \in 0..arrived : \E i \in DOMAIN sock : sock[i].k = k /\ sock[i].d.n = n}

\* What is under way and what the socket holds is as it was sent.
AsSent ==
    /\ \A d \in flight : d.m = sent[d.n] /\ d.try \in 1..tries[d.n]
    /\ \A i \in DOMAIN sock : sock[i].d.m = sent[sock[i].d.n]

SentOnce == \A n \in DOMAIN sent : ~Confirmed(sent[n]) => tries[n] = 1

Unread == \A n \in DOMAIN sent : ~Decodes(sent[n]) => returns[n] = 0

Accounted ==
    \A n \in DOMAIN sent :
        returns[n] + Cardinality(Kept(n)) + Cardinality(UnderWay(n))
           <= tries[n] + copies

Tally == AsSent /\ SentOnce /\ Unread /\ Accounted

LEMMA KeptFinite ==
    ASSUME SocketType, NEW n
    PROVE  IsFiniteSet(Kept(n)) /\ Cardinality(Kept(n)) \in Nat
<1>1. IsFiniteSet(0..arrived)
  BY FS_Interval DEF SocketType
<1>2. IsFiniteSet(Kept(n))
  BY <1>1, FS_Subset DEF Kept
<1> QED
  BY <1>2, FS_CardinalityType

\* Taking the first datagram off the socket leaves one of its message less.
LEMMA TailKept ==
    ASSUME TypeOK, Ascending, sock # <<>>, sock' = Tail(sock), UNCHANGED arrived,
           NEW n
    PROVE  IF Head(sock).d.n = n
           THEN Cardinality(Kept(n)') = Cardinality(Kept(n)) - 1
           ELSE Kept(n)' = Kept(n)
<1>1. /\ SocketType /\ DOMAIN sock = 1..Len(sock) /\ Len(sock) \in Nat \ {0}
      /\ \A i \in DOMAIN sock : sock[i].k \in Nat
  BY TypeParts, EmptySeq, EntryNumber DEF SocketType
<1>2. /\ Head(sock) = sock[1]
      /\ DOMAIN Tail(sock) = 1..(Len(sock) - 1)
      /\ \A i \in DOMAIN Tail(sock) :
            i + 1 \in DOMAIN sock /\ Tail(sock)[i] = sock[i + 1]
  BY <1>1, HeadType
<1>3. \A i \in DOMAIN sock : i = 1 \/ i - 1 \in DOMAIN Tail(sock)
  BY <1>1, <1>2
<1>4. \A i \in DOMAIN sock : i # 1 =>
        i - 1 \in DOMAIN Tail(sock) /\ Tail(sock)[i - 1] = sock[i]
  BY <1>1, <1>2, <1>3
<1>5. \A i \in DOMAIN Tail(sock) : sock[i + 1].k # sock[1].k
  <2> SUFFICES ASSUME NEW i \in DOMAIN Tail(sock)
               PROVE  sock[i + 1].k # sock[1].k
    OBVIOUS
  <2>1. 1 < i + 1 /\ i + 1 \in DOMAIN sock /\ 1 \in DOMAIN sock
    BY <1>1, <1>2
  <2>2. sock[1].k < sock[i + 1].k
    BY <2>1 DEF Ascending
  <2> QED
    BY <1>1, <2>1, <2>2
<1>6. ASSUME NEW k \in 0..arrived
      PROVE  k \in Kept(n)' <=> k \in Kept(n) /\ k # sock[1].k
  <2>1. k \in Kept(n)' <=> \E i \in DOMAIN Tail(sock) :
                              Tail(sock)[i].k = k /\ Tail(sock)[i].d.n = n
    BY DEF Kept
  <2>2. k \in Kept(n) <=> \E i \in DOMAIN sock : sock[i].k = k /\ sock[i].d.n = n
    BY DEF Kept
  <2>3. ASSUME NEW i \in DOMAIN Tail(sock), Tail(sock)[i].k = k, Tail(sock)[i].d.n = n
        PROVE  k \in Kept(n) /\ k # sock[1].k
    BY <1>2, <1>5, <2>2, <2>3
  <2>4. ASSUME NEW i \in DOMAIN sock, sock[i].k = k, sock[i].d.n = n, k # sock[1].k
        PROVE  k \in Kept(n)'
    <3>1. i - 1 \in DOMAIN Tail(sock) /\ Tail(sock)[i - 1] = sock[i]
      BY <1>4, <2>4
    <3> QED
      BY <2>1, <2>4, <3>1
  <2> QED
    BY <2>1, <2>2, <2>3, <2>4
<1>7. Kept(n) \subseteq 0..arrived /\ Kept(n)' \subseteq 0..arrived
  BY DEF Kept
<1>8. Kept(n)' = Kept(n) \ {sock[1].k}
  BY <1>6, <1>7
<1>9. CASE Head(sock).d.n = n
  <2>1. sock[1].k \in Kept(n)
    BY <1>1, <1>2, <1>9 DEF Kept, Ascending, SocketType
  <2>2. IsFiniteSet(Kept(n))
    BY <1>1, KeptFinite
  <2>3. Cardinality(Kept(n) \ {sock[1].k}) = Cardinality(Kept(n)) - 1
    BY <2>1, <2>2, FS_RemoveElement
  <2> QED
    BY <1>8, <1>9, <2>3
<1>10. CASE Head(sock).d.n # n
  <2>1. sock[1].k \notin Kept(n)
    <3> SUFFICES ASSUME NEW i \in DOMAIN sock, sock[i].k = sock[1].k, sock[i].d.n = n
                 PROVE  FALSE
      BY DEF Kept
    <3>1. i # 1
      BY <1>2, <1>10
    <3>2. i - 1 \in DOMAIN Tail(sock) /\ (i - 1) + 1 = i
      BY <1>1, <1>3, <3>1
    <3> QED
      BY <1>5, <3>2
  <2> QED
    BY <1>8, <1>10, <2>1
<1> QED
  BY <1>9, <1>10

\* An arrival adds at most one of its message.
LEMMA EnqueueKept ==
    ASSUME TypeOK, Ascending, NEW d \in flight, Enqueue(d), NEW n
    PROVE  /\ d.n # n => Kept(n)' = Kept(n)
           /\ Cardinality(Kept(n)') <= Cardinality(Kept(n)) + 1
<1>1. /\ SocketType /\ arrived \in Nat /\ arrived' = arrived + 1
      /\ sock \in Seq(Entry) /\ d \in Datagram
  BY TypeParts DEF SocketType, SenderType, Enqueue
<1>2. /\ DOMAIN sock = 1..Len(sock) /\ Len(sock) \in Nat
      /\ \A i \in DOMAIN sock : sock[i].k \in 0..arrived
  BY <1>1, EntryNumber DEF Ascending
<1>3. IsFiniteSet(Kept(n)) /\ Cardinality(Kept(n)) \in Nat
  BY <1>1, KeptFinite
<1>4. CASE sock' = sock
  <2>1. Kept(n)' = Kept(n)
    BY <1>1, <1>2, <1>4 DEF Kept
  <2> QED
    BY <1>3, <2>1
<1>5. CASE sock' = Append(sock, [k |-> arrived', d |-> d])
  <2>1. [k |-> arrived', d |-> d] \in Entry
    BY <1>1 DEF Entry
  <2>2. /\ DOMAIN sock' = 1..(Len(sock) + 1)
        /\ \A i \in DOMAIN sock : sock'[i] = sock[i]
        /\ sock'[Len(sock) + 1] = [k |-> arrived', d |-> d]
    BY <1>1, <1>2, <1>5, <2>1, AppendProperties
  <2>3. CASE d.n = n
    <3>1. Kept(n)' = Kept(n) \cup {arrived'}
      BY <1>1, <1>2, <2>2, <2>3 DEF Kept
    <3>2. arrived' \notin Kept(n)
      BY <1>1 DEF Kept
    <3> QED
      BY <1>3, <2>3, <3>1, <3>2, FS_AddElement
  <2>4. CASE d.n # n
    <3>1. Kept(n)' = Kept(n)
      BY <1>1, <1>2, <2>2, <2>4 DEF Kept
    <3> QED
      BY <1>3, <3>1
  <2> QED
    BY <2>3, <2>4
<1> QED
  BY <1>4, <1>5 DEF Enqueue

\* The numbers that Accounted adds up.
LEMMA TallyNumbers ==
    ASSUME TypeOK, NEW n \in DOMAIN sent
    PROVE  /\ returns[n] \in Nat /\ n \in DOMAIN returns
           /\ tries[n] \in Nat /\ n \in DOMAIN tries
           /\ copies \in Nat /\ Cardinality(Kept(n)) \in Nat
           /\ IsFiniteSet(UnderWay(n)) /\ Cardinality(UnderWay(n)) \in Nat
<1>1. /\ returns[n] \in Nat /\ n \in DOMAIN returns
      /\ tries[n] \in Nat /\ n \in DOMAIN tries
      /\ copies \in Nat
  BY TypeParts DEF SenderType, ReceiverType
<1>2. IsFiniteSet(UnderWay(n))
  <2>1. IsFiniteSet(1..tries[n])
    BY <1>1, FS_Interval
  <2> QED
    BY <2>1, FS_Subset DEF UnderWay
<1>3. Cardinality(UnderWay(n)) \in Nat
  BY <1>2, FS_CardinalityType
<1>4. Cardinality(Kept(n)) \in Nat
  BY TypeParts, KeptFinite
<1> QED
  BY <1>1, <1>2, <1>3, <1>4

\* The messages that are under way or in the socket were sent.
LEMMA SentNames ==
    TypeOK => /\ \A d \in flight : d.n \in DOMAIN sent
              /\ \A i \in DOMAIN sock : sock[i].d.n \in DOMAIN sent
<1> SUFFICES ASSUME TypeOK
             PROVE  /\ \A d \in flight : d.n \in DOMAIN sent
                    /\ \A i \in DOMAIN sock : sock[i].d.n \in DOMAIN sent
  OBVIOUS
<1>1. SenderType /\ SocketType /\ DOMAIN sent = 1..Len(sent)
  BY TypeParts DEF SenderType
<1>2. \A d \in flight : d.n \in DOMAIN sent
  BY <1>1 DEF SenderType, Datagram
<1>3. ASSUME NEW i \in DOMAIN sock
      PROVE  sock[i].d.n \in DOMAIN sent
  <2>1. sock[i] \in Entry /\ sock[i].d.n <= Len(sent)
    BY <1>1 DEF SocketType
  <2> QED
    BY <1>1, <2>1 DEF Entry, Datagram
<1> QED
  BY <1>2, <1>3

\* A step that at most loses datagrams on the way.
OnlyLost ==
    /\ UNCHANGED <<sock, arrived, sent, tries, returns, copies>>
    /\ flight' \subseteq flight

LEMMA NothingNew == Tally /\ TypeOK /\ OnlyLost => Tally'
<1> SUFFICES ASSUME Tally, TypeOK, OnlyLost PROVE Tally'
  OBVIOUS
<1>1. /\ UNCHANGED <<sock, arrived, sent, tries, returns, copies>>
      /\ flight' \subseteq flight
  BY DEF OnlyLost
<1>2. AsSent' /\ SentOnce' /\ Unread'
  BY <1>1 DEF Tally, AsSent, SentOnce, Unread
<1>3. ASSUME NEW n \in DOMAIN sent
      PROVE  returns[n] + Cardinality(Kept(n)') + Cardinality(UnderWay(n)')
                <= tries[n] + copies
  <2>1. Kept(n)' = Kept(n)
    BY <1>1 DEF Kept
  <2>2. UnderWay(n)' \subseteq UnderWay(n)
    BY <1>1 DEF UnderWay, Try
  <2>3. /\ returns[n] \in Nat /\ tries[n] \in Nat /\ copies \in Nat
        /\ Cardinality(Kept(n)) \in Nat
        /\ IsFiniteSet(UnderWay(n)) /\ Cardinality(UnderWay(n)) \in Nat
    BY TallyNumbers
  <2>4. /\ Cardinality(UnderWay(n)') <= Cardinality(UnderWay(n))
        /\ Cardinality(UnderWay(n)') \in Nat
    BY <2>2, <2>3, FS_Subset, FS_CardinalityType
  <2>5. returns[n] + Cardinality(Kept(n)) + Cardinality(UnderWay(n))
           <= tries[n] + copies
    BY DEF Tally, Accounted
  <2> QED
    BY <2>1, <2>3, <2>4, <2>5
<1>4. Accounted'
  BY <1>1, <1>3 DEF Accounted
<1> QED
  BY <1>2, <1>4 DEF Tally

\* Sending a message for the first time.
LEMMA NotifyTally ==
    ASSUME TypeOK, TypeOK', Tally, Notify
    PROVE  Tally'
<1> DEFINE new == Len(sent) + 1
<1>1. PICK m \in Kinds :
        sent' = Append(sent, m) /\ flight' = flight \cup {[n |-> Len(sent'), try |-> 1, m |-> m]}
  BY DEF Notify
<1>2. /\ sent \in Seq(Message) /\ m \in Message /\ Len(sent) \in Nat
      /\ returns \in Seq(Nat) /\ Len(returns) = Len(sent)
      /\ tries \in Seq(Nat) /\ Len(tries) = Len(sent) /\ copies \in Nat
  BY TypeParts, ReceiverAssumption DEF SenderType, ReceiverType
<1>3. /\ DOMAIN sent = 1..Len(sent) /\ DOMAIN sent' = 1..new /\ Len(sent') = new
      /\ \A n \in DOMAIN sent : n # new /\ sent'[n] = sent[n]
      /\ sent'[new] = m
  BY <1>1, <1>2
<1>4. /\ \A n \in DOMAIN sent : returns'[n] = returns[n] /\ tries'[n] = tries[n]
      /\ returns'[new] = 0 /\ tries'[new] = 1
      /\ UNCHANGED <<sock, arrived, copies>>
  BY <1>2, <1>3 DEF Notify
<1>5. flight' = flight \cup {[n |-> new, try |-> 1, m |-> m]}
  BY <1>1, <1>3
<1>6. /\ \A d \in flight : d.n \in DOMAIN sent
      /\ \A i \in DOMAIN sock : sock[i].d.n \in DOMAIN sent
  BY SentNames
<1>7. AsSent'
  <2>1. ASSUME NEW d \in flight'
        PROVE  d.m = sent'[d.n] /\ d.try \in 1..tries'[d.n]
    <3>1. CASE d \in flight
      BY <1>3, <1>4, <1>6, <3>1 DEF Tally, AsSent
    <3>2. CASE d = [n |-> new, try |-> 1, m |-> m]
      BY <1>3, <1>4, <3>2
    <3> QED
      BY <1>5, <3>1, <3>2
  <2> QED
    BY <1>3, <1>4, <1>6, <2>1 DEF Tally, AsSent
<1>8. SentOnce' /\ Unread'
  BY <1>3, <1>4 DEF Tally, SentOnce, Unread
<1>9. ASSUME NEW n \in DOMAIN sent
      PROVE  Kept(n)' = Kept(n) /\ UnderWay(n)' = UnderWay(n)
  BY <1>3, <1>4, <1>5 DEF Kept, UnderWay, Try
<1>10. ASSUME NEW n, n = new
       PROVE  Kept(n)' = {} /\ UnderWay(n)' \subseteq {1}
  <2>1. Kept(n)' = {}
    BY <1>3, <1>4, <1>6, <1>10 DEF Kept
  <2>2. tries'[n] = 1
    BY <1>4, <1>10
  <2> QED
    BY <2>1, <2>2 DEF UnderWay
<1>11. ASSUME NEW n \in DOMAIN sent'
       PROVE  returns'[n] + Cardinality(Kept(n)') + Cardinality(UnderWay(n)')
                 <= tries'[n] + copies
  <2>1. CASE n \in DOMAIN sent
    BY <1>4, <1>9, <2>1 DEF Tally, Accounted
  <2>2. CASE n = new
    <3>1. Cardinality(Kept(n)') = 0
      BY <1>10, <2>2, FS_EmptySet
    <3>2. Cardinality(UnderWay(n)') \in Nat /\ Cardinality(UnderWay(n)') <= 1
      <4>1. IsFiniteSet({1}) /\ Cardinality({1}) = 1
        BY FS_Singleton
      <4> QED
        BY <1>10, <2>2, <4>1, FS_Subset, FS_CardinalityType
    <3>3. returns'[n] = 0 /\ tries'[n] = 1
      BY <1>4, <2>2
    <3> QED
      BY <1>2, <3>1, <3>2, <3>3
  <2> QED
    BY <1>3, <2>1, <2>2
<1>12. Accounted'
  BY <1>4, <1>11 DEF Accounted
<1> QED
  BY <1>7, <1>8, <1>12 DEF Tally

\* Repeating what nobody confirms: one try more, and at most one more under way.
LEMMA RepeatTally ==
    ASSUME TypeOK, Tally, Repeat
    PROVE  Tally'
<1>1. PICK r \in DOMAIN sent :
        /\ Confirmed(sent[r])
        /\ tries' = [tries EXCEPT ![r] = @ + 1]
        /\ flight' = flight \cup {[n |-> r, try |-> tries'[r], m |-> sent[r]]}
  BY DEF Repeat
<1>2. UNCHANGED <<sock, arrived, sent, returns, copies>>
  BY DEF Repeat, receiverVars
<1>3. \A n \in DOMAIN sent : n \in DOMAIN tries /\ tries[n] \in Nat
  BY TallyNumbers
<1>4. /\ tries'[r] = tries[r] + 1
      /\ \A n \in DOMAIN sent : n # r => tries'[n] = tries[n]
  BY <1>1, <1>3
<1>5. AsSent'
  <2>1. ASSUME NEW d \in flight'
        PROVE  d.m = sent[d.n] /\ d.try \in 1..tries'[d.n]
    <3>1. CASE d \in flight
      <4>1. d.n \in DOMAIN sent /\ d.m = sent[d.n] /\ d.try \in 1..tries[d.n]
        BY <3>1, SentNames DEF Tally, AsSent
      <4> QED
        BY <1>3, <1>4, <4>1
    <3>2. CASE d = [n |-> r, try |-> tries'[r], m |-> sent[r]]
      BY <1>3, <1>4, <3>2
    <3> QED
      BY <1>1, <3>1, <3>2
  <2> QED
    BY <1>2, <2>1 DEF Tally, AsSent
<1>6. SentOnce' /\ Unread'
  BY <1>1, <1>2, <1>4 DEF Tally, SentOnce, Unread
<1>7. \A n : Kept(n)' = Kept(n)
  BY <1>2 DEF Kept
<1>8. ASSUME NEW n \in DOMAIN sent
      PROVE  returns[n] + Cardinality(Kept(n)) + Cardinality(UnderWay(n)')
                <= tries'[n] + copies
  <2>1. returns[n] + Cardinality(Kept(n)) + Cardinality(UnderWay(n))
           <= tries[n] + copies
    BY DEF Tally, Accounted
  <2>2. /\ returns[n] \in Nat /\ tries[n] \in Nat /\ copies \in Nat
        /\ Cardinality(Kept(n)) \in Nat
        /\ IsFiniteSet(UnderWay(n)) /\ Cardinality(UnderWay(n)) \in Nat
    BY TallyNumbers
  <2>3. CASE n # r
    <3>1. UnderWay(n)' = UnderWay(n)
      BY <1>1, <1>2, <1>4, <2>3 DEF UnderWay, Try
    <3> QED
      BY <1>4, <2>1, <2>3, <3>1
  <2>4. CASE n = r
    <3>1. UnderWay(n)' \subseteq UnderWay(n) \cup {tries'[r]}
      <4> SUFFICES ASSUME NEW t \in UnderWay(n)', t # tries'[r]
                   PROVE  t \in UnderWay(n)
        OBVIOUS
      <4>1. t \in 1..tries'[n] /\ Try(n, t) \in flight'
        BY <1>2 DEF UnderWay, Try
      <4>2. Try(n, t) \in flight
        BY <1>1, <4>1 DEF Try
      <4>3. t \in 1..tries[n]
        BY <1>4, <2>2, <2>4, <4>1
      <4> QED
        BY <4>2, <4>3 DEF UnderWay
    <3>2. /\ IsFiniteSet(UnderWay(n) \cup {tries'[r]})
          /\ Cardinality(UnderWay(n) \cup {tries'[r]}) <= Cardinality(UnderWay(n)) + 1
          /\ Cardinality(UnderWay(n) \cup {tries'[r]}) \in Nat
      BY <2>2, FS_AddElement, FS_CardinalityType
    <3>3. /\ Cardinality(UnderWay(n)') <= Cardinality(UnderWay(n) \cup {tries'[r]})
          /\ Cardinality(UnderWay(n)') \in Nat
      BY <3>1, <3>2, FS_Subset, FS_CardinalityType
    <3> QED
      BY <1>4, <2>1, <2>2, <2>4, <3>2, <3>3
  <2> QED
    BY <2>3, <2>4
<1>9. Accounted'
  BY <1>2, <1>7, <1>8 DEF Accounted
<1> QED
  BY <1>5, <1>6, <1>9 DEF Tally

\* An arrival moves a datagram from the path to the socket or doubles it.
LEMMA ArriveTally ==
    ASSUME TypeOK, TypeOK', Ascending, Tally, Arrive \/ ArriveCopy
    PROVE  Tally'
<1>1. PICK d \in flight :
        /\ Enqueue(d)
        /\ \/ flight' = flight \ {d} /\ copies' = copies
           \/ flight' = flight /\ copies' = copies + 1
  BY DEF Arrive, ArriveCopy
<1>2. UNCHANGED <<sent, tries, returns>>
  BY DEF Arrive, ArriveCopy, receiverVars
<1>3. /\ SocketType /\ SocketType' /\ arrived' = arrived + 1
      /\ sock \in Seq(Entry) /\ d \in Datagram /\ arrived \in Nat
  <2>1. TypeOK' => SocketType'
    BY TypeParts, PTL
  <2> QED
    BY <1>1, <2>1, TypeParts DEF SocketType, SenderType, Enqueue
<1>4. \A i \in DOMAIN sock' : \/ sock'[i].d = d
                              \/ i \in DOMAIN sock /\ sock'[i] = sock[i]
  <2>1. [k |-> arrived', d |-> d] \in Entry
    BY <1>3 DEF Entry
  <2> QED
    BY <1>1, <1>3, <2>1, AppendProperties DEF Enqueue
<1>5. AsSent' /\ SentOnce' /\ Unread'
  BY <1>1, <1>2, <1>4 DEF Tally, AsSent, SentOnce, Unread
<1>6. d = Try(d.n, d.try) /\ d.try \in 1..tries[d.n]
  BY <1>1, <1>3 DEF Tally, AsSent, Datagram, Try
<1>7. ASSUME NEW n \in DOMAIN sent
      PROVE  returns[n] + Cardinality(Kept(n)') + Cardinality(UnderWay(n)')
                <= tries[n] + copies'
  <2>1. returns[n] + Cardinality(Kept(n)) + Cardinality(UnderWay(n))
           <= tries[n] + copies
    BY DEF Tally, Accounted
  <2>2. /\ returns[n] \in Nat /\ tries[n] \in Nat /\ copies \in Nat
        /\ Cardinality(Kept(n)) \in Nat
        /\ IsFiniteSet(UnderWay(n)) /\ Cardinality(UnderWay(n)) \in Nat
    BY TallyNumbers
  <2>3. Cardinality(Kept(n)') \in Nat
    <3>1. IsFiniteSet(0..arrived')
      BY <1>3, FS_Interval DEF SocketType
    <3>2. IsFiniteSet(Kept(n)')
      BY <3>1, FS_Subset DEF Kept
    <3> QED
      BY <3>2, FS_CardinalityType
  <2>4. /\ d.n # n => Kept(n)' = Kept(n)
        /\ Cardinality(Kept(n)') <= Cardinality(Kept(n)) + 1
    BY <1>1, EnqueueKept
  <2>5. UnderWay(n)' \subseteq UnderWay(n)
    BY <1>1, <1>2 DEF UnderWay, Try
  <2>6. /\ Cardinality(UnderWay(n)') <= Cardinality(UnderWay(n))
        /\ Cardinality(UnderWay(n)') \in Nat
    BY <2>2, <2>5, FS_Subset, FS_CardinalityType
  <2>7. CASE d.n # n
    <3>1. Cardinality(Kept(n)') = Cardinality(Kept(n))
      BY <2>4, <2>7
    <3> QED
      BY <1>1, <2>1, <2>2, <2>6, <3>1
  <2>8. CASE copies' = copies + 1
    BY <2>1, <2>2, <2>3, <2>4, <2>6, <2>8
  <2>9. CASE d.n = n /\ flight' = flight \ {d} /\ copies' = copies
    <3>1. d.try \in UnderWay(n)
      BY <1>1, <1>6, <2>9 DEF UnderWay
    <3>2. UnderWay(n)' = UnderWay(n) \ {d.try}
      <4>1. d.try \notin UnderWay(n)'
        BY <1>2, <1>6, <2>9 DEF UnderWay, Try
      <4>2. ASSUME NEW t \in UnderWay(n), t # d.try
            PROVE  t \in UnderWay(n)'
        <5>1. Try(n, t) \in flight /\ Try(n, t) # d
          BY <4>2 DEF UnderWay, Try
        <5> QED
          BY <1>2, <2>9, <5>1 DEF UnderWay, Try
      <4> QED
        BY <2>5, <4>1, <4>2
    <3>3. Cardinality(UnderWay(n)') = Cardinality(UnderWay(n)) - 1
      BY <2>2, <3>1, <3>2, FS_RemoveElement
    <3> QED
      BY <2>1, <2>2, <2>3, <2>4, <2>6, <2>9, <3>3
  <2> QED
    BY <1>1, <2>7, <2>8, <2>9
<1>8. Accounted'
  BY <1>2, <1>7 DEF Accounted
<1> QED
  BY <1>5, <1>8 DEF Tally

\* A caller takes the first datagram off the socket, whatever becomes of it.
LEMMA TakeTally ==
    ASSUME TypeOK, TypeOK', Ascending, Tally,
           NEW c \in Callers, TakeTrap(c) \/ SkipDatagram(c) \/ PanicDatagram(c)
    PROVE  Tally'
<1> DEFINE h == Head(sock)
<1>1. /\ sock # <<>> /\ sock' = Tail(sock)
      /\ UNCHANGED <<flight, sent, tries, copies, arrived>>
  BY DEF TakeTrap, SkipDatagram, PanicDatagram, Return, senderVars
<1>2. /\ SocketType /\ h = sock[1] /\ 1 \in DOMAIN sock
      /\ h.d.n \in DOMAIN sent /\ h.d.m = sent[h.d.n] /\ sock \in Seq(Entry)
      /\ \A i \in DOMAIN Tail(sock) :
           i + 1 \in DOMAIN sock /\ Tail(sock)[i] = sock[i + 1]
  <2>1. SocketType /\ sock \in Seq(Entry) /\ 1 \in DOMAIN sock
        /\ DOMAIN sent = 1..Len(sent)
    BY <1>1, TypeParts, EmptySeq DEF SocketType, SenderType
  <2> QED
    BY <1>1, <2>1, HeadType DEF Tally, AsSent
<1>3. AsSent' /\ SentOnce'
  BY <1>1, <1>2 DEF Tally, AsSent, SentOnce
<1>4. \A n \in DOMAIN sent : returns[n] \in Nat /\ n \in DOMAIN returns
  BY TallyNumbers
<1>5. \A n \in DOMAIN sent :
        \/ returns'[n] = returns[n]
        \/ returns'[n] = returns[n] + 1 /\ n = h.d.n /\ Decodes(sent[n])
  <2>1. CASE TakeTrap(c)
    <3>1. returns' = [returns EXCEPT ![h.d.n] = @ + 1] /\ Decodes(h.d.m)
      BY <2>1 DEF TakeTrap
    <3> QED
      BY <1>2, <1>4, <3>1
  <2>2. CASE SkipDatagram(c) \/ PanicDatagram(c)
    BY <2>2 DEF SkipDatagram, PanicDatagram, receiverVars
  <2> QED
    BY <2>1, <2>2
<1>6. Unread'
  BY <1>1, <1>5 DEF Tally, Unread
<1>7. ASSUME NEW n \in DOMAIN sent
      PROVE  returns'[n] + Cardinality(Kept(n)') + Cardinality(UnderWay(n))
                <= tries[n] + copies
  <2>1. returns[n] + Cardinality(Kept(n)) + Cardinality(UnderWay(n))
           <= tries[n] + copies
    BY DEF Tally, Accounted
  <2>2. /\ returns[n] \in Nat /\ tries[n] \in Nat /\ copies \in Nat
        /\ Cardinality(Kept(n)) \in Nat /\ Cardinality(UnderWay(n)) \in Nat
    BY TallyNumbers
  <2>3. IF h.d.n = n THEN Cardinality(Kept(n)') = Cardinality(Kept(n)) - 1
                     ELSE Kept(n)' = Kept(n)
    BY <1>1, TailKept
  <2>4. CASE h.d.n = n
    BY <1>5, <2>1, <2>2, <2>3, <2>4
  <2>5. CASE h.d.n # n
    BY <1>5, <2>1, <2>3, <2>5
  <2> QED
    BY <2>4, <2>5
<1>8. Accounted'
  <2>1. \A n : UnderWay(n)' = UnderWay(n)
    BY <1>1 DEF UnderWay, Try
  <2> QED
    BY <1>1, <1>7, <2>1 DEF Accounted
<1> QED
  BY <1>3, <1>6, <1>8 DEF Tally

LEMMA StepTally ==
    TypeOK /\ TypeOK' /\ Ascending /\ Tally /\ [Next]_vars => Tally'
<1> SUFFICES ASSUME TypeOK, TypeOK', Ascending, Tally, [Next]_vars
             PROVE  Tally'
  OBVIOUS
<1>1. CASE \E c \in Callers : Recv(c) \/ RecvFails(c) \/ Cancel(c)
  <2>1. OnlyLost
    BY <1>1 DEF Recv, RecvFails, Cancel, GiveUp, Return, senderVars, OnlyLost
  <2> QED
    BY <2>1, NothingNew
<1>2. CASE Poll
  BY <1>2, TakeTally DEF Poll
<1>3. CASE Notify
  BY <1>3, NotifyTally
<1>4. CASE Repeat
  BY <1>4, RepeatTally
<1>5. CASE Arrive \/ ArriveCopy
  BY <1>5, ArriveTally
<1>6. CASE Lose
  <2>1. OnlyLost
    BY <1>6 DEF Lose, receiverVars, OnlyLost
  <2> QED
    BY <2>1, NothingNew
<1>7. CASE UNCHANGED vars
  <2>1. OnlyLost
    BY <1>7 DEF vars, senderVars, receiverVars, OnlyLost
  <2> QED
    BY <2>1, NothingNew
<1> QED
  BY <1>1, <1>2, <1>3, <1>4, <1>5, <1>6, <1>7 DEF Next

\* However often the senders repeat what nobody confirms, whatever the path
\* repeats and reorders, and however many callers there are, a message is
\* returned once and at most once more for each copy the path made, or, if it is
\* an SNMPv3 one that waits to be confirmed, for each time it was sent again.
THEOREM ReturnedOnce == Spec => []AtMostOnce
<1>1. Init => Ascending /\ Tally
  BY DEF Init, Ascending, Tally, AsSent, SentOnce, Unread, Accounted
<1>2. TypeOK /\ Tally => AtMostOnce
  <2> SUFFICES ASSUME TypeOK, Tally, NEW n \in DOMAIN sent
               PROVE  returns[n] <= copies + (IF ReturnedAgain(sent[n])
                                              THEN tries[n] ELSE 1)
    BY DEF AtMostOnce
  <2>1. /\ returns[n] \in Nat /\ tries[n] \in Nat /\ copies \in Nat
        /\ Cardinality(Kept(n)) \in Nat /\ Cardinality(UnderWay(n)) \in Nat
    BY TallyNumbers
  <2>2. returns[n] <= tries[n] + copies
    BY <2>1 DEF Tally, Accounted
  <2>3. CASE ReturnedAgain(sent[n])
    BY <2>1, <2>2, <2>3
  <2>4. CASE ~Confirmed(sent[n])
    <3>1. tries[n] = 1
      BY <2>4 DEF Tally, SentOnce
    <3> QED
      BY <2>1, <2>2, <2>4, <3>1 DEF ReturnedAgain
  <2>5. CASE Confirmed(sent[n]) /\ sent[n].version # "V3"
    <3>1. ~Decodes(sent[n])
      BY <2>5 DEF Confirmed, Decodes, DecodesV1Trap, DecodesV2cTrap
    <3>2. returns[n] = 0
      BY <3>1 DEF Tally, Unread
    <3> QED
      BY <2>1, <2>5, <3>2 DEF ReturnedAgain
  <2> QED
    BY <2>3, <2>4, <2>5 DEF ReturnedAgain
<1>3. TypeOK /\ Ascending /\ [Next]_vars => Ascending'
  BY QueueStep
<1> QED
  BY <1>1, <1>2, <1>3, StepTally, TypeCorrect, PTL DEF Spec

=============================================================================
