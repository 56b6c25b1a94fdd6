----------------------------- MODULE TrapReceiver -----------------------------
(***************************************************************************)
(* TrapReceiver of trap.rs, its socket, and those who send to it.          *)
(*                                                                         *)
(* recv takes &self: several callers may be in it at once, each awaiting   *)
(* recv_from.  Between recv_from and the next await or return nothing else *)
(* of the call happens, so that a datagram is taken and decoded in a step. *)
(* The receiver has no way to answer: it never sends.                      *)
(***************************************************************************)
EXTENDS Integers, Sequences, FiniteSets

CONSTANTS
    Callers,      \* the tasks that call recv
    Kinds,        \* the messages that are sent to the receiver
    SockCapacity, \* datagrams the socket's receive queue holds
    MaxCalls,     \* bound: calls of recv
    MaxSent,      \* bound: messages sent
    MaxTries,     \* bound: times a sender sends what nobody confirms
    MaxCopies     \* bound: datagrams the path delivers twice

\* A message: the version and the PDU tag it carries, whether its scoped PDU
\* is encrypted, and whether all the decoder reads is there and well formed.
Message == [version : {"V1", "V2c", "V3", "other"},
            pdu : {"Trap1", "Trap2", "Inform", "Get"},
            sealed : BOOLEAN, whole : BOOLEAN]

ASSUME ReceiverAssumption ==
    /\ Kinds \subseteq Message
    /\ SockCapacity \in Nat \ {0}
    /\ MaxCalls \in Nat /\ MaxSent \in Nat /\ MaxCopies \in Nat
    /\ MaxTries \in Nat \ {0}

VARIABLES
    flight,     \* datagrams under way
    sock,       \* datagrams queued at the socket, numbered as they arrived
    waiting,    \* the callers that await recv_from
    got,        \* what each caller's last recv returned
    tries,      \* by message sent: how often it was sent so far
    sent,       \* the messages sent
    arrived,    \* history: arrivals at the socket, kept or not
    copies,     \* history: datagrams delivered twice
    returns,    \* history, by message sent: how often recv returned it
    calls       \* history: calls of recv

senderVars == <<flight, tries, sent, copies>>

receiverVars == <<waiting, got, returns, calls>>

vars == <<senderVars, receiverVars, sock, arrived>>

-----------------------------------------------------------------------------
\* decode_trap, which reads the version and leaves the rest to the decoder of
\* that version.  An InformRequest is none to decode_v2c_trap; decode_v3_trap
\* reads any PDU, if it is not encrypted.
DecodesV1Trap(m) == m.pdu = "Trap1"

\* A mutant: an InformRequest passes for a trap.
DecodesV2cTrapOrInform(m) == m.pdu \in {"Trap2", "Inform"}

DecodesV2cTrap(m) == m.pdu = "Trap2"

DecodesV3Trap(m) == ~m.sealed

\* A mutant: a version that is none of the three is not refused.
DecodesAnyVersion(m) ==
    /\ m.whole
    /\ m.version = "V1" => DecodesV1Trap(m)
    /\ m.version = "V2c" => DecodesV2cTrap(m)
    /\ m.version = "V3" => DecodesV3Trap(m)

Decodes(m) ==
    /\ m.whole
    /\ \/ m.version = "V1" /\ DecodesV1Trap(m)
       \/ m.version = "V2c" /\ DecodesV2cTrap(m)
       \/ m.version = "V3" /\ DecodesV3Trap(m)

\* The Trap made of a datagram: whose it is and in which version it came.
TrapOf(d) == [n |-> d.n, version |-> d.m.version]

NoResult == [result |-> "none", k |-> 0]

Ok(e) == [result |-> "ok", k |-> e.k, trap |-> TrapOf(e.d)]

Err(kind) == [result |-> kind, k |-> 0]

-----------------------------------------------------------------------------
\* recv up to its await.
Recv(c) ==
    /\ c \notin waiting
    /\ calls < MaxCalls
    /\ calls' = calls + 1
    /\ waiting' = waiting \cup {c}
    /\ got' = [got EXCEPT ![c] = NoResult]
    /\ UNCHANGED <<returns, senderVars, sock, arrived>>

Return(c, o) ==
    /\ waiting' = waiting \ {c}
    /\ got' = [got EXCEPT ![c] = o]
    /\ UNCHANGED <<calls, senderVars, arrived>>

\* A mutant: recv_from leaves the datagram queued.
PeekTrap(c) ==
    /\ c \in waiting /\ sock # <<>> /\ Decodes(Head(sock).d.m)
    /\ Return(c, Ok(Head(sock)))
    /\ returns' = [returns EXCEPT ![Head(sock).d.n] = @ + 1]
    /\ UNCHANGED sock

\* recv_from completes with a datagram that decodes: the call returns it.
TakeTrap(c) ==
    /\ c \in waiting /\ sock # <<>> /\ Decodes(Head(sock).d.m)
    /\ Return(c, Ok(Head(sock)))
    /\ returns' = [returns EXCEPT ![Head(sock).d.n] = @ + 1]
    /\ sock' = Tail(sock)

\* A mutant: what does not decode is left in the queue.
LeaveDatagram(c) ==
    /\ c \in waiting /\ sock # <<>> /\ ~Decodes(Head(sock).d.m)
    /\ UNCHANGED vars

\* What does not decode is dropped, and the loop awaits the next datagram.
SkipDatagram(c) ==
    /\ c \in waiting /\ sock # <<>> /\ ~Decodes(Head(sock).d.m)
    /\ sock' = Tail(sock)
    /\ UNCHANGED <<receiverVars, senderVars, arrived>>

\* A datagram that is not whole may hold a length as wide as usize, which
\* read_raw adds to its position: the panic unwinds recv, the datagram is gone.
PanicDatagram(c) ==
    /\ c \in waiting /\ sock # <<>> /\ ~Head(sock).d.m.whole
    /\ Return(c, Err("overflow"))
    /\ sock' = Tail(sock)
    /\ UNCHANGED returns

\* recv_from fails and ends the call, or the caller drops the future.
GiveUp(c, kind) ==
    /\ c \in waiting
    /\ Return(c, Err(kind))
    /\ UNCHANGED <<returns, sock>>

RecvFails(c) == GiveUp(c, "Io")

Cancel(c) == GiveUp(c, "cancelled")

-----------------------------------------------------------------------------
\* The senders.  An InformRequest, and the unauthenticated GET by which an
\* SNMPv3 sender of informs asks for the receiver's engine first, are sent
\* again until somebody answers, which the receiver never does.
Confirmed(m) == m.pdu \in {"Inform", "Get"}

Notify ==
    /\ Len(sent) < MaxSent
    /\ \E m \in Kinds :
          /\ sent' = Append(sent, m)
          /\ flight' = flight \cup {[n |-> Len(sent'), try |-> 1, m |-> m]}
    /\ tries' = Append(tries, 1)
    /\ returns' = Append(returns, 0)
    /\ UNCHANGED <<copies, waiting, got, calls, sock, arrived>>

Repeat ==
    /\ \E n \in DOMAIN sent :
          /\ Confirmed(sent[n]) /\ tries[n] < MaxTries
          /\ tries' = [tries EXCEPT ![n] = @ + 1]
          /\ flight' = flight \cup {[n |-> n, try |-> tries'[n], m |-> sent[n]]}
    /\ UNCHANGED <<sent, copies, receiverVars, sock, arrived>>

\* The path loses, reorders and repeats; a full socket drops what arrives.
Enqueue(d) ==
    /\ arrived' = arrived + 1
    /\ sock' = IF Len(sock) < SockCapacity
               THEN Append(sock, [k |-> arrived', d |-> d]) ELSE sock

Arrive ==
    /\ \E d \in flight : Enqueue(d) /\ flight' = flight \ {d}
    /\ UNCHANGED <<tries, sent, copies, receiverVars>>

ArriveCopy ==
    /\ copies < MaxCopies
    /\ copies' = copies + 1
    /\ \E d \in flight : Enqueue(d)
    /\ UNCHANGED <<flight, tries, sent, receiverVars>>

Lose ==
    /\ \E d \in flight : flight' = flight \ {d}
    /\ UNCHANGED <<tries, sent, copies, receiverVars, sock, arrived>>

-----------------------------------------------------------------------------
\* bind.
Init ==
    /\ flight = {}
    /\ sock = <<>>
    /\ waiting = {}
    /\ got = [c \in Callers |-> NoResult]
    /\ tries = <<>> /\ sent = <<>> /\ returns = <<>>
    /\ arrived = 0 /\ copies = 0 /\ calls = 0

\* What the runtime drives while somebody is in recv.
Poll == \E c \in Callers : TakeTrap(c) \/ SkipDatagram(c) \/ PanicDatagram(c)

Next ==
    \/ \E c \in Callers : Recv(c) \/ RecvFails(c) \/ Cancel(c)
    \/ Poll
    \/ Notify \/ Repeat
    \/ Arrive \/ ArriveCopy \/ Lose

Spec == Init /\ [][Next]_vars

\* A task that awaits recv_from is woken and polled when a datagram is there.
FairSpec == Spec /\ WF_vars(Poll)

-----------------------------------------------------------------------------
Datagram == [n : Nat \ {0}, try : Nat, m : Message]

Result == [result : {"none", "Io", "cancelled", "overflow"}, k : {0}] \cup
          [result : {"ok"}, k : Nat,
           trap : [n : Nat \ {0}, version : {"V1", "V2c", "V3"}]]

\* Every variable has its type; the three histories by message are in step.
TypeOK ==
    /\ flight \subseteq Datagram
    /\ sock \in Seq([k : Nat, d : Datagram])
    /\ waiting \subseteq Callers
    /\ got \in [Callers -> Result]
    /\ sent \in Seq(Message)
    /\ tries \in Seq(Nat) /\ returns \in Seq(Nat)
    /\ Len(tries) = Len(sent) /\ Len(returns) = Len(sent)
    /\ \A d \in flight : d.n <= Len(sent)
    /\ \A i \in DOMAIN sock : sock[i].d.n <= Len(sent)
    /\ arrived \in Nat /\ copies \in Nat /\ calls \in Nat

\* recv is a queue of the traps among the datagrams that the socket keeps:
\* what it skips, a failing recv_from, a panic and a dropped future lose no
\* trap, two callers never get the same one, and none overtakes another.
Queue == INSTANCE TrapQueue WITH
    last <- arrived,
    pending <- {[k |-> sock[i].k, trap |-> TrapOf(sock[i].d)] :
                   i \in {j \in DOMAIN sock : Decodes(sock[j].d.m)}}

Implements == Queue!QueueSpec

\* No datagram that is skipped, encrypted traps and InformRequests among
\* them, holds back a trap behind it: while somebody is in recv, a datagram
\* that was kept does not stay in the socket.
StillQueued(k) == waiting # {} /\ \E i \in DOMAIN sock : sock[i].k = k

NoneHeldBack ==
    \A k \in 1..(MaxSent * MaxTries + MaxCopies) :
        StillQueued(k) ~> ~StillQueued(k)

\* A message is returned once, and once more for each datagram that the path
\* repeats.  Its sender's own repetitions come out only in SNMPv3, whose decoder
\* takes what it can read for a trap: an InformRequest in the clear, or the GET
\* that asks for the engine, comes out as often as it is sent, and it is sent
\* again for as long as nobody confirms it.
ReturnedAgain(m) == m.version = "V3" /\ Confirmed(m)

AtMostOnce ==
    \A n \in DOMAIN sent :
        returns[n] <= copies + (IF ReturnedAgain(sent[n]) THEN tries[n] ELSE 1)

\* trap.rs:52, "Wait for and receive the next trap. Blocks until a trap
\* arrives.": what recv returns was sent as a notification.
OnlyNotifications ==
    \A c \in Callers : got[c].result = "ok" => sent[got[c].trap.n].pdu # "Get"

=============================================================================
