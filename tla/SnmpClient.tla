------------------------------ MODULE SnmpClient ------------------------------
(***************************************************************************)
(* SnmpClient, the v1/v2c client of client.rs, over the path of Udp to the *)
(* agent of SnmpAgent.                                                     *)
(*                                                                         *)
(* Every operation takes &mut self, so a client has one call in progress.  *)
(* A call runs in one go from one await to the next, and it awaits in two  *)
(* places, both in send_and_recv: pc = "sending" in send_to and pc =       *)
(* "receiving" in the timed recv.  walk loops over that pair.              *)
(*                                                                         *)
(* A datagram is the record of what the codec puts in it.  The field n is  *)
(* not in the code: it numbers the client's exchanges, so that properties  *)
(* can say which request an answer answers.                                *)
(***************************************************************************)
EXTENDS SnmpAgent, Requests, Udp

CONSTANTS
    InitVersions,\* the versions a client may be created with
    InitIds,     \* the values request_id may start from, of FreshIds
    WalkRows,    \* max_repetitions of the walk's GETBULK, 20 in the code
    Calls,       \* the single-exchange calls a caller may make
    Roots,       \* the roots a caller may walk
    MaxCalls     \* bound: calls made on the client

ASSUME ClientAssumption ==
    /\ InitVersions \subseteq Versions
    /\ InitIds \subseteq FreshIds
    /\ WalkRows \in Nat \ {0}
    /\ Calls \subseteq RequestCall
    /\ Roots \subseteq Oid
    /\ MaxCalls \in Nat

VARIABLES
    version,    \* SnmpClient::version, never assigned after with_version
    request_id, \* SnmpClient::request_id
    call,       \* the call in progress, or the last one made
    pc,         \* where it awaits: "idle", "sending", "receiving"
    packet,     \* the request datagram of the current exchange
    current,    \* walk's local of that name
    results,    \* walk's local of that name
    outcome,    \* what the last call returned
    issued,     \* history: exchanges begun
    clean,      \* history: whatever this call took off the socket, it took
                \* with no strays about
    made        \* history: calls made

callVars == <<call, current, results, made>>

clientVars == <<version, request_id, call, pc, packet, current, results,
                outcome, issued, clean, made>>

vars == <<clientVars, udpVars>>

NoPacket == [n |-> 0, id |-> 0, version |-> version,
             pdu |-> [type |-> "GET", oids |-> <<>>, nonRepeaters |-> 0,
                      maxRepetitions |-> 0]]

ErrKinds == {"Io", "Timeout", "Snmp", "cancelled"} \cup Refusals

-----------------------------------------------------------------------------
\* The start of an exchange: a fresh id, the encoded request, and send_to.
Issue(pdu) ==
    /\ request_id' = NextId(request_id)
    /\ issued' = issued + 1
    /\ packet' = [n |-> issued + 1, id |-> request_id', version |-> version,
                  pdu |-> pdu]
    /\ pc' = "sending"
    /\ UNCHANGED version

Return(o) ==
    /\ pc' = "idle"
    /\ outcome' = o
    /\ UNCHANGED <<version, request_id, packet, issued>>

NewCall(c) ==
    /\ pc = "idle"
    /\ made < MaxCalls
    /\ made' = made + 1
    /\ call' = c
    /\ outcome' = NoResult
    /\ clean' = TRUE
    /\ UNCHANGED udpVars

\* get, get_one, get_next, get_bulk, set up to their send_to.
StartRequest(c) ==
    /\ NewCall(c)
    /\ Issue(PduOf(c))
    /\ UNCHANGED <<current, results>>

\* The walk's request: GETNEXT in version 1, GETBULK in the others.
WalkPdu(oid) ==
    [type |-> IF version = "V1" THEN "GETNEXT" ELSE "GETBULK",
     oids |-> <<oid>>, nonRepeaters |-> 0,
     maxRepetitions |-> IF version = "V1" THEN 0 ELSE WalkRows]

StartWalk(root) ==
    /\ NewCall([op |-> "walk", root |-> root])
    /\ current' = root
    /\ results' = <<>>
    /\ Issue(WalkPdu(root))

-----------------------------------------------------------------------------
\* A mutant: send_to is retried although it may have gone out.
SendToRetried ==
    /\ pc = "sending"
    /\ Send(packet)
    /\ pc' \in {"sending", "receiving"}
    /\ issued' = issued + 1
    /\ packet' = [packet EXCEPT !.n = issued + 1]
    /\ UNCHANGED <<version, request_id, outcome, clean, callVars>>

\* send_to completes, or fails and ends the call.
SendTo ==
    /\ pc = "sending"
    /\ Send(packet)
    /\ pc' = "receiving"
    /\ UNCHANGED <<version, request_id, packet, outcome, issued, clean, callVars>>

SendToFails ==
    /\ pc = "sending"
    /\ Return(Err("Io", packet.n))
    /\ UNCHANGED <<clean, callVars, udpVars>>

\* recv returns the datagram at the head of the socket's queue, whichever
\* exchange it belongs to: the id it carries is decoded and not compared.
Received == Head(sock)

TakeDatagram ==
    /\ pc = "receiving"
    /\ Receive
    /\ clean' = (clean /\ strays = 0)

\* decode_response takes nothing but a well-formed Response PDU.
RecvUndecodable ==
    /\ TakeDatagram
    /\ Received.pdu # "RESPONSE"
    /\ \E kind \in Refusals : Return(Err(kind, Received.n))
    /\ UNCHANGED callVars

\* A non-zero error-status ends any call, a walk with its results so far.
RecvErrorStatus ==
    /\ TakeDatagram
    /\ Received.pdu = "RESPONSE"
    /\ Received.status # 0
    /\ Return(Err("Snmp", Received.n))
    /\ UNCHANGED callVars

\* A mutant: the error-status is not looked at.
GotVarBindsOfAnyStatus ==
    /\ TakeDatagram
    /\ Received.pdu = "RESPONSE"

GotVarBinds ==
    /\ TakeDatagram
    /\ Received.pdu = "RESPONSE"
    /\ Received.status = 0

RecvAnswer ==
    /\ call.op # "walk"
    /\ GotVarBinds
    /\ Return(AnswerOf(call.op, Received))
    /\ UNCHANGED callVars

\* One turn of the walk's loop: absorb the bindings, then ask again from the
\* last one kept or return everything kept.
RecvWalkStep ==
    LET kept == Kept(call.root, Received.varbinds)
    IN  /\ call.op = "walk"
        /\ GotVarBinds
        /\ ~WalkDone(call.root, Received.varbinds)
        /\ results' = results \o kept
        /\ current' = WalkCurrent(current, kept)
        /\ Issue(WalkPdu(current'))
        /\ UNCHANGED <<call, outcome, made>>

RecvWalkEnd ==
    LET kept == Kept(call.root, Received.varbinds)
    IN  /\ call.op = "walk"
        /\ GotVarBinds
        /\ WalkDone(call.root, Received.varbinds)
        /\ results' = results \o kept
        /\ current' = WalkCurrent(current, kept)
        /\ Return(Ok(results', Received.n))
        /\ UNCHANGED <<call, made>>

\* The call stops waiting without a datagram: the timer fires, recv fails,
\* or the caller drops the future.  Whatever is under way stays under way.
GiveUp(kind) ==
    /\ pc = "receiving"
    /\ Abandon
    /\ Return(Err(kind, packet.n))
    /\ UNCHANGED <<clean, callVars>>

\* A mutant: recv without a timer around it.
NoTimeout == FALSE

Timeout == GiveUp("Timeout")

RecvFails == GiveUp("Io")

CancelReceiving == GiveUp("cancelled")

CancelSending ==
    /\ pc = "sending"
    /\ Return(Err("cancelled", packet.n))
    /\ UNCHANGED <<clean, callVars, udpVars>>

-----------------------------------------------------------------------------
\* The agent takes a request off the path and answers it, if it answers such
\* a request at all.  A message of version 3 in the community format is none.
AgentReplies(m) == IF m.version = "V3" THEN {} ELSE Replies(m.version, m.pdu)

Response(m, reply) ==
    [n |-> m.n, id |-> m.id, pdu |-> "RESPONSE",
     status |-> reply.status, varbinds |-> reply.varbinds]

Answer(m) ==
    \/ \E reply \in AgentReplies(m) :
          toClient' = toClient \cup {Response(m, reply)}
    \/ AgentReplies(m) = {} /\ UNCHANGED toClient

Serve ==
    /\ \E m \in toAgent : Answer(m) /\ toAgent' = toAgent \ {m}
    /\ UNCHANGED <<sock, mishaps, strays>>

\* A copy of the request reaches the agent first.
ServeCopy ==
    /\ Copied
    /\ \E m \in toAgent : Answer(m)
    /\ UNCHANGED <<toAgent, sock>>

\* What arrives for an answer is not something decode_response takes.
Garble ==
    /\ Spoilt
    /\ \E r \in {x \in toClient : x.pdu = "RESPONSE"} :
          toClient' = (toClient \ {r}) \cup
                      {[r EXCEPT !.pdu = "OTHER", !.varbinds = <<>>]}
    /\ UNCHANGED <<toAgent, sock>>

-----------------------------------------------------------------------------
Init ==
    /\ version \in InitVersions
    /\ request_id \in InitIds
    /\ call = NoCall
    /\ pc = "idle"
    /\ packet = NoPacket
    /\ current = <<>>
    /\ results = <<>>
    /\ outcome = NoResult
    /\ issued = 0
    /\ clean = TRUE
    /\ made = 0
    /\ UdpInit

\* What the caller decides: to call, and to drop a call's future.
Caller ==
    \/ \E c \in Calls : StartRequest(c)
    \/ \E root \in Roots : StartWalk(root)
    \/ CancelSending
    \/ CancelReceiving

\* What the runtime drives once a call is under way.
Progress ==
    \/ SendTo
    \/ RecvUndecodable \/ RecvErrorStatus \/ RecvAnswer
    \/ RecvWalkStep \/ RecvWalkEnd
    \/ Timeout

\* The errors the socket may report.
IoErrors == SendToFails \/ RecvFails

Network ==
    /\ \/ Serve \/ ServeCopy \/ Garble
       \/ Arrive \/ ArriveCopy \/ LoseRequest \/ LoseAnswer
    /\ UNCHANGED clientVars

Next == Caller \/ Progress \/ IoErrors \/ Network

Spec == Init /\ [][Next]_vars

\* A started call is polled and its timer fires; of the path nothing is asked.
FairSpec == Spec /\ WF_vars(Progress)

-----------------------------------------------------------------------------
Request == [n : Nat, id : Int, version : Versions, pdu : Pdu]

Reception == [n : Nat, id : Int, pdu : {"RESPONSE", "OTHER"},
              status : Statuses, varbinds : Seq(VarBind)]

Outcome == [result : {"none", "ok"} \cup ErrKinds, varbinds : Seq(VarBind),
            n : Nat]

ClientTypeOK ==
    /\ version \in Versions
    /\ request_id \in Id
    /\ call \in RequestCall \cup WalkCall \cup {NoCall}
    /\ pc \in {"idle", "sending", "receiving"}
    /\ packet \in Request
    /\ current \in Oid
    /\ results \in Seq(VarBind)
    /\ outcome \in Outcome
    /\ issued \in Nat
    /\ clean \in BOOLEAN
    /\ made \in 0..MaxCalls

PathTypeOK ==
    /\ toAgent \subseteq Request
    /\ toClient \subseteq Reception
    /\ sock \in Seq(Reception)
    /\ mishaps \in 0..MaxMishaps
    /\ strays \in Nat

\* Every variable has its type: the id is an i32 and an outcome is a Result.
TypeOK == ClientTypeOK /\ PathTypeOK

\* recv takes whatever comes first, so the client is only as far out of step
\* as there are datagrams it gave up on or the path copied: besides the one
\* exchange it waits for, no more than strays datagrams are ever under way.
LagBounded ==
    Cardinality(toAgent) + Cardinality(toClient) + Len(sock)
        <= strays + (IF pc = "receiving" THEN 1 ELSE 0)

\* With no strays about, a client that does not wait has a quiet path, and one
\* that waits has at most one datagram under way: its request, or what became
\* of the agent's answer to it.
OnTheWay ==
    /\ toAgent \subseteq {packet}
    /\ \A r \in toClient \cup Range(sock) :
          /\ r.n = packet.n
          /\ r.pdu = "RESPONSE"
             => \E reply \in AgentReplies(packet) : r = Response(packet, reply)

AtMostOne ==
    /\ toAgent # {} => toClient = {} /\ sock = <<>>
    /\ toClient # {} => sock = <<>>
    /\ \A r, s \in toClient : r = s
    /\ Len(sock) <= 1

InStep ==
    strays = 0 => IF pc = "receiving" THEN OnTheWay /\ AtMostOne ELSE Quiet

\* A call that took its datagram with no strays about returns the agent's
\* answer to its own exchange, although get, get_next, get_bulk and set never
\* compare the request id: being back in step takes only a quiet path.
OwnAnswer ==
    (/\ pc = "idle" /\ call.op \in Ops /\ clean
     /\ outcome.result \in {"ok", "Snmp"})
    => \E reply \in AgentReplies(packet) :
          outcome = IF reply.status # 0 THEN Err("Snmp", packet.n)
                    ELSE AnswerOf(call.op, Response(packet, reply))

\* A walk that stayed in step has collected the first instances below its
\* root, each once and in order, asks next from the last of them, and returns
\* Ok only with all of them.
WalkInStep ==
    (call.op = "walk" /\ clean /\ (pc # "idle" \/ outcome.result = "ok"))
    => /\ IsPrefix(results, Subtree(call.root))
       /\ current = WalkCurrent(call.root, results)
       /\ outcome.result = "ok" => outcome.varbinds = Subtree(call.root)

\* Ids are positive, and two requests fewer than i32::MAX exchanges apart
\* never share one, on either side of the wrap of next_request_id: an id
\* under way names its request.
UnderWay ==
    toAgent \cup toClient \cup Range(sock) \cup
    (IF pc = "idle" THEN {} ELSE {packet})

IdsNameRequests ==
    \A d, e \in UnderWay :
        /\ d.id \in 1..MaxId
        /\ d.id = e.id /\ d.n - e.n \in 0..(MaxId - 1) => d.n = e.n

\* Every call returns, whatever the path does: send_and_recv waits at most
\* once for at most the timeout, and a walk makes finitely many exchanges.
CallReturns == pc # "idle" ~> pc = "idle"

\* The client implements the service on a path that may lose datagrams but
\* where no caller stops waiting for an answer that still comes.
Service == INSTANCE SnmpService WITH
    busy <- pc # "idle",
    answer <- [result |-> outcome.result, varbinds |-> outcome.varbinds]

Implements == Service!ServiceSpec

\* client.rs:71, "SNMP GET -- retrieve one or more OIDs": what get returns
\* are bindings of the OIDs it was asked for.
GetReturnsItsOids ==
    (pc = "idle" /\ call.op = "get" /\ outcome.result = "ok")
    => \A i \in DOMAIN outcome.varbinds :
          outcome.varbinds[i].oid \in Range(call.oids)

\* client.rs:131-132, "Walk a subtree using GETNEXT (v1) or GETBULK (v2c).
\* Returns all VarBinds under the given OID prefix": a walk every request of
\* which the agent answered returns them.
WalkReturnsSubtree ==
    (pc = "idle" /\ call.op = "walk" /\ outcome.result \in {"ok", "Snmp"})
    => outcome.result = "ok" /\ outcome.varbinds = Subtree(call.root)

=============================================================================
