--------------------------- MODULE SnmpServiceProofs ---------------------------
(***************************************************************************)
(* Proofs about SnmpClient, continued from SnmpClientProofs: for every MIB *)
(* a walk that stays in step gathers the instances below its root, and the *)
(* client implements SnmpService on a path that may lose datagrams.        *)
(***************************************************************************)
EXTENDS SnmpClientProofs

-----------------------------------------------------------------------------
\* Walks.  The request under way is the one that goes on from current, and
\* what has been gathered is the first instances below the root; WalkInStep
\* alone does not say what the next answer will add.
Asked ==
    pc # "idle" =>
        /\ packet.version = version /\ outcome = NoResult
        /\ packet.pdu = IF call.op = "walk" THEN WalkPdu(current) ELSE PduOf(call)

Gathering ==
    (call.op = "walk" /\ clean /\ (pc # "idle" \/ outcome.result = "ok"))
    => /\ Gathered(call.root, results)
       /\ current = WalkCurrent(call.root, results)
       /\ pc = "idle" => outcome.varbinds = results /\ results = Subtree(call.root)

WalkInv == Asked /\ Gathering

\* A walk's root is an OID.
LEMMA RootType ==
    ASSUME TypeOK, call.op = "walk"
    PROVE  call.root \in Oid
<1>1. call \in RequestCall \cup WalkCall \cup {NoCall}
  BY DEF TypeOK, ClientTypeOK
<1> QED
  BY <1>1 DEF RequestCall, WalkCall, NoCall, Ops

\* Nothing is gathered at the start of a walk, which begins at its root.
LEMMA GatheredNone ==
    ASSUME NEW root \in Oid
    PROVE  Gathered(root, <<>>) /\ WalkCurrent(root, <<>>) = root
BY SubtreeIs DEF Gathered, WalkCurrent

\* An answer taken in step goes on from where the walk is.
LEMMA AnswerGoesOn ==
    ASSUME TypeOK, Inv, WalkInv, call.op = "walk", GotVarBinds, clean'
    PROVE  LET more == results \o Kept(call.root, Received.varbinds)
           IN  /\ Gathered(call.root, more)
               /\ WalkCurrent(current, Kept(call.root, Received.varbinds))
                    = WalkCurrent(call.root, more)
               /\ WalkDone(call.root, Received.varbinds) => more = Subtree(call.root)
<1>1. TakeDatagram /\ strays = 0 /\ clean /\ pc = "receiving" /\ InStep
  BY DEF GotVarBinds, TakeDatagram, Inv
<1>2. PICK reply \in AgentReplies(packet) : Received = Response(packet, reply)
  BY <1>1, TakenInStep DEF GotVarBinds
<1>3. reply \in Replies(packet.version, packet.pdu)
  BY <1>2 DEF AgentReplies
<1>4. reply.status = 0 /\ Received.varbinds = reply.varbinds
  BY <1>2 DEF GotVarBinds, Response
<1>5. packet.pdu = WalkPdu(current) /\ packet.pdu \in Pdu /\ current \in Oid
  BY <1>1 DEF WalkInv, Asked, TypeOK, ClientTypeOK, Request
<1>6. /\ packet.pdu.oids = <<current>>
      /\ \/ packet.pdu.type = "GETNEXT"
         \/ /\ packet.pdu.type = "GETBULK" /\ packet.pdu.nonRepeaters = 0
            /\ packet.pdu.maxRepetitions > 0
  BY <1>5, ClientAssumption DEF WalkPdu
<1>7. RowsAfter(current, Received.varbinds)
  BY <1>3, <1>4, <1>5, <1>6, WalkReply
<1>8. Gathered(call.root, results) /\ current = WalkCurrent(call.root, results)
  BY <1>1 DEF WalkInv, Gathering
<1>9. call.root \in Oid
  BY RootType
<1> QED
  BY <1>7, <1>8, <1>9, WalkGoesOn

LEMMA WalkInit == Init => WalkInv
BY DEF Init, WalkInv, Asked, Gathering, NoCall

LEMMA WalkStep == TypeOK /\ Inv /\ WalkInv /\ [Next]_vars => WalkInv'
<1> SUFFICES ASSUME TypeOK, Inv, WalkInv, [Next]_vars PROVE WalkInv'
  OBVIOUS
<1>1. ASSUME NEW c \in Calls, StartRequest(c) PROVE WalkInv'
  <2>1. c \in RequestCall /\ c.op # "walk"
    BY ClientAssumption DEF RequestCall, Ops
  <2> QED
    BY <1>1, <2>1 DEF StartRequest, NewCall, Issue, WalkInv, Asked, Gathering
<1>2. ASSUME NEW root \in Roots, StartWalk(root) PROVE WalkInv'
  <2>1. root \in Oid
    BY ClientAssumption
  <2>2. /\ call' = [op |-> "walk", root |-> root] /\ current' = root
        /\ results' = <<>> /\ pc' = "sending" /\ outcome' = NoResult
        /\ version' = version /\ packet'.version = version
        /\ packet'.pdu = WalkPdu(root)
    BY <1>2 DEF StartWalk, NewCall, Issue
  <2>3. Asked'
    BY <2>2 DEF Asked, WalkPdu
  <2>4. Gathering'
    BY <2>1, <2>2, GatheredNone DEF Gathering
  <2> QED
    BY <2>3, <2>4 DEF WalkInv
<1>3. ASSUME Return(outcome'), outcome'.result # "ok", call' = call
      PROVE  WalkInv'
  BY <1>3 DEF Return, WalkInv, Asked, Gathering
<1>4. CASE CancelSending \/ CancelReceiving \/ IoErrors \/ Timeout
  <2>1. call' = call /\ Return(outcome') /\ outcome'.result # "ok"
    BY <1>4 DEF CancelSending, CancelReceiving, IoErrors, SendToFails, RecvFails,
                Timeout, GiveUp, Return, Err, callVars
  <2> QED
    BY <1>3, <2>1
<1>5. CASE RecvUndecodable \/ RecvErrorStatus
  <2>1. call' = call /\ Return(outcome') /\ outcome'.result # "ok"
    BY <1>5 DEF RecvUndecodable, RecvErrorStatus, Return, Err, Refusals,
                callVars
  <2> QED
    BY <1>3, <2>1
<1>6. CASE SendTo
  BY <1>6 DEF SendTo, callVars, WalkInv, Asked, Gathering, WalkPdu
<1>7. CASE RecvAnswer
  BY <1>7 DEF RecvAnswer, Return, callVars, WalkInv, Asked, Gathering
<1>8. CASE RecvWalkStep
  <2>1. /\ call.op = "walk" /\ GotVarBinds /\ call' = call /\ pc = "receiving"
        /\ results' = results \o Kept(call.root, Received.varbinds)
        /\ current' = WalkCurrent(current, Kept(call.root, Received.varbinds))
        /\ pc' = "sending" /\ version' = version /\ outcome' = outcome
        /\ packet'.version = version /\ packet'.pdu = WalkPdu(current')
        /\ clean' => clean
    BY <1>8 DEF RecvWalkStep, Issue, GotVarBinds, TakeDatagram
  <2>2. Asked'
    BY <2>1 DEF WalkInv, Asked, WalkPdu
  <2>3. Gathering'
    BY <2>1, AnswerGoesOn DEF Gathering
  <2> QED
    BY <2>2, <2>3 DEF WalkInv
<1>9. CASE RecvWalkEnd
  <2>1. /\ call.op = "walk" /\ GotVarBinds /\ call' = call
        /\ WalkDone(call.root, Received.varbinds)
        /\ results' = results \o Kept(call.root, Received.varbinds)
        /\ current' = WalkCurrent(current, Kept(call.root, Received.varbinds))
        /\ pc' = "idle" /\ outcome'.varbinds = results'
    BY <1>9 DEF RecvWalkEnd, Return, Ok
  <2> QED
    BY <2>1, AnswerGoesOn DEF WalkInv, Asked, Gathering
<1>10. CASE Network \/ UNCHANGED vars
  BY <1>10 DEF Network, vars, clientVars, WalkInv, Asked, Gathering, WalkPdu
<1> QED
  BY <1>1, <1>2, <1>4, <1>5, <1>6, <1>7, <1>8, <1>9, <1>10
     DEF Next, Caller, Progress

\* Whatever the MIB, the root and the rows the agent chooses to send, a walk
\* that stays in step gathers the instances below its root in order, once
\* each and without a gap, and returns Ok only when it has them all.
THEOREM WalksInStep == Spec => []WalkInStep
<1>1. TypeOK /\ WalkInv => WalkInStep
  <2> SUFFICES ASSUME TypeOK, WalkInv, call.op = "walk", clean,
                      pc # "idle" \/ outcome.result = "ok"
               PROVE  /\ IsPrefix(results, Subtree(call.root))
                      /\ current = WalkCurrent(call.root, results)
                      /\ outcome.result = "ok" => outcome.varbinds = Subtree(call.root)
    BY DEF WalkInStep
  <2>1. Gathered(call.root, results) /\ current = WalkCurrent(call.root, results)
    BY DEF WalkInv, Gathering
  <2>2. Subtree(call.root) \in Seq(VarBind)
    BY RootType, SubtreeIs
  <2>3. IsPrefix(results, Subtree(call.root))
    BY <2>1, <2>2, PrefixIs DEF Gathered
  <2>4. outcome.result = "ok" => pc = "idle"
    BY DEF WalkInv, Asked, NoResult
  <2> QED
    BY <2>1, <2>3, <2>4 DEF WalkInv, Gathering
<1> QED
  BY <1>1, WalkInit, WalkStep, InvInit, StepInv, TypeCorrect, PTL DEF Spec

-----------------------------------------------------------------------------
\* The service.  Its agent is the client's.
LEMMA SameAgent ==
    /\ \A root : Service!Subtree(root) = Subtree(root)
    /\ \A v, pdu : Service!Replies(v, pdu) = Replies(v, pdu)
    /\ \A root : Service!EndsMib(root) <=>
                    Position(root) + Cardinality(Below(root)) = Len(Mib)
<1>1. \A a, b : Service!IsStrictPrefix(a, b) = IsStrictPrefix(a, b)
  BY DEF Service!IsStrictPrefix, IsStrictPrefix, Service!IsPrefix, IsPrefix
<1>2. \A a, b : Service!LexLess(a, b) = LexLess(a, b)
  BY <1>1 DEF Service!LexLess, LexLess
<1>3. \A S : Service!Cardinality(S) = Cardinality(S)
  BY DEF Service!Cardinality, Cardinality
<1>4. ASSUME NEW oid
      PROVE  Service!Position(oid) = Position(oid)
  <2>1. {i \in DOMAIN Mib : Mib[i] = oid \/ Service!LexLess(Mib[i], oid)} =
        {i \in DOMAIN Mib : Mib[i] = oid \/ LexLess(Mib[i], oid)}
    BY <1>2
  <2> QED
    BY <1>3, <2>1 DEF Service!Position, Position
<1>5. \A root : Service!Below(root) = Below(root)
  BY <1>1 DEF Service!Below, Below
<1>6. \A root : Service!Subtree(root) = Subtree(root)
  BY <1>3, <1>4, <1>5 DEF Service!Subtree, Subtree, Service!BindAll, BindAll
<1>7. \A oid, r : Service!Successor(oid, r) = Successor(oid, r)
  BY <1>4 DEF Service!Successor, Successor
<1>8. /\ \A status, oids : Service!ErrorReply(status, oids) = ErrorReply(status, oids)
      /\ \A varbinds : Service!NoErrorReply(varbinds) = NoErrorReply(varbinds)
      /\ \A oid : Service!Exists(oid) = Exists(oid) /\ Service!Lookup(oid) = Lookup(oid)
  BY DEF Service!ErrorReply, ErrorReply, Service!NoErrorReply, NoErrorReply,
         Service!Exists, Exists, Service!Lookup, Lookup, Service!BindAll, BindAll
<1>9. \A v, oids : Service!GetReply(v, oids) = GetReply(v, oids)
  BY <1>8 DEF Service!GetReply, GetReply
<1>10. \A v, oids : Service!GetNextReply(v, oids) = GetNextReply(v, oids)
  BY <1>4, <1>7, <1>8 DEF Service!GetNextReply, GetNextReply
<1>11. \A v, oids : Service!SetReply(v, oids) = SetReply(v, oids)
  BY <1>8 DEF Service!SetReply, SetReply, Service!BindAll, BindAll
<1>12. \A oids, n, rows : Service!BulkReply(oids, n, rows) = BulkReply(oids, n, rows)
  BY <1>7, <1>8 DEF Service!BulkReply, BulkReply
<1>13. \A pdu : Service!BulkReplies(pdu) = BulkReplies(pdu)
  BY <1>12 DEF Service!BulkReplies, BulkReplies
<1>14. \A root : Service!EndsMib(root) <=>
                    Position(root) + Cardinality(Below(root)) = Len(Mib)
  BY <1>3, <1>4, <1>5 DEF Service!EndsMib
<1> QED
  BY <1>6, <1>9, <1>10, <1>11, <1>13, <1>14 DEF Service!Replies, Replies

\* On a path that does nothing but lose datagrams there never are strays, and
\* whatever arrives is an answer of the agent's.
Calm ==
    /\ strays = 0 /\ clean
    /\ \A r \in toClient \cup Range(sock) : r.pdu = "RESPONSE"

LEMMA CalmInit == Init => Calm
BY DEF Init, UdpInit, Calm, Range

LEMMA CalmStep ==
    ASSUME Faults \subseteq {"loss"}, TypeOK, Calm, [Next]_vars
    PROVE  Calm'
<1>0. sock \in Seq(Reception) /\ toClient \subseteq Reception
  BY DEF TypeOK, PathTypeOK
<1>1. CASE UNCHANGED <<toClient, sock, strays>>
  <2>1. clean'
    BY DEF Next, Caller, StartRequest, StartWalk, NewCall, CancelSending,
           CancelReceiving, GiveUp, Progress, SendTo, RecvUndecodable,
           RecvErrorStatus, RecvAnswer, RecvWalkStep, RecvWalkEnd, GotVarBinds,
           TakeDatagram, Timeout, IoErrors, SendToFails, RecvFails, Network,
           Calm, clientVars, vars
  <2> QED
    BY <1>1, <2>1 DEF Calm
<1>2. CASE Caller
  <2>1. UNCHANGED <<toClient, sock, strays>>
    BY <1>2 DEF Caller, StartRequest, StartWalk, NewCall, CancelSending,
                CancelReceiving, GiveUp, Abandon, udpVars, Calm
  <2> QED
    BY <1>1, <2>1
<1>3. CASE SendTo
  BY <1>3 DEF SendTo, Send, Calm
<1>4. CASE TakeDatagram
  <2>1. sock # <<>> /\ sock' = Tail(sock) /\ UNCHANGED <<toClient, strays>>
    BY <1>4 DEF TakeDatagram, Receive
  <2>2. Range(sock') \subseteq Range(sock)
    <3>1. Head(sock) \in Reception
      BY <1>0, <2>1
    <3> QED
      BY <1>0, <2>1, <3>1, RangeType
  <2> QED
    BY <1>4, <2>1, <2>2 DEF TakeDatagram, Calm
<1>5. CASE Timeout \/ IoErrors
  <2>1. UNCHANGED <<toClient, sock, strays>>
    BY <1>5 DEF Timeout, IoErrors, SendToFails, RecvFails, GiveUp, Abandon,
                udpVars, Calm
  <2> QED
    BY <1>1, <2>1
<1>6. CASE Network
  <2>1. ~ServeCopy /\ ~Garble /\ ~ArriveCopy /\ UNCHANGED clean
    BY <1>6 DEF Network, clientVars, ServeCopy, Garble, ArriveCopy, Copied, Spoilt
  <2>2. CASE Serve
    <3>1. PICK m \in toAgent : Answer(m)
      BY <2>2 DEF Serve
    <3> QED
      BY <2>1, <2>2, <3>1 DEF Serve, Answer, Response, Calm
  <2>3. CASE Arrive
    <3>1. PICK r \in toClient : Enqueue(r) /\ toClient' = toClient \ {r}
      BY <2>3 DEF Arrive
    <3>2. Range(Append(sock, r)) \subseteq Range(sock) \cup {r}
      BY <1>0, RangeType
    <3>3. Range(sock') \subseteq Range(sock) \cup {r} /\ strays' = strays
      BY <2>3, <3>1, <3>2 DEF Enqueue, Arrive
    <3> QED
      BY <2>1, <3>1, <3>3 DEF Calm
  <2>4. CASE LoseRequest \/ LoseAnswer
    BY <2>1, <2>4 DEF LoseRequest, LoseAnswer, Calm
  <2> QED
    BY <1>6, <2>1, <2>2, <2>3, <2>4 DEF Network
<1>7. CASE UNCHANGED vars
  BY <1>7 DEF vars, clientVars, udpVars, Calm
<1> QED
  BY <1>2, <1>3, <1>4, <1>5, <1>6, <1>7
     DEF Next, Progress, RecvUndecodable, RecvErrorStatus, RecvAnswer,
         RecvWalkStep, RecvWalkEnd, GotVarBinds

\* What a call that is answered returns is what the service promises.
Shown(o) == [result |-> o.result, varbinds |-> o.varbinds]

LEMMA AnswerPromised ==
    ASSUME TypeOK, Inv, WalkInv, Calm, RecvErrorStatus \/ RecvAnswer \/ RecvWalkEnd
    PROVE  Shown(outcome') \in Service!Promised(call)
<1>1. /\ TakeDatagram /\ strays = 0 /\ InStep /\ clean' /\ pc = "receiving"
      /\ Received.pdu = "RESPONSE"
  BY DEF RecvErrorStatus, RecvAnswer, RecvWalkEnd, GotVarBinds, TakeDatagram, Inv, Calm
<1>2. PICK reply \in AgentReplies(packet) : Received = Response(packet, reply)
  BY <1>1, TakenInStep
<1>3. Received.status = reply.status /\ Received.varbinds = reply.varbinds
  BY <1>2 DEF Response
<1>4. reply \in Replies(packet.version, packet.pdu) /\ packet.version = version
  BY <1>1, <1>2 DEF AgentReplies, WalkInv, Asked
<1>5. call.op # "walk" => reply \in Service!Replies(version, PduOf(call))
  BY <1>1, <1>4, SameAgent DEF WalkInv, Asked
<1>6. CASE RecvErrorStatus
  <2>1. Shown(outcome') = Service!Failure("Snmp") /\ reply.status # 0
    BY <1>3, <1>6 DEF RecvErrorStatus, Return, Err, Shown, Service!Failure
  <2>2. CASE call.op = "walk"
    <3>1. packet.pdu = WalkPdu(current) /\ packet.pdu \in Pdu /\ current \in Oid
      BY <1>1, <2>2 DEF WalkInv, Asked, TypeOK, ClientTypeOK, Request
    <3>2. packet.pdu.oids = <<current>> /\ packet.pdu.type \in {"GETNEXT", "GETBULK"}
      BY <3>1 DEF WalkPdu
    <3>3. version = "V1" /\ Position(current) = Len(Mib)
      BY <1>4, <2>1, <3>1, <3>2, WalkRefused
    <3>4. Gathered(call.root, results) /\ current = WalkCurrent(call.root, results)
      BY <1>1, <2>2 DEF WalkInv, Gathering, Calm
    <3>5. Service!EndsMib(call.root)
      BY <2>2, <3>3, <3>4, RootType, WalkAtEnd, SameAgent
    <3> QED
      BY <2>1, <2>2, <3>3, <3>5 DEF Service!Promised
  <2>3. CASE call.op # "walk"
    BY <1>5, <2>1, <2>3 DEF Service!Promised
  <2> QED
    BY <2>2, <2>3
<1>7. CASE RecvAnswer
  <2>1. /\ call.op # "walk" /\ reply.status = 0
        /\ outcome' = AnswerOf(call.op, Received)
    BY <1>3, <1>7 DEF RecvAnswer, GotVarBinds, Return
  <2>2. reply.varbinds \in Seq(VarBind)
    <3>1. packet \in Request
      BY DEF TypeOK, ClientTypeOK
    <3> QED
      BY <1>4, <3>1, RepliesType DEF Request, Reply
  <2>3. CASE call.op # "get_one"
    <3>1. Shown(outcome') = Service!Success(reply.varbinds)
      BY <1>3, <2>1, <2>3 DEF AnswerOf, Ok, Shown, Service!Success
    <3>2. Service!Trim(call.op, reply.varbinds) = reply.varbinds
      BY <2>3 DEF Service!Trim
    <3> QED
      BY <1>5, <2>1, <2>3, <3>1, <3>2 DEF Service!Promised
  <2>4. CASE call.op = "get_one" /\ reply.varbinds = <<>>
    <3>1. Shown(outcome') = Service!Failure("Decode")
      BY <1>3, <2>1, <2>4 DEF AnswerOf, Err, Shown, Service!Failure
    <3> QED
      BY <1>5, <2>1, <2>4, <3>1 DEF Service!Promised
  <2>5. CASE call.op = "get_one" /\ reply.varbinds # <<>>
    <3>1. Shown(outcome') = Service!Success(<<Head(reply.varbinds)>>)
      BY <1>3, <2>1, <2>5 DEF AnswerOf, Ok, Shown, Service!Success
    <3>2. Service!Trim(call.op, reply.varbinds) = <<Head(reply.varbinds)>>
      <4>1. SubSeq(reply.varbinds, 1, 1) = <<Head(reply.varbinds)>>
        BY <2>2, <2>5, FirstOnly
      <4> QED
        BY <2>5, <4>1 DEF Service!Trim
    <3> QED
      BY <1>5, <2>1, <2>5, <3>1, <3>2 DEF Service!Promised
  <2> QED
    BY <2>3, <2>4, <2>5
<1>8. CASE RecvWalkEnd
  <2>1. /\ call.op = "walk" /\ GotVarBinds
        /\ WalkDone(call.root, Received.varbinds)
        /\ outcome'.result = "ok"
        /\ outcome'.varbinds = results \o Kept(call.root, Received.varbinds)
    BY <1>8 DEF RecvWalkEnd, Return, Ok
  <2>2. outcome'.varbinds = Subtree(call.root)
    BY <1>1, <2>1, AnswerGoesOn
  <2>3. Shown(outcome') = Service!Success(Service!Subtree(call.root))
    BY <2>1, <2>2, SameAgent DEF Shown, Service!Success
  <2> QED
    BY <2>1, <2>3 DEF Service!Promised
<1> QED
  BY <1>6, <1>7, <1>8

\* Every step of the client and of the path is one of the service, or none.
LEMMA ServiceStep ==
    ASSUME TypeOK, Inv, WalkInv, Calm, Calm', [Next]_vars
    PROVE  [Service!ServiceNext]_(Service!serviceVars)
<1>1. ASSUME NEW c, NewCall(c), pc' = "sending", version' = version,
             c \in Calls \cup [op : {"walk"}, root : Roots]
      PROVE  Service!ServiceNext
  <2>1. Service!Start(c)
    BY <1>1 DEF NewCall, NoResult, Service!Start, Service!NoAnswer
  <2> QED
    BY <1>1, <2>1 DEF Service!ServiceNext
<1>2. CASE \E c \in Calls : StartRequest(c)
  BY <1>1, <1>2 DEF StartRequest, Issue
<1>3. CASE \E root \in Roots : StartWalk(root)
  BY <1>1, <1>3 DEF StartWalk, Issue
<1>4. ASSUME pc # "idle", Return(outcome'), call' = call,
             \/ Shown(outcome') \in Service!Promised(call)
             \/ \E kind \in {"Io", "Timeout", "cancelled"} :
                   Shown(outcome') = Service!Failure(kind)
      PROVE  Service!ServiceNext
  <2>1. Service!Finish
    BY <1>4 DEF Return, Shown, Service!Finish
  <2> QED
    BY <2>1 DEF Service!ServiceNext
<1>5. CASE CancelSending \/ CancelReceiving \/ Timeout \/ IoErrors
  <2>1. /\ pc # "idle" /\ call' = call /\ Return(outcome')
        /\ \E kind \in {"Io", "Timeout", "cancelled"} :
              \E n : outcome' = Err(kind, n)
    BY <1>5 DEF CancelSending, CancelReceiving, Timeout, IoErrors, SendToFails,
                RecvFails, GiveUp, Return, callVars
  <2>2. \A kind, n : Shown(Err(kind, n)) = Service!Failure(kind)
    BY DEF Shown, Err, Service!Failure
  <2> QED
    BY <1>4, <2>1, <2>2
<1>6. CASE RecvErrorStatus \/ RecvAnswer \/ RecvWalkEnd
  <2>1. Shown(outcome') \in Service!Promised(call)
    BY <1>6, AnswerPromised
  <2>2. pc # "idle" /\ call' = call /\ Return(outcome')
    BY <1>6 DEF RecvErrorStatus, RecvAnswer, RecvWalkEnd, GotVarBinds,
                TakeDatagram, Return, callVars
  <2> QED
    BY <1>4, <2>1, <2>2
<1>7. CASE RecvUndecodable
  <2>1. sock # <<>> /\ Received.pdu # "RESPONSE" /\ sock \in Seq(Reception)
    BY <1>7 DEF RecvUndecodable, TakeDatagram, Receive, TypeOK, PathTypeOK
  <2>2. Received \in Range(sock)
    <3>1. Head(sock) \in Reception
      BY <2>1
    <3> QED
      BY <2>1, <3>1, RangeType DEF Received
  <2> QED
    BY <2>1, <2>2 DEF Calm
<1>8. CASE SendTo \/ RecvWalkStep \/ Network \/ UNCHANGED vars
  <2>1. UNCHANGED <<version, call, outcome>> /\ (pc' = "idle" <=> pc = "idle")
    BY <1>8 DEF SendTo, RecvWalkStep, Issue, GotVarBinds, TakeDatagram, Network,
                callVars, clientVars, vars
  <2> QED
    BY <2>1 DEF Service!serviceVars
<1> QED
  BY <1>2, <1>3, <1>5, <1>6, <1>7, <1>8 DEF Next, Caller, Progress

LEMMA ServiceInit == Init => Service!ServiceInit
BY ClientAssumption
   DEF Init, NoCall, NoResult, Service!ServiceInit, Service!NoAnswer,
       Service!Versions, Versions

\* Whatever the MIB, the calls and the roots, on a path that may lose
\* datagrams every call returns what the agent answers to that very call, a
\* walk returns every instance below its root, and any call may fail instead.
THEOREM ClientIsService ==
    ASSUME Faults \subseteq {"loss"}
    PROVE  Spec => Implements
<1>1. TypeOK /\ Inv /\ WalkInv /\ Calm /\ [Next]_vars
        => Calm' /\ [Service!ServiceNext]_(Service!serviceVars)
  BY CalmStep, ServiceStep
<1> QED
  BY <1>1, ServiceInit, CalmInit, WalkInit, WalkStep, InvInit, StepInv,
     TypeCorrect, PTL DEF Spec, Implements, Service!ServiceSpec

=============================================================================
