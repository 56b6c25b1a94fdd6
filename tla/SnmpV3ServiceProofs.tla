-------------------------- MODULE SnmpV3ServiceProofs --------------------------
(***************************************************************************)
(* Proofs about SnmpV3Client, continued from SnmpV3ClientProofs: for a     *)
(* user without authentication the client implements SnmpService on a path *)
(* that may lose datagrams, for every MIB.                                 *)
(***************************************************************************)
EXTENDS SnmpV3ClientProofs

-----------------------------------------------------------------------------
\* What is under way for a user without authentication, once there is a
\* client: a request the engine accepts, of which its answer is a Response
\* that get, get_bulk and walk alike take as it is.

Unmade == pc = "none" => call = NewClient \/ (call = NoCall /\ outcome = NoResult)

Exchanging == Serving /\ pc \in {"sending", "receiving"}

Asked ==
    /\ outcome = NoResult
    /\ packet.flags = {} /\ packet.engine = "engine"
    /\ packet.pdu = IF call.op = "walk" THEN WalkPdu(current) ELSE PduOf(call)

Gathering ==
    call.op = "walk"
    => Gathered(call.root, results) /\ current = WalkCurrent(call.root, results)

Served(r) ==
    /\ r.pdu = "RESPONSE" /\ r.auth = NoAuth /\ r.secret = "plain"
    /\ \E reply \in Replies("V3", packet.pdu) :
          r.status = reply.status /\ r.varbinds = reply.varbinds

ServingInv ==
    /\ Unmade
    /\ Exchanging => Asked /\ Gathering
    /\ Exchanging /\ pc = "receiving" => \A r \in Messages : Served(r)

\* The engine accepts a request without security and answers it.
LEMMA PlainServed ==
    ASSUME packet.flags = {}, packet.engine = "engine",
           NEW r \in EngineAnswers(packet)
    PROVE  Served(r)
<1>1. Cause(packet) = "none"
  BY DEF Cause
<1>2. PICK reply \in Replies("V3", packet.pdu) : r = ResponseTo(packet, reply)
  BY <1>1 DEF EngineAnswers
<1> QED
  BY <1>2 DEF ResponseTo, FromEngine, Served

\* Such a user's request leaves as it was put together.
LEMMA IssuePlain ==
    ASSUME credentials = NoAuthUser, auth_key = AuthKey(credentials),
           NEW e, e.id = "engine", NEW pdu, IssueTo(e, pdu)
    PROVE  /\ packet'.flags = {} /\ packet'.engine = "engine"
           /\ packet'.pdu = pdu /\ pc' = "sending"
<1>1. auth_key = "none" /\ SecurityLevel(credentials) = {}
  BY DEF AuthKey, NoAuthUser, SecurityLevel
<1> DEFINE p == [n |-> issued', msg_id |-> msg_id', request_id |-> request_id',
                 flags |-> SecurityLevel(credentials),
                 engine |-> e.id, boots |-> e.boots, time |-> e.time,
                 auth |-> IF credentials.auth THEN Placeholder ELSE NoAuth,
                 cipher |-> IF Encrypts
                            THEN [key |-> priv_key,
                                  iv |-> Iv(credentials.priv, e.boots, e.time, salt')]
                            ELSE NoCipher,
                 pdu |-> pdu]
<1>2. packet' = Secure(p) /\ pc' = "sending"
  BY DEF IssueTo
<1>3. p.flags = SecurityLevel(credentials) /\ p.engine = e.id /\ p.pdu = pdu
  OBVIOUS
<1> HIDE DEF p
<1>4. packet' = p
  BY <1>1, <1>2 DEF Secure
<1> QED
  BY <1>1, <1>2, <1>3, <1>4

\* A walk's root is an OID.
LEMMA RootType ==
    ASSUME TypeOK, call.op = "walk"
    PROVE  call.root \in Oid
BY DEF TypeOK, CallTypeOK, RequestCall, WalkCall, NoCall, NewClient, Ops

\* While a call of such a user is under way the keys are his, which is none.
LEMMA ServingKeys ==
    ASSUME TypeOK, KeysDerived, Exchanging
    PROVE  /\ engine.id = "engine" /\ auth_key = AuthKey(credentials)
           /\ auth_key = "none" /\ ~Encrypts /\ call # NewClient
           /\ call.op # "new"
<1>1. call # NewClient /\ pc # "none" /\ credentials = NoAuthUser
  BY DEF Exchanging, Serving
<1>2. engine.id = "engine" /\ auth_key = AuthKey(credentials)
  BY <1>1 DEF KeysDerived, Making
<1> QED
  BY <1>1, <1>2, NewClientOp DEF AuthKey, NoAuthUser, Encrypts

\* On an untroubled path he takes an answer to the request he sent.
LEMMA ServedTaken ==
    ASSUME TypeOK, ServingInv, Exchanging, TakeDatagram
    PROVE  /\ Served(Received) /\ Asked /\ Gathering
           /\ Received \in V3Message
BY TakeMessages DEF ServingInv, TakeDatagram

\* What is gathered goes on from where the walk is.
LEMMA AbsorbGoesOn ==
    ASSUME TypeOK, ServingInv, Exchanging, call.op = "walk", Absorb
    PROVE  /\ Gathered(call.root, results')
           /\ current' = WalkCurrent(call.root, results')
           /\ WalkDone(call.root, Received.varbinds) => results' = Subtree(call.root)
<1>1. /\ TakeDatagram /\ Received.status = 0
      /\ results' = results \o Kept(call.root, Received.varbinds)
      /\ current' = WalkCurrent(current, Kept(call.root, Received.varbinds))
  BY DEF Absorb, GotVarBinds, Opened, Accepted, Heeded, Decoded
<1>2. Served(Received) /\ Asked /\ Gathering
  BY <1>1, ServedTaken
<1>3. PICK reply \in Replies("V3", packet.pdu) :
        reply.status = 0 /\ Received.varbinds = reply.varbinds
  BY <1>1, <1>2 DEF Served
<1>4. packet.pdu = WalkPdu(current) /\ packet.pdu \in Pdu /\ current \in Oid
  BY <1>2 DEF Asked, TypeOK, CallTypeOK, V3Request
<1>5. /\ packet.pdu.oids = <<current>>
      /\ packet.pdu.type = "GETBULK" /\ packet.pdu.nonRepeaters = 0
      /\ packet.pdu.maxRepetitions > 0
  BY <1>4, V3ClientAssumption DEF WalkPdu
<1>6. RowsAfter(current, Received.varbinds)
  BY <1>3, <1>4, <1>5, WalkReply
<1>7. Gathered(call.root, results) /\ current = WalkCurrent(call.root, results)
  BY <1>2 DEF Gathering
<1> QED
  BY <1>1, <1>6, <1>7, RootType, WalkGoesOn

LEMMA ServingInit == Init => ServingInv
BY DEF Init, ServingInv, Unmade, Exchanging

\* The client's steps keep a serving exchange one that the engine accepts, and
\* a walk where the bindings it gathered have taken it.
LEMMA ServingClient ==
    ASSUME TypeOK, KeysDerived, InStep, Untroubled, ServingInv,
           Caller \/ Progress \/ IoErrors
    PROVE  ServingInv'
<1>1. CASE New
  BY <1>1 DEF New, Call, ServingInv, Unmade, Exchanging, Serving
<1>2. ASSUME NEW c, c # NewClient, NewCall(c), NEW pdu, IssueTo(engine, pdu),
             pdu = IF c.op = "walk" THEN WalkPdu(current') ELSE PduOf(c),
             c.op = "walk" => current' = c.root /\ results' = <<>> /\ c.root \in Oid
      PROVE  ServingInv'
  <2>1. /\ pc = "idle" /\ call' = c /\ outcome' = NoResult
        /\ UNCHANGED <<credentials, engine, auth_key>> /\ pc' = "sending"
    BY <1>2 DEF NewCall, Call, keyVars, IssueTo
  <2>2. SUFFICES ASSUME credentials = NoAuthUser PROVE Asked' /\ Gathering'
    BY <2>1 DEF ServingInv, Unmade, Exchanging, Serving
  <2>3. engine.id = "engine" /\ auth_key = AuthKey(credentials)
    BY <2>1 DEF KeysDerived, Making
  <2>4. packet'.flags = {} /\ packet'.engine = "engine" /\ packet'.pdu = pdu
    BY <1>2, <2>2, <2>3, IssuePlain
  <2>5. Asked'
    BY <1>2, <2>1, <2>4 DEF Asked, WalkPdu
  <2>6. Gathering'
    BY <1>2, <2>1, SubtreeIs DEF Gathering, Gathered, WalkCurrent
  <2> QED
    BY <2>5, <2>6
<1>3. ASSUME NEW c \in Calls, StartRequest(c) PROVE ServingInv'
  <2>1. c \in RequestCall /\ c.op # "walk" /\ c # NewClient
    BY V3ClientAssumption DEF RequestCall, Ops, NewClient
  <2> QED
    BY <1>2, <1>3, <2>1 DEF StartRequest
<1>4. ASSUME NEW root \in Roots, StartWalk(root) PROVE ServingInv'
  <2>1. root \in Oid /\ [op |-> "walk", root |-> root] # NewClient
    BY V3ClientAssumption DEF NewClient
  <2>2. /\ NewCall([op |-> "walk", root |-> root]) /\ current' = root
        /\ results' = <<>> /\ IssueTo(engine, WalkPdu(root))
    BY <1>4 DEF StartWalk
  <2> QED
    BY <1>2, <2>1, <2>2
<1>5. ASSUME NEW o, Return(o), call' = call, pc \in {"sending", "receiving"}
      PROVE  ServingInv'
  <2>1. pc' = "none" => call' = NewClient
    BY <1>5, NewClientOp DEF Return
  <2>2. ~Exchanging'
    BY <1>5 DEF Return, Exchanging
  <2> QED
    BY <2>1, <2>2 DEF ServingInv, Unmade
<1>6. CASE CancelSending \/ CancelReceiving \/ IoErrors \/ Timeout
  BY <1>5, <1>6 DEF CancelSending, CancelReceiving, IoErrors, SendToFails,
                    RecvFails, Timeout, GiveUp, callVars
<1>7. CASE RecvUndecodable \/ RecvDiscovery \/ RecvNoEngine
  BY <1>5, <1>7 DEF RecvUndecodable, RecvDiscovery, RecvNoEngine, Decoded,
                    TakeDatagram, callVars
<1>8. CASE RecvAuthFailed \/ RecvDecryptFailed \/ RecvBadPdu \/ RecvErrorStatus
           \/ RecvAnswer \/ RecvWalkEnd
  <2>1. Heeded /\ \E o : Return(o)
    BY <1>8 DEF RecvAuthFailed, RecvDecryptFailed, RecvBadPdu, RecvErrorStatus,
                RecvAnswer, RecvWalkEnd, Absorb, GotVarBinds, Opened, Accepted
  <2> QED
    BY <1>5, <2>1 DEF Heeded, Decoded, TakeDatagram
<1>9. ASSUME NEW c, StartPanics(c) PROVE ServingInv'
  BY <1>9 DEF StartPanics, ServingInv, Unmade, Exchanging
<1>10. CASE SendTo
  <2>1. Messages' = {}
    BY <1>10 DEF SendTo, Send, InStep, Untroubled, Quiet, Messages, Range
  <2> QED
    BY <1>10, <2>1 DEF SendTo, keyVars, counterVars, callVars, ServingInv, Unmade,
                       Exchanging, Serving, Asked, Gathering, WalkPdu
<1>11. CASE RecvWalkStep
  <2>1. /\ call.op = "walk" /\ Absorb /\ Heeded /\ pc = "receiving"
        /\ IssueTo(engine', WalkPdu(current')) /\ outcome' = outcome
        /\ UNCHANGED <<credentials, auth_key, call>> /\ pc' = "sending"
    BY <1>11 DEF RecvWalkStep, IssueTo, Absorb, GotVarBinds, Opened, Accepted,
                 Heeded, Decoded, TakeDatagram, keyVars
  <2>2. SUFFICES ASSUME Exchanging PROVE Asked' /\ Gathering'
    BY <2>1 DEF ServingInv, Unmade, Exchanging, Serving
  <2>3. Gathering'
    BY <2>1, <2>2, AbsorbGoesOn DEF Gathering
  <2>4. engine'.id = "engine" /\ auth_key = AuthKey(credentials)
    BY <2>1, <2>2, ServingKeys DEF Heeded, Heed, TypeOK, ClientTypeOK
  <2>5. /\ packet'.flags = {} /\ packet'.engine = "engine"
        /\ packet'.pdu = WalkPdu(current')
    BY <2>1, <2>2, <2>4, IssuePlain DEF Exchanging, Serving
  <2>6. outcome = NoResult
    BY <2>2 DEF ServingInv, Asked
  <2> QED
    BY <2>1, <2>3, <2>5, <2>6 DEF Asked, WalkPdu
<1> QED
  BY <1>1, <1>3, <1>4, <1>6, <1>7, <1>8, <1>9, <1>10, <1>11
     DEF Caller, Progress, IoErrors

\* An untroubled path only moves the answer of the current request along.
LEMMA ServingNetwork ==
    ASSUME Faults \subseteq {"loss"}, TypeOK, InStep, Untroubled, ServingInv, Network
    PROVE  ServingInv'
<1>1. UNCHANGED <<credentials, call, pc, packet, current, results, outcome>>
  BY DEF Network, clientVars, keyVars, counterVars, callVars
<1>2. SUFFICES ASSUME Exchanging, pc = "receiving", NEW r \in Messages'
               PROVE  Served(r)
  BY <1>1 DEF ServingInv, Unmade, Exchanging, Serving, Asked, Gathering, WalkPdu,
              Served
<1>3. CASE r \in Messages
  BY <1>2, <1>3 DEF ServingInv
<1>4. CASE r \notin Messages
  <2>1. ~Garble /\ ~ServeCopy /\ ~ArriveCopy
    BY DEF Garble, Spoilt, ServeCopy, ArriveCopy, Copied
  <2>2. ASSUME NEW x \in toClient, Enqueue(x)
        PROVE  Range(sock') \subseteq Range(sock) \cup {x}
    BY <2>2, RangeType DEF Enqueue, TypeOK, PathTypeOK
  <2>3. Serve
    BY <1>4, <2>1, <2>2 DEF Network, Arrive, LoseRequest, LoseAnswer, Messages
  <2>4. \E m \in toAgent : r \in EngineAnswers(m)
    BY <1>4, <2>3 DEF Serve, Messages
  <2>5. toAgent \subseteq {packet}
    BY <1>2 DEF InStep, Untroubled, OnTheWay
  <2>6. packet.flags = {} /\ packet.engine = "engine"
    BY <1>2 DEF ServingInv, Asked
  <2> QED
    BY <2>4, <2>5, <2>6, PlainServed
<1> QED
  BY <1>3, <1>4

LEMMA ServingStep ==
    ASSUME Faults \subseteq {"loss"}, TypeOK, KeysDerived, InStep, Untroubled,
           ServingInv, [Next]_vars
    PROVE  ServingInv'
<1>1. CASE Engine \/ UNCHANGED vars
  BY <1>1 DEF Engine, vars, clientVars, keyVars, counterVars, callVars, udpVars,
              ServingInv, Unmade, Exchanging, Serving, Asked, Gathering, WalkPdu,
              Served, Messages
<1> QED
  BY <1>1, ServingClient, ServingNetwork DEF Next

-----------------------------------------------------------------------------
\* The service.  Its agent is the client's.
LEMMA SameAgent ==
    /\ \A root : Service!Subtree(root) = Subtree(root)
    /\ \A v, pdu : Service!Replies(v, pdu) = Replies(v, pdu)
    /\ \A root : Service!EndsMib(root) <=>
                    Position(root) + Cardinality(Below(root)) = Len(Mib)
<1>1. \A a, b : Service!IsStrictPrefix(a, b) = IsStrictPrefix(a, b)
  BY DEF Service!IsStrictPrefix, IsStrictPrefix, Service!IsPrefix, IsPrefix
<1>2. \A a, b : Service!LexLess(a, b) = LexLess(a, b)
  BY <1>1 DEF Service!LexLess, LexLess
<1>3. \A S : Service!Cardinality(S) = Cardinality(S)
  BY DEF Service!Cardinality, Cardinality
<1>4. ASSUME NEW oid
      PROVE  Service!Position(oid) = Position(oid)
  <2>1. {i \in DOMAIN Mib : Mib[i] = oid \/ Service!LexLess(Mib[i], oid)} =
        {i \in DOMAIN Mib : Mib[i] = oid \/ LexLess(Mib[i], oid)}
    BY <1>2
  <2> QED
    BY <1>3, <2>1 DEF Service!Position, Position
<1>5. \A root : Service!Below(root) = Below(root)
  BY <1>1 DEF Service!Below, Below
<1>6. \A root : Service!Subtree(root) = Subtree(root)
  BY <1>3, <1>4, <1>5 DEF Service!Subtree, Subtree, Service!BindAll, BindAll
<1>7. \A oid, r : Service!Successor(oid, r) = Successor(oid, r)
  BY <1>4 DEF Service!Successor, Successor
<1>8. /\ \A status, oids : Service!ErrorReply(status, oids) = ErrorReply(status, oids)
      /\ \A varbinds : Service!NoErrorReply(varbinds) = NoErrorReply(varbinds)
      /\ \A oid : Service!Exists(oid) = Exists(oid) /\ Service!Lookup(oid) = Lookup(oid)
  BY DEF Service!ErrorReply, ErrorReply, Service!NoErrorReply, NoErrorReply,
         Service!Exists, Exists, Service!Lookup, Lookup, Service!BindAll, BindAll
<1>9. \A v, oids : Service!GetReply(v, oids) = GetReply(v, oids)
  BY <1>8 DEF Service!GetReply, GetReply
<1>10. \A v, oids : Service!GetNextReply(v, oids) = GetNextReply(v, oids)
  BY <1>4, <1>7, <1>8 DEF Service!GetNextReply, GetNextReply
<1>11. \A v, oids : Service!SetReply(v, oids) = SetReply(v, oids)
  BY <1>8 DEF Service!SetReply, SetReply, Service!BindAll, BindAll
<1>12. \A oids, n, rows : Service!BulkReply(oids, n, rows) = BulkReply(oids, n, rows)
  BY <1>7, <1>8 DEF Service!BulkReply, BulkReply
<1>13. \A pdu : Service!BulkReplies(pdu) = BulkReplies(pdu)
  BY <1>12 DEF Service!BulkReplies, BulkReplies
<1>14. \A root : Service!EndsMib(root) <=>
                    Position(root) + Cardinality(Below(root)) = Len(Mib)
  BY <1>3, <1>4, <1>5 DEF Service!EndsMib
<1> QED
  BY <1>6, <1>9, <1>10, <1>11, <1>13, <1>14 DEF Service!Replies, Replies

\* What a call that is answered returns is what the service promises.
Shown(o) == [result |-> o.result, varbinds |-> o.varbinds]

LEMMA AnswerPromised ==
    ASSUME TypeOK, ServingInv, Exchanging, RecvErrorStatus \/ RecvAnswer \/ RecvWalkEnd
    PROVE  Shown(outcome') \in Service!Promised(call)
<1>1. TakeDatagram
  BY DEF RecvErrorStatus, RecvAnswer, RecvWalkEnd, Absorb, GotVarBinds, Opened,
         Accepted, Heeded, Decoded
<1>2. Served(Received) /\ Asked
  BY <1>1, ServedTaken
<1>3. PICK reply \in Replies("V3", packet.pdu) :
        Received.status = reply.status /\ Received.varbinds = reply.varbinds
  BY <1>2 DEF Served
<1>4. call.op # "walk" => reply \in Service!Replies("V3", PduOf(call))
  BY <1>2, <1>3, SameAgent DEF Asked
<1>5. CASE RecvErrorStatus
  <2>1. Shown(outcome') = Service!Failure("Snmp") /\ reply.status # 0
    BY <1>3, <1>5 DEF RecvErrorStatus, Return, Err, Shown, Service!Failure
  <2>2. call.op # "walk"
    <3> SUFFICES ASSUME call.op = "walk" PROVE FALSE
      OBVIOUS
    <3>1. packet.pdu = WalkPdu(current) /\ packet.pdu \in Pdu /\ current \in Oid
      BY <1>2 DEF Asked, TypeOK, CallTypeOK, V3Request
    <3>2. packet.pdu.oids = <<current>> /\ packet.pdu.type = "GETBULK"
      BY <3>1 DEF WalkPdu
    <3> QED
      BY <1>3, <2>1, <3>1, <3>2, WalkRefused
  <2> QED
    BY <1>4, <2>1, <2>2 DEF Service!Promised, Exchanging
<1>6. CASE RecvAnswer
  <2>1. /\ call.op # "walk" /\ reply.status = 0
        /\ outcome' = AnswerOf(call.op, Received)
    BY <1>3, <1>6 DEF RecvAnswer, GotVarBinds, Return
  <2>2. reply.varbinds \in Seq(VarBind)
    BY <1>3, RepliesType DEF TypeOK, CallTypeOK, V3Request, Versions, Reply
  <2>3. CASE call.op # "get_one"
    <3>1. Shown(outcome') = Service!Success(reply.varbinds)
      BY <1>3, <2>1, <2>3 DEF AnswerOf, Ok, Shown, Service!Success
    <3>2. Service!Trim(call.op, reply.varbinds) = reply.varbinds
      BY <2>3 DEF Service!Trim
    <3> QED
      BY <1>4, <2>1, <2>3, <3>1, <3>2 DEF Service!Promised, Exchanging
  <2>4. CASE call.op = "get_one" /\ reply.varbinds = <<>>
    <3>1. Shown(outcome') = Service!Failure("Decode")
      BY <1>3, <2>1, <2>4 DEF AnswerOf, Err, Shown, Service!Failure
    <3> QED
      BY <1>4, <2>1, <2>4, <3>1 DEF Service!Promised, Exchanging
  <2>5. CASE call.op = "get_one" /\ reply.varbinds # <<>>
    <3>1. Shown(outcome') = Service!Success(<<Head(reply.varbinds)>>)
      BY <1>3, <2>1, <2>5 DEF AnswerOf, Ok, Shown, Service!Success
    <3>2. Service!Trim(call.op, reply.varbinds) = <<Head(reply.varbinds)>>
      BY <2>2, <2>5, FirstOnly DEF Service!Trim
    <3> QED
      BY <1>4, <2>1, <2>5, <3>1, <3>2 DEF Service!Promised, Exchanging
  <2> QED
    BY <2>3, <2>4, <2>5
<1>7. CASE RecvWalkEnd
  <2>1. /\ call.op = "walk" /\ Absorb /\ WalkDone(call.root, Received.varbinds)
        /\ Shown(outcome') = Service!Success(results')
    BY <1>7 DEF RecvWalkEnd, Return, Ok, Shown, Service!Success
  <2>2. results' = Service!Subtree(call.root)
    BY <2>1, AbsorbGoesOn, SameAgent
  <2> QED
    BY <2>1, <2>2 DEF Service!Promised
<1> QED
  BY <1>5, <1>6, <1>7

\* A call that starts or ends under Serving starts or ends in the service.
LEMMA ServiceStarts ==
    ASSUME Unmade, credentials = NoAuthUser, NEW c, c # NewClient,
           c \in Calls \cup [op : {"walk"}, root : Roots],
           NewCall(c), pc' = "sending"
    PROVE  Service!ServiceNext
<1>1. /\ pc = "idle" /\ call' = c /\ outcome' = NoResult
      /\ Serving' /\ ~(Serving /\ pc \in {"sending", "receiving"})
  BY DEF NewCall, Call, keyVars, Serving
<1>2. Service!Start(c)
  BY <1>1 DEF NoResult, Service!Start, Service!NoAnswer
<1> QED
  BY <1>2 DEF Service!ServiceNext

LEMMA ServiceFinishes ==
    ASSUME TypeOK, Exchanging, NEW o, Return(o), UNCHANGED <<credentials, call>>,
           \/ Shown(o) \in Service!Promised(call)
           \/ \E kind \in {"Io", "Timeout", "cancelled"} :
                 Shown(o) = Service!Failure(kind)
    PROVE  Service!ServiceNext
<1>1. Serving /\ Serving' /\ pc' = "idle" /\ outcome' = o
  BY NewClientOp DEF Exchanging, Serving, Return
<1>2. Service!Finish
  BY <1>1 DEF Shown, Service!Finish, Exchanging
<1> QED
  BY <1>2 DEF Service!ServiceNext

\* Calls of other users, and new, are none of the service's.
LEMMA ServiceIdles ==
    ASSUME ~Serving, ~Serving'
    PROVE  UNCHANGED Service!serviceVars
BY DEF Service!serviceVars

LEMMA ServiceStep ==
    ASSUME TypeOK, KeysDerived, ServingInv, [Next]_vars
    PROVE  [Service!ServiceNext]_(Service!serviceVars)
<1>1. CASE New
  <2>1. call' = NewClient /\ pc = "none" /\ ~Serving'
    BY <1>1 DEF New, Call, Serving
  <2>2. CASE ~Serving
    BY <2>1, <2>2, ServiceIdles
  <2>3. CASE Serving
    <3>1. call = NoCall /\ outcome = NoResult
      BY <2>1, <2>3 DEF ServingInv, Unmade, Serving
    <3> QED
      BY <2>1, <2>3, <3>1 DEF NoResult, Service!serviceVars
  <2> QED
    BY <2>2, <2>3
<1>2. CASE ~New /\ credentials # NoAuthUser
  <2>1. UNCHANGED credentials
    BY <1>2, ClientSteps
       DEF Next, Network, Engine, vars, clientVars, keyVars, callVars, Asks, AsksOn,
           Concludes, Believes, Quits, Panics, SendTo, RecvDiscovery, RecvNoEngine
  <2> QED
    BY <1>2, <2>1, ServiceIdles DEF Serving
<1>3. CASE credentials = NoAuthUser /\ \E c \in Calls : StartRequest(c)
  <2>1. PICK c \in Calls : StartRequest(c)
    BY <1>3
  <2>2. c # NewClient
    BY V3ClientAssumption DEF RequestCall, NewClient, Ops
  <2> QED
    BY <1>3, <2>1, <2>2, ServiceStarts DEF StartRequest, IssueTo, ServingInv
<1>4. CASE credentials = NoAuthUser /\ \E root \in Roots : StartWalk(root)
  <2>1. PICK root \in Roots : StartWalk(root)
    BY <1>4
  <2>2. [op |-> "walk", root |-> root] # NewClient
    BY DEF NewClient
  <2> QED
    BY <1>4, <2>1, <2>2, ServiceStarts DEF StartWalk, IssueTo, ServingInv
<1>5. ASSUME credentials = NoAuthUser, NEW c, StartPanics(c) PROVE FALSE
  BY <1>5 DEF StartPanics, Unwraps, Encrypts, NoAuthUser
<1>6. ASSUME UNCHANGED <<credentials, call, pc, outcome>>
      PROVE  UNCHANGED Service!serviceVars
  BY <1>6 DEF Serving, Service!serviceVars
<1>7. CASE Network \/ Engine \/ UNCHANGED vars
  BY <1>6, <1>7 DEF Network, Engine, vars, clientVars, keyVars, callVars
<1>8. ASSUME call = NewClient, call' = NewClient PROVE UNCHANGED Service!serviceVars
  BY <1>8, ServiceIdles DEF Serving
<1>9. ASSUME credentials = NoAuthUser, pc \in {"sending", "receiving"},
             call # NewClient
      PROVE  Exchanging
  BY <1>9 DEF Exchanging, Serving
<1>10. CASE credentials = NoAuthUser
            /\ (CancelSending \/ CancelReceiving \/ Timeout \/ IoErrors)
  <2>1. /\ pc \in {"sending", "receiving"} /\ UNCHANGED <<credentials, call>>
        /\ \E kind \in {"Io", "Timeout", "cancelled"} :
              \E n : Return(Err(kind, n))
    BY <1>10 DEF CancelSending, CancelReceiving, Timeout, IoErrors, SendToFails,
                 RecvFails, GiveUp, keyVars, callVars
  <2>2. \A kind, n : Shown(Err(kind, n)) = Service!Failure(kind)
    BY DEF Shown, Err, Service!Failure
  <2> QED
    BY <1>8, <1>9, <1>10, <2>1, <2>2, ServiceFinishes
<1>11. CASE credentials = NoAuthUser /\ (SendTo \/ RecvWalkStep)
  <2>1. /\ UNCHANGED <<credentials, call, outcome>>
        /\ pc \in {"sending", "receiving"} /\ pc' \in {"sending", "receiving"}
    BY <1>11 DEF SendTo, RecvWalkStep, IssueTo, Absorb, GotVarBinds, Opened,
                 Accepted, Heeded, Decoded, TakeDatagram, keyVars, callVars
  <2> QED
    BY <2>1 DEF Serving, Service!serviceVars
<1>12. CASE RecvDiscovery \/ RecvNoEngine
  <2>1. call = NewClient /\ call' = NewClient
    BY <1>12, NewClientOp DEF RecvDiscovery, RecvNoEngine, callVars
  <2> QED
    BY <1>8, <2>1
<1>13. CASE credentials = NoAuthUser
            /\ (RecvUndecodable \/ RecvAuthFailed \/ RecvDecryptFailed \/ RecvBadPdu)
  <2>1. TakeDatagram /\ call' = call
    BY <1>13 DEF RecvUndecodable, RecvAuthFailed, RecvDecryptFailed, RecvBadPdu,
                 Accepted, Heeded, Decoded, callVars
  <2>2. CASE Exchanging
    <3>1. Served(Received) /\ auth_key = "none"
      BY <2>1, <2>2, ServedTaken, ServingKeys
    <3> QED
      BY <1>13, <3>1 DEF RecvUndecodable, RecvAuthFailed, RecvDecryptFailed,
                         RecvBadPdu, Served, Verified, Readable
  <2> QED
    BY <1>8, <1>9, <1>13, <2>1, <2>2 DEF TakeDatagram
<1>14. CASE credentials = NoAuthUser
            /\ (RecvErrorStatus \/ RecvAnswer \/ RecvWalkEnd)
  <2>1. Heeded /\ \E o : Return(o)
    BY <1>14 DEF RecvErrorStatus, RecvAnswer, RecvWalkEnd, Absorb, GotVarBinds,
                 Opened, Accepted
  <2>2. Exchanging /\ UNCHANGED <<credentials, call>> /\ Return(outcome')
    BY <1>9, <1>14, <2>1, NewClientOp
       DEF Heeded, Decoded, TakeDatagram, keyVars, Return
  <2>3. Shown(outcome') \in Service!Promised(call)
    BY <1>14, <2>2, AnswerPromised
  <2> QED
    BY <2>2, <2>3, ServiceFinishes
<1> QED
  BY <1>1, <1>2, <1>3, <1>4, <1>5, <1>7, <1>10, <1>11, <1>12, <1>13, <1>14
     DEF Next, Caller, Progress

LEMMA ServiceInit == Init => Service!ServiceInit
BY DEF Init, NoCall, NewClient, NoResult, Serving, Service!ServiceInit,
       Service!NoAnswer, Service!Versions

\* Whatever the MIB, the calls and the roots, and however often the engine
\* restarts, on a path that may lose datagrams every call of a user without
\* authentication returns what the agent answers to that very call, a walk
\* returns every instance below its root, and any call may fail instead.
THEOREM ClientIsService ==
    ASSUME Faults \subseteq {"loss"}
    PROVE  Spec => Implements
<1>1. TypeOK /\ KeysDerived /\ Inv /\ Untroubled /\ ServingInv /\ [Next]_vars
        => Untroubled' /\ ServingInv' /\ [Service!ServiceNext]_(Service!serviceVars)
  BY UntroubledStep, ServingStep, ServiceStep DEF Inv
<1>2. Init => Untroubled
  BY DEF Init, UdpInit, Untroubled, Messages, Range
<1> QED
  BY <1>1, <1>2, ServiceInit, ServingInit, KeysAlways, InvAlways, TypeCorrect, PTL
     DEF Spec, Implements, Service!ServiceSpec

=============================================================================
