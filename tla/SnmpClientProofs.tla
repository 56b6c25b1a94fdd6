--------------------------- MODULE SnmpClientProofs ---------------------------
(***************************************************************************)
(* Proofs about SnmpClient, for every MIB, every set of calls and roots,   *)
(* every choice of faults and every bound.                                 *)
(***************************************************************************)
EXTENDS SnmpClient, SnmpAgentProofs, SequenceTheorems

-----------------------------------------------------------------------------
\* Types of what the actions put together.

\* What a walk asks is a request PDU.
LEMMA WalkPduType ==
    ASSUME NEW oid \in Oid
    PROVE  WalkPdu(oid) \in Pdu
<1>1. <<oid>> \in Seq(Oid)
  OBVIOUS
<1> QED
  BY <1>1, ClientAssumption DEF WalkPdu, Pdu, PduTypes

\* A call's result, of either kind.
LEMMA OutcomeType ==
    ASSUME NEW n \in Nat
    PROVE  /\ \A varbinds \in Seq(VarBind) : Ok(varbinds, n) \in Outcome
           /\ \A kind \in ErrKinds : Err(kind, n) \in Outcome
BY DEF Ok, Err, Outcome

\* What a call makes of a response.
LEMMA AnswerOfType ==
    ASSUME NEW op, NEW r \in Reception
    PROVE  AnswerOf(op, r) \in Outcome
<1>1. r.varbinds \in Seq(VarBind) /\ r.n \in Nat
  BY DEF Reception
<1>2. r.varbinds # <<>> => <<Head(r.varbinds)>> \in Seq(VarBind)
  BY <1>1
<1> QED
  BY <1>1, <1>2, OutcomeType DEF AnswerOf, ErrKinds, Refusals

\* The agent's answer to a request.
LEMMA ResponseType ==
    ASSUME NEW m \in Request, NEW reply \in AgentReplies(m)
    PROVE  Response(m, reply) \in Reception
<1>1. m.version \in Versions /\ m.pdu \in Pdu /\ m.n \in Nat /\ m.id \in Int
  BY DEF Request
<1>2. reply \in Reply
  BY <1>1, RepliesType DEF AgentReplies
<1> QED
  BY <1>1, <1>2 DEF Response, Reception, Reply

\* An exchange begun leaves the client's part well typed.
LEMMA IssueType ==
    ASSUME ClientTypeOK, NEW pdu \in Pdu, Issue(pdu)
    PROVE  /\ request_id' \in Id
           /\ packet' \in Request
           /\ issued' \in Nat
           /\ pc' \in {"idle", "sending", "receiving"}
           /\ version' \in Versions
<1>1. request_id' \in Id
  BY NextIdType DEF Issue, ClientTypeOK
<1>2. request_id' \in Int
  BY <1>1, MaxIdAssumption DEF Id
<1> QED
  BY <1>1, <1>2 DEF Issue, ClientTypeOK, Request

\* The datagram recv takes, and what it leaves queued.
LEMMA TakeType ==
    ASSUME TypeOK, TakeDatagram
    PROVE  /\ Received \in Reception
           /\ PathTypeOK'
           /\ clean' \in BOOLEAN
<1>1. Head(sock) \in Reception /\ Tail(sock) \in Seq(Reception)
  BY DEF TypeOK, PathTypeOK, TakeDatagram, Receive
<1> QED
  BY <1>1 DEF TypeOK, ClientTypeOK, PathTypeOK, TakeDatagram, Receive, Received

\* An exchange ended with a result.
LEMMA ReturnType ==
    ASSUME ClientTypeOK, NEW o \in Outcome, Return(o), UNCHANGED callVars,
           clean' \in BOOLEAN
    PROVE  ClientTypeOK'
BY DEF ClientTypeOK, Return, callVars

-----------------------------------------------------------------------------
\* The initial state is well typed.
LEMMA InitType == Init => TypeOK
<1> SUFFICES ASSUME Init PROVE TypeOK
  OBVIOUS
<1>1. request_id \in Id
  BY ClientAssumption, MaxIdAssumption DEF Init, FreshIds, Id
<1>2. version \in Versions /\ NoPacket \in Request
  BY ClientAssumption DEF Init, NoPacket, Request, Pdu, PduTypes
<1>3. NoResult \in Outcome
  BY DEF NoResult, Outcome
<1> QED
  BY <1>1, <1>2, <1>3, ClientAssumption, UdpAssumption
     DEF Init, UdpInit, TypeOK, ClientTypeOK, PathTypeOK, Oid

\* So is the state after any action of the caller.
LEMMA CallerType == TypeOK /\ Caller => TypeOK'
<1> SUFFICES ASSUME TypeOK, Caller PROVE TypeOK'
  OBVIOUS
<1>1. ASSUME NEW c, NewCall(c)
      PROVE  /\ made' \in 0..MaxCalls /\ clean' \in BOOLEAN
             /\ outcome' \in Outcome /\ PathTypeOK'
  BY <1>1, ClientAssumption
     DEF NewCall, TypeOK, ClientTypeOK, PathTypeOK, udpVars, NoResult, Outcome
<1>2. ASSUME NEW c \in Calls, StartRequest(c) PROVE TypeOK'
  <2>1. c \in RequestCall
    BY ClientAssumption
  <2>2. PduOf(c) \in Pdu
    BY <2>1, PduOfType
  <2> QED
    BY <1>1, <1>2, <2>1, <2>2, IssueType
       DEF StartRequest, NewCall, TypeOK, ClientTypeOK
<1>3. ASSUME NEW root \in Roots, StartWalk(root) PROVE TypeOK'
  <2>1. root \in Oid /\ <<>> \in Seq(VarBind)
    BY ClientAssumption
  <2>2. WalkPdu(root) \in Pdu
    BY <2>1, WalkPduType
  <2>3. [op |-> "walk", root |-> root] \in WalkCall
    BY <2>1 DEF WalkCall
  <2> QED
    BY <1>1, <1>3, <2>1, <2>2, <2>3, IssueType
       DEF StartWalk, NewCall, TypeOK, ClientTypeOK
<1>4. packet.n \in Nat
  BY DEF TypeOK, ClientTypeOK, Request
<1>5. CASE CancelSending
  BY <1>4, <1>5, OutcomeType, ReturnType
     DEF CancelSending, TypeOK, ClientTypeOK, PathTypeOK, udpVars, ErrKinds, Refusals
<1>6. CASE CancelReceiving
  BY <1>4, <1>6, OutcomeType, ReturnType
     DEF CancelReceiving, GiveUp, Abandon, TypeOK, ClientTypeOK, PathTypeOK,
         ErrKinds, Refusals
<1> QED
  BY <1>2, <1>3, <1>5, <1>6 DEF Caller

\* So is the state after any step of a call.
LEMMA ProgressType == TypeOK /\ (Progress \/ IoErrors) => TypeOK'
<1> SUFFICES ASSUME TypeOK, Progress \/ IoErrors PROVE TypeOK'
  OBVIOUS
<1>0. packet.n \in Nat
  BY DEF TypeOK, ClientTypeOK, Request
<1>1. CASE SendTo
  BY <1>1 DEF SendTo, Send, TypeOK, ClientTypeOK, PathTypeOK, callVars
<1>2. CASE SendToFails
  BY <1>0, <1>2, OutcomeType, ReturnType
     DEF SendToFails, TypeOK, ClientTypeOK, PathTypeOK, udpVars, ErrKinds, Refusals
<1>3. ASSUME TakeDatagram
      PROVE  /\ Received \in Reception /\ Received.n \in Nat
             /\ Received.varbinds \in Seq(VarBind)
             /\ PathTypeOK' /\ clean' \in BOOLEAN
  BY <1>3, TakeType DEF Reception
<1>4. CASE RecvUndecodable
  BY <1>3, <1>4, OutcomeType, ReturnType DEF RecvUndecodable, TypeOK, ErrKinds, Refusals
<1>5. CASE RecvErrorStatus
  BY <1>3, <1>5, OutcomeType, ReturnType DEF RecvErrorStatus, TypeOK, ErrKinds, Refusals
<1>6. CASE RecvAnswer
  BY <1>3, <1>6, AnswerOfType, ReturnType DEF RecvAnswer, GotVarBinds, TypeOK
<1>7. ASSUME call.op = "walk", GotVarBinds,
             results' = results \o Kept(call.root, Received.varbinds),
             current' = WalkCurrent(current, Kept(call.root, Received.varbinds))
      PROVE  /\ results' \in Seq(VarBind) /\ current' \in Oid
             /\ Received.n \in Nat /\ PathTypeOK' /\ clean' \in BOOLEAN
  <2>1. call.root \in Oid
    BY <1>7 DEF TypeOK, ClientTypeOK, RequestCall, WalkCall, NoCall, Ops
  <2>2. Received.varbinds \in Seq(VarBind)
    BY <1>3, <1>7 DEF GotVarBinds
  <2>3. Kept(call.root, Received.varbinds) \in Seq(VarBind)
    BY <2>1, <2>2, KeptPrefix
  <2>4. current' \in Oid
    BY <1>7, <2>3, WalkCurrentType DEF TypeOK, ClientTypeOK
  <2>5. results' \in Seq(VarBind)
    BY <1>7, <2>3 DEF TypeOK, ClientTypeOK
  <2> QED
    BY <1>3, <1>7, <2>4, <2>5 DEF GotVarBinds
<1>8. CASE RecvWalkStep
  <2>1. results' \in Seq(VarBind) /\ current' \in Oid
        /\ PathTypeOK' /\ clean' \in BOOLEAN
    BY <1>7, <1>8 DEF RecvWalkStep
  <2>2. WalkPdu(current') \in Pdu
    BY <2>1, WalkPduType
  <2> QED
    BY <1>8, <2>1, <2>2, IssueType DEF RecvWalkStep, TypeOK, ClientTypeOK
<1>9. CASE RecvWalkEnd
  <2>1. /\ results' \in Seq(VarBind) /\ current' \in Oid
        /\ Received.n \in Nat /\ PathTypeOK' /\ clean' \in BOOLEAN
    BY <1>7, <1>9 DEF RecvWalkEnd
  <2>2. Ok(results', Received.n) \in Outcome
    BY <2>1, OutcomeType
  <2> QED
    BY <1>9, <2>1, <2>2 DEF RecvWalkEnd, Return, TypeOK, ClientTypeOK
<1>10. CASE Timeout \/ RecvFails
  BY <1>0, <1>10, OutcomeType, ReturnType
     DEF Timeout, RecvFails, GiveUp, Abandon, TypeOK, ClientTypeOK, PathTypeOK,
         ErrKinds, Refusals
<1> QED
  BY <1>1, <1>2, <1>4, <1>5, <1>6, <1>8, <1>9, <1>10 DEF Progress, IoErrors

\* So is the state after anything the path or the agent does.
LEMMA NetworkType == TypeOK /\ Network => TypeOK'
<1> SUFFICES ASSUME TypeOK, Network PROVE TypeOK'
  OBVIOUS
<1>0. ClientTypeOK'
  BY DEF Network, clientVars, TypeOK, ClientTypeOK
<1>1. ASSUME NEW r \in toClient, Enqueue(r) PROVE sock' \in Seq(Reception)
  BY <1>1 DEF Enqueue, TypeOK, PathTypeOK
<1>2. ASSUME NEW m \in toAgent, Answer(m) PROVE toClient' \subseteq Reception
  <2>1. m \in Request
    BY DEF TypeOK, PathTypeOK
  <2> QED
    BY <1>2, <2>1, ResponseType DEF Answer, TypeOK, PathTypeOK
<1>3. ASSUME Copied PROVE mishaps' \in 0..MaxMishaps /\ strays' \in Nat
  BY <1>3, UdpAssumption DEF Copied, TypeOK, PathTypeOK
<1>4. CASE Serve
  BY <1>0, <1>2, <1>4 DEF Serve, TypeOK, PathTypeOK
<1>5. CASE ServeCopy
  BY <1>0, <1>2, <1>3, <1>5 DEF ServeCopy, TypeOK, PathTypeOK
<1>6. CASE Garble
  <2>1. ASSUME NEW r \in Reception
        PROVE  [r EXCEPT !.pdu = "OTHER", !.varbinds = <<>>] \in Reception
    <3>1. [r EXCEPT !.pdu = "OTHER"] \in Reception
      BY DEF Reception
    <3>2. <<>> \in Seq(VarBind)
      OBVIOUS
    <3> QED
      BY <3>1, <3>2, Zenon DEF Reception
  <2> QED
    BY <1>0, <1>6, <2>1, UdpAssumption DEF Garble, Spoilt, TypeOK, PathTypeOK
<1>7. CASE Arrive
  BY <1>0, <1>1, <1>7 DEF Arrive, TypeOK, PathTypeOK
<1>8. CASE ArriveCopy
  BY <1>0, <1>1, <1>3, <1>8 DEF ArriveCopy, TypeOK, PathTypeOK
<1>9. CASE LoseRequest \/ LoseAnswer
  BY <1>0, <1>9 DEF LoseRequest, LoseAnswer, TypeOK, PathTypeOK
<1> QED
  BY <1>4, <1>5, <1>6, <1>7, <1>8, <1>9 DEF Network

\* TypeOK is preserved by every step.
LEMMA StepType == TypeOK /\ [Next]_vars => TypeOK'
<1>1. TypeOK /\ UNCHANGED vars => TypeOK'
  BY DEF vars, clientVars, udpVars, TypeOK, ClientTypeOK, PathTypeOK
<1> QED
  BY <1>1, CallerType, ProgressType, NetworkType DEF Next

\* The client's state is well typed in every run: ids never leave i32, and a
\* call's outcome is always a Result the code can build.
THEOREM TypeCorrect == Spec => []TypeOK
BY InitType, StepType, PTL DEF Spec

-----------------------------------------------------------------------------
\* Staying in step.  The invariant is InStep /\ OwnAnswer: OwnAnswer alone
\* says nothing of the datagrams a call is about to take.

Inv == InStep /\ OwnAnswer

\* A datagram taken with no strays about leaves the path quiet, and is what
\* became of the answer to the current request.
LEMMA TakenInStep ==
    ASSUME TypeOK, InStep, TakeDatagram, strays = 0
    PROVE  /\ Quiet'
           /\ Received.n = packet.n
           /\ Received.pdu = "RESPONSE"
              => \E reply \in AgentReplies(packet) :
                    Received = Response(packet, reply)
<1>1. sock # <<>> /\ sock \in Seq(Reception) /\ OnTheWay /\ AtMostOne
  BY DEF TakeDatagram, Receive, InStep, TypeOK, PathTypeOK
<1>2. toAgent = {} /\ toClient = {} /\ Len(sock) <= 1
  BY <1>1 DEF AtMostOne
<1>3. Tail(sock) = <<>> /\ Head(sock) = sock[1] /\ 1 \in DOMAIN sock
  <2>1. /\ Len(sock) \in Nat /\ Len(sock) # 0
        /\ Len(Tail(sock)) = Len(sock) - 1 /\ Tail(sock) \in Seq(Reception)
        /\ Head(sock) = sock[1] /\ DOMAIN sock = 1..Len(sock)
    BY <1>1, HeadTailProperties, EmptySeq, LenProperties
  <2>2. Len(Tail(sock)) = 0
    BY <1>2, <2>1
  <2> QED
    BY <1>2, <2>1, <2>2, EmptySeq
<1>4. Head(sock) \in Range(sock)
  BY <1>3 DEF Range
<1> QED
  BY <1>1, <1>2, <1>3, <1>4
     DEF OnTheWay, Received, TakeDatagram, Receive, Quiet

\* A datagram that ends the call or the exchange leaves the client in step.
LEMMA TakeInStep ==
    ASSUME TypeOK, InStep, TakeDatagram, pc' # "receiving"
    PROVE  InStep'
<1>1. strays' = strays
  BY DEF TakeDatagram, Receive
<1>2. CASE strays = 0
  BY <1>2, TakenInStep DEF InStep
<1>3. CASE strays # 0
  BY <1>1, <1>3 DEF InStep
<1> QED
  BY <1>2, <1>3

\* A result that is neither Ok nor an error-status says nothing of an answer.
LEMMA OtherOutcome ==
    ASSUME outcome'.result \notin {"ok", "Snmp"}
    PROVE  OwnAnswer'
BY DEF OwnAnswer

\* Whoever stops waiting stays in step: datagrams left behind are strays.
LEMMA AbandonInStep ==
    ASSUME TypeOK, InStep, pc = "receiving", Abandon, pc' # "receiving"
    PROVE  InStep'
BY DEF Abandon, InStep, Quiet, TypeOK, PathTypeOK

LEMMA InvInit == Init => Inv
BY DEF Init, UdpInit, Inv, InStep, Quiet, OwnAnswer, NoCall, Ops

\* The caller's actions preserve it.
LEMMA CallerInv == TypeOK /\ Inv /\ Caller => Inv'
<1> SUFFICES ASSUME TypeOK, Inv, Caller PROVE Inv'
  OBVIOUS
<1>1. ASSUME NEW c, NewCall(c), pc' = "sending" PROVE Inv'
  BY <1>1 DEF NewCall, udpVars, Inv, InStep, Quiet, OwnAnswer
<1>2. CASE \E c \in Calls : StartRequest(c)
  BY <1>1, <1>2 DEF StartRequest, Issue
<1>3. CASE \E root \in Roots : StartWalk(root)
  BY <1>1, <1>3 DEF StartWalk, Issue
<1>4. CASE CancelSending
  <2>1. InStep'
    BY <1>4 DEF CancelSending, Return, udpVars, Inv, InStep, Quiet
  <2> QED
    BY <1>4, <2>1, OtherOutcome DEF CancelSending, Return, Err, Inv
<1>5. CASE CancelReceiving
  <2>1. InStep'
    BY <1>5, AbandonInStep DEF CancelReceiving, GiveUp, Return, Inv
  <2> QED
    BY <1>5, <2>1, OtherOutcome DEF CancelReceiving, GiveUp, Return, Err, Inv
<1> QED
  BY <1>2, <1>3, <1>4, <1>5 DEF Caller

\* The steps of a call preserve it; the answer's own step is where OwnAnswer
\* comes true.
LEMMA ProgressInv == TypeOK /\ Inv /\ (Progress \/ IoErrors) => Inv'
<1> SUFFICES ASSUME TypeOK, Inv, Progress \/ IoErrors PROVE Inv'
  OBVIOUS
<1>1. CASE SendTo
  <2>1. OwnAnswer'
    BY <1>1 DEF SendTo, OwnAnswer
  <2>2. CASE Quiet
    BY <1>1, <2>1, <2>2
       DEF SendTo, Send, Quiet, Inv, InStep, OnTheWay, AtMostOne, Range
  <2>3. CASE ~Quiet
    BY <1>1, <2>1, <2>3 DEF SendTo, Send, Inv, InStep
  <2> QED
    BY <2>2, <2>3
<1>2. CASE SendToFails
  <2>1. InStep'
    BY <1>2 DEF SendToFails, Return, udpVars, Inv, InStep, Quiet
  <2> QED
    BY <1>2, <2>1, OtherOutcome DEF SendToFails, Return, Err, Inv
<1>3. CASE RecvUndecodable
  <2>1. InStep'
    BY <1>3, TakeInStep DEF RecvUndecodable, Return, Inv
  <2> QED
    BY <1>3, <2>1, OtherOutcome DEF RecvUndecodable, Return, Err, Inv, Refusals
<1>4. CASE RecvErrorStatus
  <2>1. InStep'
    BY <1>4, TakeInStep DEF RecvErrorStatus, Return, Inv
  <2>2. ASSUME clean' PROVE OwnAnswer'
    <3>1. strays = 0 /\ TakeDatagram
      BY <1>4, <2>2 DEF RecvErrorStatus, TakeDatagram
    <3>2. PICK reply \in AgentReplies(packet) :
            Received = Response(packet, reply)
      BY <1>4, <3>1, TakenInStep DEF RecvErrorStatus, Inv
    <3>3. reply.status # 0
      BY <1>4, <3>2 DEF RecvErrorStatus, Response
    <3>4. outcome' = Err("Snmp", packet.n) /\ packet' = packet
      BY <1>4, <3>1, TakenInStep DEF RecvErrorStatus, Return, Inv
    <3> QED
      BY <3>3, <3>4 DEF OwnAnswer
  <2> QED
    BY <2>1, <2>2 DEF Inv, OwnAnswer
<1>5. CASE RecvAnswer
  <2>1. InStep'
    BY <1>5, TakeInStep DEF RecvAnswer, GotVarBinds, Return, Inv
  <2>2. ASSUME clean' PROVE OwnAnswer'
    <3>1. strays = 0 /\ TakeDatagram
      BY <1>5, <2>2 DEF RecvAnswer, GotVarBinds, TakeDatagram
    <3>2. PICK reply \in AgentReplies(packet) :
            Received = Response(packet, reply)
      BY <1>5, <3>1, TakenInStep DEF RecvAnswer, GotVarBinds, Inv
    <3>3. reply.status = 0
      BY <1>5, <3>2 DEF RecvAnswer, GotVarBinds, Response
    <3>4. /\ outcome' = AnswerOf(call.op, Response(packet, reply))
          /\ packet' = packet /\ call' = call
      BY <1>5, <3>2 DEF RecvAnswer, Return, callVars
    <3> QED
      BY <3>3, <3>4 DEF OwnAnswer
  <2> QED
    BY <2>1, <2>2 DEF Inv, OwnAnswer
<1>6. CASE RecvWalkStep
  <2>1. InStep'
    BY <1>6, TakeInStep DEF RecvWalkStep, GotVarBinds, Issue, Inv
  <2> QED
    BY <1>6, <2>1 DEF RecvWalkStep, Issue, Inv, OwnAnswer
<1>7. CASE RecvWalkEnd
  <2>1. InStep'
    BY <1>7, TakeInStep DEF RecvWalkEnd, GotVarBinds, Return, Inv
  <2> QED
    BY <1>7, <2>1 DEF RecvWalkEnd, Inv, OwnAnswer, Ops
<1>8. CASE Timeout \/ RecvFails
  <2>1. InStep'
    BY <1>8, AbandonInStep DEF Timeout, RecvFails, GiveUp, Return, Inv
  <2> QED
    BY <1>8, <2>1, OtherOutcome DEF Timeout, RecvFails, GiveUp, Return, Err, Inv
<1> QED
  BY <1>1, <1>2, <1>3, <1>4, <1>5, <1>6, <1>7, <1>8 DEF Progress, IoErrors

\* What the path and the agent do preserves it: they move the one datagram
\* along, answer it, spoil it or drop it, and a copy they make is a stray.
LEMMA NetworkInv == TypeOK /\ Inv /\ Network => Inv'
<1> SUFFICES ASSUME TypeOK, Inv, Network PROVE Inv'
  OBVIOUS
<1>1. UNCHANGED clientVars /\ OwnAnswer'
  BY DEF Network, clientVars, Inv, OwnAnswer
<1>2. CASE Copied
  <2>1. strays' # 0
    BY <1>2 DEF Copied, TypeOK, PathTypeOK
  <2> QED
    BY <1>1, <2>1 DEF Inv, InStep
<1>3. CASE strays # 0 /\ ~Copied
  <2>1. strays' = strays
    BY <1>3 DEF Network, Serve, ServeCopy, Garble, Spoilt, Arrive, ArriveCopy,
                LoseRequest, LoseAnswer
  <2> QED
    BY <1>1, <1>3, <2>1 DEF Inv, InStep
<1>4. CASE strays = 0 /\ ~Copied
  <2>1. toAgent # {} \/ toClient # {}
    BY <1>4 DEF Network, Serve, ServeCopy, Garble, Arrive, ArriveCopy,
                LoseRequest, LoseAnswer
  <2>2. pc = "receiving" /\ OnTheWay /\ AtMostOne
    BY <1>4, <2>1 DEF Inv, InStep, Quiet
  <2>3. packet' = packet /\ pc' = pc
    BY <1>1 DEF clientVars
  <2>4. SUFFICES OnTheWay' /\ AtMostOne'
    BY <1>1, <2>2, <2>3 DEF Inv, InStep
  <2>5. CASE Serve
    <3>1. PICK m \in toAgent : Answer(m) /\ toAgent' = toAgent \ {m}
      BY <2>5 DEF Serve
    <3>2. m = packet /\ toAgent' = {} /\ toClient = {} /\ sock = <<>>
      BY <2>2, <3>1 DEF OnTheWay, AtMostOne
    <3>3. sock' = <<>>
      BY <2>5, <3>2 DEF Serve
    <3>4. \/ \E reply \in AgentReplies(packet) :
               toClient' = {Response(packet, reply)}
          \/ toClient' = {}
      BY <3>1, <3>2 DEF Answer
    <3>5. \A reply \in AgentReplies(packet) :
             Response(packet, reply).n = packet.n
      BY DEF Response
    <3> QED
      BY <2>3, <3>2, <3>3, <3>4, <3>5 DEF OnTheWay, AtMostOne, Range
  <2>6. CASE Garble
    <3>1. PICK r \in toClient :
            toClient' = (toClient \ {r}) \cup
                        {[r EXCEPT !.pdu = "OTHER", !.varbinds = <<>>]}
      BY <2>6 DEF Garble
    <3> DEFINE g == [r EXCEPT !.pdu = "OTHER", !.varbinds = <<>>]
    <3>2. toClient' = {g} /\ sock' = <<>> /\ toAgent' = {}
      BY <2>2, <2>6, <3>1 DEF Garble, AtMostOne
    <3>3. r \in Reception /\ r.n = packet.n
      BY <2>2 DEF OnTheWay, TypeOK, PathTypeOK
    <3>4. g.n = packet.n /\ g.pdu = "OTHER"
      BY <3>3 DEF Reception
    <3> HIDE DEF g
    <3> QED
      BY <2>3, <3>2, <3>4 DEF OnTheWay, AtMostOne, Range
  <2>7. CASE Arrive
    <3>1. PICK r \in toClient : Enqueue(r) /\ toClient' = toClient \ {r}
      BY <2>7 DEF Arrive
    <3>2. toClient' = {} /\ sock = <<>> /\ toAgent' = {}
      BY <2>2, <2>7, <3>1 DEF Arrive, AtMostOne
    <3>3. sock' = <<r>>
      BY <3>1, <3>2, UdpAssumption DEF Enqueue
    <3>4. Range(sock') = {r} /\ Len(sock') = 1
      BY <3>3 DEF Range
    <3> QED
      BY <2>2, <2>3, <3>2, <3>4 DEF OnTheWay, AtMostOne
  <2>8. CASE LoseRequest \/ LoseAnswer
    BY <2>2, <2>3, <2>8 DEF LoseRequest, LoseAnswer, OnTheWay, AtMostOne, Range
  <2> QED
    BY <1>4, <2>5, <2>6, <2>7, <2>8 DEF Network, ServeCopy, ArriveCopy
<1> QED
  BY <1>2, <1>3, <1>4

LEMMA StepInv == TypeOK /\ Inv /\ [Next]_vars => Inv'
<1>1. TypeOK /\ Inv /\ UNCHANGED vars => Inv'
  BY DEF vars, clientVars, udpVars, Inv, InStep, Quiet, OnTheWay, AtMostOne,
         OwnAnswer
<1> QED
  BY <1>1, CallerInv, ProgressInv, NetworkInv DEF Next

\* With no strays about, the only datagram under way is the current
\* exchange's, for any capacity of the socket and any set of faults.
THEOREM StaysInStep == Spec => []InStep
<1>1. Inv => InStep
  BY DEF Inv
<1> QED
  BY <1>1, InvInit, StepInv, TypeCorrect, PTL DEF Spec

\* Without a single comparison of request ids, a call that took its datagram
\* with no strays about returns the agent's answer to its own request.
THEOREM ReturnsOwnAnswer == Spec => []OwnAnswer
<1>1. Inv => OwnAnswer
  BY DEF Inv
<1> QED
  BY <1>1, InvInit, StepInv, TypeCorrect, PTL DEF Spec

-----------------------------------------------------------------------------
\* How far out of step a client can be.  Cardinalities are numbers only of
\* finite sets, which the invariant therefore includes.

FinitePath == IsFiniteSet(toAgent) /\ IsFiniteSet(toClient)

LagInv == FinitePath /\ LagBounded

\* The queue grows by at most the one datagram that arrives.
LEMMA EnqueueCount ==
    ASSUME TypeOK, NEW r \in toClient, Enqueue(r)
    PROVE  Len(sock') \in Nat /\ Len(sock') <= Len(sock) + 1
<1>1. sock \in Seq(Reception) /\ r \in Reception
  BY DEF TypeOK, PathTypeOK
<1>2. Len(sock) \in Nat /\ Len(Append(sock, r)) = Len(sock) + 1
  BY <1>1
<1> QED
  BY <1>2 DEF Enqueue

LEMMA LagInit == Init => LagInv
<1>1. IsFiniteSet({}) /\ Cardinality({}) = 0
  BY FS_EmptySet
<1> QED
  BY <1>1 DEF Init, UdpInit, LagInv, FinitePath, LagBounded

\* Every step of the client and of the path keeps the account.
LEMMA LagStep == TypeOK /\ LagInv /\ [Next]_vars => LagInv'
<1> SUFFICES ASSUME TypeOK, LagInv, [Next]_vars PROVE LagInv'
  OBVIOUS
<1>0. /\ Cardinality(toAgent) \in Nat /\ Cardinality(toClient) \in Nat
      /\ Len(sock) \in Nat /\ strays \in Nat
  BY FS_CardinalityType DEF LagInv, FinitePath, TypeOK, PathTypeOK
<1>1. ASSUME UNCHANGED udpVars, (pc = "receiving") = (pc' = "receiving")
      PROVE  LagInv'
  BY <1>1 DEF udpVars, LagInv, FinitePath, LagBounded
<1>2. ASSUME pc = "receiving", pc' # "receiving", Abandon PROVE LagInv'
  <2>1. CASE Quiet
    <3>1. Cardinality({}) = 0 /\ Len(<<>>) = 0
      BY FS_EmptySet
    <3> QED
      BY <1>0, <1>2, <2>1, <3>1
         DEF Abandon, Quiet, LagInv, FinitePath, LagBounded
  <2>2. CASE ~Quiet
    BY <1>0, <1>2, <2>2 DEF Abandon, LagInv, FinitePath, LagBounded
  <2> QED
    BY <2>1, <2>2
<1>3. ASSUME TakeDatagram, pc' # "receiving" PROVE LagInv'
  <2>1. pc = "receiving" /\ sock # <<>> /\ sock' = Tail(sock)
        /\ UNCHANGED <<toAgent, toClient, strays>>
    BY <1>3 DEF TakeDatagram, Receive
  <2>2. Len(sock') = Len(sock) - 1
    BY <2>1, HeadTailProperties DEF TypeOK, PathTypeOK
  <2> QED
    BY <1>0, <1>3, <2>1, <2>2 DEF LagInv, FinitePath, LagBounded
<1>4. CASE Caller
  BY <1>1, <1>2, <1>4
     DEF Caller, StartRequest, StartWalk, NewCall, Issue, CancelSending,
         CancelReceiving, GiveUp, Return
<1>5. CASE SendTo
  <2>1. pc = "sending" /\ pc' = "receiving" /\ toAgent' = toAgent \cup {packet}
        /\ UNCHANGED <<toClient, sock>>
    BY <1>5 DEF SendTo, Send
  <2>2. IsFiniteSet(toAgent') /\ Cardinality(toAgent') \in Nat
        /\ Cardinality(toAgent') <= Cardinality(toAgent) + 1
    BY <2>1, CountOne DEF LagInv, FinitePath
  <2>3. CASE Quiet
    <3>1. Cardinality({}) = 0 /\ Len(<<>>) = 0
      BY FS_EmptySet
    <3> QED
      BY <1>0, <1>5, <2>1, <2>2, <2>3, <3>1
         DEF SendTo, Send, Quiet, LagInv, FinitePath, LagBounded
  <2>4. CASE ~Quiet
    BY <1>0, <1>5, <2>1, <2>2, <2>4
       DEF SendTo, Send, LagInv, FinitePath, LagBounded
  <2> QED
    BY <2>3, <2>4
<1>6. CASE RecvUndecodable \/ RecvErrorStatus \/ RecvAnswer \/ RecvWalkStep
           \/ RecvWalkEnd
  BY <1>3, <1>6
     DEF RecvUndecodable, RecvErrorStatus, RecvAnswer, RecvWalkStep,
         RecvWalkEnd, GotVarBinds, Return, Issue
<1>7. CASE SendToFails \/ Timeout \/ RecvFails
  BY <1>1, <1>2, <1>7 DEF SendToFails, Timeout, RecvFails, GiveUp, Return
<1>8. CASE Network
  <2>1. pc' = pc
    BY <1>8 DEF Network, clientVars
  <2>2. ASSUME NEW m \in toAgent, Answer(m)
        PROVE  /\ IsFiniteSet(toClient') /\ Cardinality(toClient') \in Nat
               /\ Cardinality(toClient') <= Cardinality(toClient) + 1
    <3>1. CASE toClient' = toClient
      BY <1>0, <3>1 DEF LagInv, FinitePath
    <3>2. ASSUME NEW reply, toClient' = toClient \cup {Response(m, reply)}
          PROVE  /\ IsFiniteSet(toClient') /\ Cardinality(toClient') \in Nat
                 /\ Cardinality(toClient') <= Cardinality(toClient) + 1
      BY <3>2, CountOne DEF LagInv, FinitePath
    <3> QED
      BY <2>2, <3>1, <3>2 DEF Answer
  <2>3. CASE Serve
    <3>1. PICK m \in toAgent : Answer(m) /\ toAgent' = toAgent \ {m}
      BY <2>3 DEF Serve
    <3>2. IsFiniteSet(toAgent') /\ Cardinality(toAgent') = Cardinality(toAgent) - 1
      BY <3>1, CountOne DEF LagInv, FinitePath
    <3> QED
      BY <1>0, <2>1, <2>2, <2>3, <3>1, <3>2
         DEF Serve, LagInv, FinitePath, LagBounded
  <2>4. CASE ServeCopy
    BY <1>0, <2>1, <2>2, <2>4
       DEF ServeCopy, Copied, LagInv, FinitePath, LagBounded
  <2>5. CASE Garble
    <3>1. PICK r \in toClient :
            toClient' = (toClient \ {r}) \cup
                        {[r EXCEPT !.pdu = "OTHER", !.varbinds = <<>>]}
      BY <2>5 DEF Garble
    <3>2. IsFiniteSet(toClient \ {r})
          /\ Cardinality(toClient \ {r}) = Cardinality(toClient) - 1
      BY <3>1, CountOne DEF LagInv, FinitePath
    <3>3. IsFiniteSet(toClient') /\ Cardinality(toClient') \in Nat
          /\ Cardinality(toClient') <= Cardinality(toClient \ {r}) + 1
      BY <3>1, <3>2, CountOne
    <3> QED
      BY <1>0, <2>1, <2>5, <3>2, <3>3
         DEF Garble, Spoilt, LagInv, FinitePath, LagBounded
  <2>6. CASE Arrive
    <3>1. PICK r \in toClient : Enqueue(r) /\ toClient' = toClient \ {r}
      BY <2>6 DEF Arrive
    <3>2. IsFiniteSet(toClient')
          /\ Cardinality(toClient') = Cardinality(toClient) - 1
      BY <3>1, CountOne DEF LagInv, FinitePath
    <3> QED
      BY <1>0, <2>1, <2>6, <3>1, <3>2, EnqueueCount
         DEF Arrive, LagInv, FinitePath, LagBounded
  <2>7. CASE ArriveCopy
    BY <1>0, <2>1, <2>7, EnqueueCount
       DEF ArriveCopy, Copied, LagInv, FinitePath, LagBounded
  <2>8. CASE LoseRequest
    <3>1. PICK m \in toAgent : toAgent' = toAgent \ {m}
      BY <2>8 DEF LoseRequest
    <3>2. IsFiniteSet(toAgent') /\ Cardinality(toAgent') = Cardinality(toAgent) - 1
      BY <3>1, CountOne DEF LagInv, FinitePath
    <3> QED
      BY <1>0, <2>1, <2>8, <3>2 DEF LoseRequest, LagInv, FinitePath, LagBounded
  <2>9. CASE LoseAnswer
    <3>1. PICK r \in toClient : toClient' = toClient \ {r}
      BY <2>9 DEF LoseAnswer
    <3>2. IsFiniteSet(toClient')
          /\ Cardinality(toClient') = Cardinality(toClient) - 1
      BY <3>1, CountOne DEF LagInv, FinitePath
    <3> QED
      BY <1>0, <2>1, <2>9, <3>2 DEF LoseAnswer, LagInv, FinitePath, LagBounded
  <2> QED
    BY <1>8, <2>3, <2>4, <2>5, <2>6, <2>7, <2>8, <2>9 DEF Network
<1>9. CASE UNCHANGED vars
  BY <1>1, <1>9 DEF vars, clientVars
<1> QED
  BY <1>4, <1>5, <1>6, <1>7, <1>8, <1>9 DEF Next, Progress, IoErrors

\* A client is never further out of step than the datagrams it gave up on and
\* the path repeated.
THEOREM LagIsBounded == Spec => []LagBounded
<1>1. LagInv => LagBounded
  BY DEF LagInv
<1> QED
  BY <1>1, LagInit, LagStep, TypeCorrect, PTL DEF Spec

-----------------------------------------------------------------------------
\* Request ids.  Every exchange begun takes the next id, so the id of what is
\* under way tells how many exchanges ago its request was, up to whole cycles.

IdCounted(d) ==
    /\ d.id \in 1..MaxId /\ request_id \in 1..MaxId
    /\ Counted(MaxId, d.id, d.n, request_id, issued)

IdsCounted ==
    /\ request_id \in FreshIds
    /\ \A d \in UnderWay : IdCounted(d)

\* What is under way has a number and an id.
LEMMA UnderWayType ==
    ASSUME TypeOK, NEW d \in UnderWay
    PROVE  d.n \in Nat /\ d.id \in Int
<1>1. toAgent \subseteq Request /\ toClient \subseteq Reception
      /\ Range(sock) \subseteq Reception /\ packet \in Request
  BY DEF TypeOK, ClientTypeOK, PathTypeOK, Range
<1>2. d \in Request \cup Reception
  BY <1>1 DEF UnderWay
<1> QED
  BY <1>2 DEF Request, Reception

\* A step either moves what is under way along, or begins an exchange.
SameIds == \A d \in UnderWay' : \E c \in UnderWay : d.n = c.n /\ d.id = c.id

LEMMA TakeIds ==
    ASSUME TypeOK, TakeDatagram
    PROVE  /\ pc = "receiving"
           /\ toAgent' \cup toClient' \cup Range(sock') \subseteq UnderWay
<1>1. sock \in Seq(Reception) /\ sock # <<>> /\ sock' = Tail(sock)
      /\ UNCHANGED <<toAgent, toClient>> /\ pc = "receiving"
  BY DEF TypeOK, PathTypeOK, TakeDatagram, Receive
<1>2. Head(sock) \in Reception
  BY <1>1
<1>3. Range(Tail(sock)) \subseteq Range(sock)
  BY <1>1, <1>2, RangeType
<1> QED
  BY <1>1, <1>3 DEF UnderWay

LEMMA NetworkIds ==
    ASSUME TypeOK, Network
    PROVE  SameIds
<1>1. UNCHANGED <<pc, packet>>
  BY DEF Network, clientVars
<1>2. ASSUME NEW r \in toClient, Enqueue(r)
      PROVE  Range(sock') \subseteq Range(sock) \cup {r}
  BY <1>2, RangeType DEF Enqueue, TypeOK, PathTypeOK
<1>3. ASSUME NEW m \in toAgent, Answer(m)
      PROVE  \A r \in toClient' : r \in toClient \/ (r.n = m.n /\ r.id = m.id)
  BY <1>3 DEF Answer, Response
<1>4. CASE Serve \/ ServeCopy
  BY <1>1, <1>3, <1>4 DEF Serve, ServeCopy, SameIds, UnderWay
<1>5. CASE Garble
  <2>1. PICK r \in toClient :
          toClient' = (toClient \ {r}) \cup
                      {[r EXCEPT !.pdu = "OTHER", !.varbinds = <<>>]}
    BY <1>5 DEF Garble
  <2> DEFINE g == [r EXCEPT !.pdu = "OTHER", !.varbinds = <<>>]
  <2>2. g.n = r.n /\ g.id = r.id
    BY DEF TypeOK, PathTypeOK, Reception
  <2>3. toClient' = (toClient \ {r}) \cup {g}
    BY <2>1
  <2> HIDE DEF g
  <2> QED
    BY <1>1, <1>5, <2>2, <2>3 DEF Garble, SameIds, UnderWay
<1>6. CASE Arrive \/ ArriveCopy
  BY <1>1, <1>2, <1>6 DEF Arrive, ArriveCopy, SameIds, UnderWay
<1>7. CASE LoseRequest \/ LoseAnswer
  BY <1>1, <1>7 DEF LoseRequest, LoseAnswer, SameIds, UnderWay
<1> QED
  BY <1>4, <1>5, <1>6, <1>7 DEF Network

LEMMA ExchangeStep ==
    ASSUME TypeOK, [Next]_vars
    PROVE  \/ SameIds /\ UNCHANGED <<request_id, issued>>
           \/ /\ UnderWay' \subseteq UnderWay \cup {packet'}
              /\ \E pdu : Issue(pdu)
<1>1. CASE Network
  BY <1>1, NetworkIds DEF Network, clientVars
<1>2. CASE UNCHANGED vars
  BY <1>2 DEF vars, clientVars, udpVars, SameIds, UnderWay
<1>3. ASSUME NEW pdu, NEW c, NewCall(c), Issue(pdu)
      PROVE  UnderWay' \subseteq UnderWay \cup {packet'}
  BY <1>3 DEF NewCall, udpVars, UnderWay
<1>4. CASE (\E c \in Calls : StartRequest(c)) \/ \E root \in Roots : StartWalk(root)
  BY <1>3, <1>4 DEF StartRequest, StartWalk
<1>5. CASE SendTo
  BY <1>5 DEF SendTo, Send, SameIds, UnderWay
<1>6. CASE SendToFails \/ Timeout \/ RecvFails \/ CancelSending \/ CancelReceiving
  BY <1>6 DEF SendToFails, Timeout, RecvFails, CancelSending, CancelReceiving,
              GiveUp, Abandon, Return, udpVars, SameIds, UnderWay
<1>7. ASSUME TakeDatagram, NEW o, Return(o) PROVE SameIds
  <2>1. UnderWay' \subseteq UnderWay
    BY <1>7, TakeIds DEF Return, UnderWay
  <2> QED
    BY <2>1 DEF SameIds
<1>8. CASE RecvUndecodable \/ RecvErrorStatus \/ RecvAnswer \/ RecvWalkEnd
  <2>1. TakeDatagram /\ \E o : Return(o)
    BY <1>8 DEF RecvUndecodable, RecvErrorStatus, RecvAnswer, RecvWalkEnd,
                GotVarBinds
  <2> QED
    BY <1>7, <2>1 DEF Return
<1>9. CASE RecvWalkStep
  <2>1. TakeDatagram /\ \E pdu : Issue(pdu)
    BY <1>9 DEF RecvWalkStep, GotVarBinds
  <2> QED
    BY <2>1, TakeIds DEF UnderWay
<1> QED
  BY <1>1, <1>2, <1>4, <1>5, <1>6, <1>8, <1>9 DEF Next, Caller, Progress, IoErrors

\* next_request_id, from a positive id and from whatever random gave.  From -1
\* it would be 0.
LEMMA NextIdCount ==
    ASSUME NEW id \in FreshIds
    PROVE  /\ NextId(id) \in 1..MaxId
           /\ id \in 1..MaxId => NextId(id) = id + 1 \/ NextId(id) = id + 1 - MaxId
<1>1. MaxId \in Nat \ {0} /\ (id \in 0..MaxId \/ id = -MaxId - 1)
  BY MaxIdAssumption DEF FreshIds
<1>2. CASE id = MaxId
  BY <1>1, <1>2 DEF NextId, WrappingAdd1
<1>3. CASE id # MaxId
  <2>1. WrappingAdd1(id) = id + 1
    BY <1>3 DEF WrappingAdd1
  <2> QED
    BY <1>1, <1>3, <2>1 DEF NextId
<1> QED
  BY <1>2, <1>3

LEMMA IdsStep == TypeOK /\ IdsCounted /\ [Next]_vars => IdsCounted'
<1> SUFFICES ASSUME TypeOK, IdsCounted, [Next]_vars PROVE IdsCounted'
  OBVIOUS
<1>1. CASE SameIds /\ UNCHANGED <<request_id, issued>>
  <2>1. SUFFICES ASSUME NEW d \in UnderWay' PROVE IdCounted(d)'
    BY <1>1 DEF IdsCounted
  <2>2. PICK c \in UnderWay : d.n = c.n /\ d.id = c.id
    BY <1>1 DEF SameIds
  <2> QED
    BY <1>1, <2>2 DEF IdsCounted, IdCounted
<1>2. ASSUME NEW pdu, Issue(pdu), UnderWay' \subseteq UnderWay \cup {packet'}
      PROVE  IdsCounted'
  <2>0. /\ MaxId \in Nat /\ issued \in Int /\ issued' = issued + 1
        /\ request_id \in FreshIds /\ request_id' = NextId(request_id)
    BY <1>2, MaxIdAssumption DEF Issue, TypeOK, ClientTypeOK, IdsCounted
  <2>1. request_id' \in 1..MaxId /\ request_id' \in Int
    BY <2>0, NextIdCount
  <2>4. request_id' \in FreshIds
    BY <2>1 DEF FreshIds
  <2>2. ASSUME NEW d \in UnderWay PROVE IdCounted(d)'
    <3>1. /\ d.id \in 1..MaxId /\ request_id \in 1..MaxId
          /\ Counted(MaxId, d.id, d.n, request_id, issued)
      BY <2>2 DEF IdsCounted, IdCounted
    <3>2. d.n \in Int /\ d.id \in Int /\ request_id \in Int
      BY <2>2, <3>1, UnderWayType
    <3>3. Counted(MaxId, d.id, d.n, request_id', issued')
      BY <2>0, <2>1, <3>1, <3>2, NextIdCount, CountsOn
    <3> QED
      BY <2>1, <3>1, <3>3 DEF IdCounted
  <2>3. ASSUME NEW d, d = packet' PROVE IdCounted(d)'
    <3>1. d.id = request_id' /\ d.n = issued'
      BY <1>2, <2>0, <2>3 DEF Issue
    <3>2. issued' \in Int
      BY <2>0
    <3> QED
      BY <2>0, <2>1, <3>1, <3>2, CountsFrom DEF IdCounted
  <2> QED
    BY <1>2, <2>2, <2>3, <2>4 DEF IdsCounted
<1> QED
  BY <1>1, <1>2, ExchangeStep

\* An id under way names its request among any i32::MAX successive exchanges,
\* on either side of the wrap: calls that failed, walks, datagrams repeated
\* and answers given up on included.
THEOREM IdsAreNames == Spec => []IdsNameRequests
<1>1. Init => IdsCounted
  BY ClientAssumption DEF Init, UdpInit, IdsCounted, UnderWay, Range
<1>2. TypeOK /\ IdsCounted => IdsNameRequests
  <2> SUFFICES ASSUME TypeOK, IdsCounted, NEW d \in UnderWay, NEW e \in UnderWay
               PROVE  /\ d.id \in 1..MaxId
                      /\ d.id = e.id /\ d.n - e.n \in 0..(MaxId - 1) => d.n = e.n
    BY DEF IdsNameRequests
  <2>1. /\ d.id \in 1..MaxId /\ request_id \in Int /\ issued \in Int
        /\ MaxId \in Nat \ {0} /\ MaxId % MaxId = 0
        /\ d.id \in Int /\ e.id \in Int /\ d.n \in Int /\ e.n \in Int
    BY MaxIdAssumption, UnderWayType DEF IdsCounted, IdCounted, TypeOK,
       ClientTypeOK, Id
  <2>2. /\ Counted(MaxId, d.id, d.n, request_id, issued)
        /\ Counted(MaxId, e.id, e.n, request_id, issued)
    BY DEF IdsCounted, IdCounted
  <2> QED
    BY <2>1, <2>2, SameCount
<1> QED
  BY <1>1, <1>2, IdsStep, TypeCorrect, PTL DEF Spec

=============================================================================
