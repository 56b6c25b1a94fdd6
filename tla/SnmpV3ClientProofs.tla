-------------------------- MODULE SnmpV3ClientProofs --------------------------
(***************************************************************************)
(* Proofs about SnmpV3Client, for every MIB, every set of users, calls and *)
(* roots, every choice of faults and every bound.                          *)
(***************************************************************************)
EXTENDS SnmpV3Client, SnmpAgentProofs, SequenceTheorems

-----------------------------------------------------------------------------
\* Types of what the actions put together.

\* What a walk asks is a request PDU.
LEMMA WalkPduType ==
    ASSUME NEW oid \in Oid
    PROVE  WalkPdu(oid) \in Pdu
<1>1. <<oid>> \in Seq(Oid)
  OBVIOUS
<1> QED
  BY <1>1, V3ClientAssumption DEF WalkPdu, Pdu, PduTypes

\* A call's result, of either kind.
LEMMA OutcomeType ==
    ASSUME NEW n \in Nat
    PROVE  /\ \A varbinds \in Seq(VarBind) : Ok(varbinds, n) \in Outcome
           /\ \A kind \in ErrKinds : Err(kind, n) \in Outcome
BY DEF Ok, Err, Outcome

\* What a call makes of a response.
LEMMA AnswerOfType ==
    ASSUME NEW op, NEW r \in V3Message
    PROVE  AnswerOf(op, r) \in Outcome
<1>1. r.varbinds \in Seq(VarBind) /\ r.n \in Nat
  BY DEF V3Message
<1>2. r.varbinds # <<>> => <<Head(r.varbinds)>> \in Seq(VarBind)
  BY <1>1
<1> QED
  BY <1>1, <1>2, OutcomeType DEF AnswerOf, ErrKinds, Refusals

\* next_salt stays a 64-bit number, and what encrypt_des and encrypt_aes128
\* make of it is a sequence of numbers.
LEMMA SaltType ==
    ASSUME NEW s \in 0..(SaltSize - 1)
    PROVE  /\ NextSalt(s) \in 0..(SaltSize - 1)
           /\ s % DesSaltSize \in Nat
           /\ \A priv : \A boots, time \in Nat :
                 Iv(priv, boots, time, s) \in Seq(Nat)
<1>1. NextSalt(s) \in 0..(SaltSize - 1) /\ s % DesSaltSize \in Nat
  BY UsmAssumption DEF NextSalt
<1> QED
  BY <1>1 DEF Iv, DesIv, AesIv

\* The keys of a user, and the parameters a request of his carries.
LEMMA KeyType ==
    ASSUME NEW c \in Credentials
    PROVE  AuthKey(c) \in Password /\ PrivKey(c) \in Password
BY DEF Credentials, AuthKey, PrivKey, Password

LEMMA MacType ==
    ASSUME NEW key \in Password
    PROVE  /\ ComputeAuth(key, Placeholder) \in AuthParams
           /\ NoAuth \in AuthParams /\ Placeholder \in AuthParams
BY DEF AuthParams

\* Find and replace leaves a request a request.
LEMMA SecureType ==
    ASSUME NEW p \in V3Request, auth_key \in Password
    PROVE  Secure(p) \in V3Request
<1>1. CASE auth_key = "none"
  BY <1>1 DEF Secure
<1>2. CASE auth_key # "none" /\ FindPlaceholder(p.auth) = "params"
  <2>1. p.auth = Placeholder
    BY <1>2 DEF FindPlaceholder
  <2>2. ComputeAuth(auth_key, p.auth) \in AuthParams
    BY <2>1, MacType
  <2>3. Secure(p) = [p EXCEPT !.auth = ComputeAuth(auth_key, p.auth)]
    BY <1>2 DEF Secure
  <2> HIDE DEF AuthParams
  <2> QED
    BY <2>2, <2>3 DEF V3Request
<1>3. CASE auth_key # "none" /\ FindPlaceholder(p.auth) # "params"
  BY <1>3 DEF Secure, V3Request, EngineIds
<1> QED
  BY <1>1, <1>2, <1>3

\* The discovery is a request.
LEMMA DiscoveryType ==
    ASSUME NEW n \in Nat, NEW id \in Id
    PROVE  Discovery(n, id) \in V3Request
<1>1. 0 \in Id
  BY MaxIdAssumption DEF Id
<1>2. NoCipher \in [key : Password, iv : Seq(Nat)]
  BY DEF NoCipher, Password
<1>3. [type |-> "GET", oids |-> <<>>, nonRepeaters |-> 0,
       maxRepetitions |-> 0] \in Pdu
  BY DEF Pdu, PduTypes, Oid
<1>4. NoAuth \in AuthParams
  BY DEF AuthParams
<1> QED
  BY <1>1, <1>2, <1>3, <1>4 DEF Discovery, V3Request, EngineIds

\* The engine's answers to a request are messages.
LEMMA FromEngineType ==
    ASSUME EngineTypeOK, NEW m \in V3Request
    PROVE  FromEngine(m) \in V3Message
<1>1. ASSUME NEW n \in Nat, NEW boots \in Nat, NEW time \in Nat,
             NEW auth \in AuthParams, NEW status \in Statuses,
             NEW varbinds \in Seq(VarBind)
      PROVE  [n |-> n, engine |-> "engine", boots |-> boots, time |-> time,
              pdu |-> "RESPONSE", cause |-> "none", auth |-> auth,
              secret |-> "plain", status |-> status, varbinds |-> varbinds]
                \in V3Message
  BY <1>1 DEF V3Message, EngineIds
<1>2. m.n \in Nat /\ agentBoots \in Nat /\ agentTime \in Nat
  BY EngineAssumption DEF EngineTypeOK, V3Request
<1>3. NoAuth \in AuthParams /\ 0 \in Statuses /\ <<>> \in Seq(VarBind)
  BY DEF AuthParams, Statuses
<1> QED
  BY <1>1, <1>2, <1>3, Zenon DEF FromEngine

LEMMA EngineAnswersType ==
    ASSUME EngineTypeOK, NEW m \in V3Request
    PROVE  EngineAnswers(m) \subseteq V3Message
<1>1. FromEngine(m) \in V3Message
  BY FromEngineType
<1>2. Signed \in AuthParams /\ NoAuth \in AuthParams
  BY DEF AuthParams, Signed, Password
<1>3. Cause(m) \in {"none", "unknownEngineIDs", "wrongDigests",
                    "notInTimeWindows", "decryptionErrors"}
  BY DEF Cause
<1>4. <<[oid |-> UsmStats, value |-> "Value"]>> \in Seq(VarBind)
  BY EngineAssumption DEF VarBind, Value
<1>5. ReportTo(m) \in V3Message
  BY <1>1, <1>2, <1>3, <1>4 DEF ReportTo, V3Message
<1>6. ASSUME NEW reply \in Replies("V3", m.pdu)
      PROVE  ResponseTo(m, reply) \in V3Message
  <2>1. m.pdu \in Pdu
    BY DEF V3Request
  <2>2. reply \in Reply
    BY <2>1, RepliesType DEF Versions
  <2> QED
    BY <1>1, <1>2, <2>2 DEF ResponseTo, V3Message, Reply
<1> QED
  BY <1>5, <1>6 DEF EngineAnswers

\* So is what becomes of an answer that is garbled.
LEMMA GarbledType ==
    ASSUME NEW r \in V3Message
    PROVE  Garbled(r) \subseteq V3Message
<1>1. <<>> \in Seq(VarBind) /\ NoAuth \in AuthParams
  BY DEF AuthParams
<1>2. \A x \in {"OTHER", "MALFORMED"} :
         [r EXCEPT !.pdu = x, !.varbinds = <<>>] \in V3Message
  <2>1. \A x \in {"OTHER", "MALFORMED"} : [r EXCEPT !.pdu = x] \in V3Message
    BY DEF V3Message
  <2> QED
    BY <1>1, <2>1, Zenon DEF V3Message
<1>3. [r EXCEPT !.engine = "", !.boots = 0, !.time = 0, !.auth = NoAuth]
         \in V3Message
  BY <1>1 DEF V3Message, EngineIds
<1>4. [r EXCEPT !.secret = "broken"] \in V3Message
  BY DEF V3Message
<1> QED
  BY <1>2, <1>3, <1>4 DEF Garbled

\* An exchange begun leaves what it assigns well typed.
LEMMA IssueType ==
    ASSUME ClientTypeOK, CallTypeOK, NEW pdu \in Pdu,
           NEW e \in [id : EngineIds, boots : Nat, time : Nat],
           IssueTo(e, pdu)
    PROVE  /\ msg_id' \in Id /\ request_id' \in Id
           /\ salt' \in 0..(SaltSize - 1)
           /\ packet' \in V3Request
           /\ issued' \in Nat
           /\ ivs' \subseteq [n : Nat, iv : Seq(Nat)]
           /\ pc' = "sending"
<1> DEFINE iv == Iv(credentials.priv, e.boots, e.time, salt')
           p == [n |-> issued', msg_id |-> msg_id', request_id |-> request_id',
                 flags |-> SecurityLevel(credentials),
                 engine |-> e.id, boots |-> e.boots, time |-> e.time,
                 auth |-> IF credentials.auth THEN Placeholder ELSE NoAuth,
                 cipher |-> IF Encrypts THEN [key |-> priv_key, iv |-> iv]
                            ELSE NoCipher,
                 pdu |-> pdu]
<1>1. msg_id' \in Id /\ request_id' \in Id
  BY NextIdType DEF IssueTo, ClientTypeOK
<1>2. salt' \in 0..(SaltSize - 1)
  BY SaltType DEF IssueTo, ClientTypeOK
<1>3. issued' \in Nat /\ pc' = "sending"
  BY DEF IssueTo, CallTypeOK
<1>4. iv \in Seq(Nat)
  <2>1. e.boots \in Nat /\ e.time \in Nat
    OBVIOUS
  <2> QED
    BY <1>2, <2>1, SaltType, Zenon
<1>5. ivs' \subseteq [n : Nat, iv : Seq(Nat)]
  BY <1>3, <1>4 DEF IssueTo, CallTypeOK
<1>6. packet' = Secure(p)
  BY DEF IssueTo
<1>7. p \in V3Request
  <2>1. priv_key \in Password /\ auth_key \in Password
    BY DEF ClientTypeOK
  <2>2. NoCipher \in [key : Password, iv : Seq(Nat)]
    BY DEF NoCipher, Password
  <2>3. (IF Encrypts THEN [key |-> priv_key, iv |-> iv] ELSE NoCipher)
           \in [key : Password, iv : Seq(Nat)]
    BY <1>4, <2>1, <2>2
  <2>4. (IF credentials.auth THEN Placeholder ELSE NoAuth) \in AuthParams
    BY DEF AuthParams
  <2>5. SecurityLevel(credentials) \in SUBSET {"auth", "priv"}
    BY DEF SecurityLevel
  <2> HIDE DEF iv
  <2> QED
    BY <1>1, <1>3, <2>3, <2>4, <2>5 DEF V3Request
<1> HIDE DEF p, iv
<1>8. packet' \in V3Request
  BY <1>6, <1>7, SecureType DEF ClientTypeOK
<1> QED
  BY <1>1, <1>2, <1>3, <1>5, <1>8

\* The datagram recv takes, and what it leaves queued.
LEMMA TakeType ==
    ASSUME TypeOK, TakeDatagram
    PROVE  /\ Received \in V3Message
           /\ PathTypeOK'
           /\ clean' \in BOOLEAN
<1>1. Head(sock) \in V3Message /\ Tail(sock) \in Seq(V3Message)
  BY DEF TypeOK, PathTypeOK, TakeDatagram, Receive
<1> QED
  BY <1>1 DEF TypeOK, CallTypeOK, PathTypeOK, TakeDatagram, Receive, Received

\* A call ended with a result.
LEMMA ReturnType ==
    ASSUME CallTypeOK, NEW o \in Outcome, Return(o), UNCHANGED <<call, made>>,
           clean' \in BOOLEAN, heard' \in [boots : Nat, time : Nat],
           current' \in Oid, results' \in Seq(VarBind)
    PROVE  CallTypeOK'
<1>1. pc' \in {"none", "idle"} /\ outcome' = o /\ UNCHANGED counterVars
  BY DEF Return
<1> QED
  BY <1>1 DEF CallTypeOK, counterVars

-----------------------------------------------------------------------------
\* The initial state is well typed.
LEMMA InitType == Init => TypeOK
<1> SUFFICES ASSUME Init PROVE TypeOK
  OBVIOUS
<1>1. 0 \in Id /\ "none" \in Password /\ 0 \in 0..(SaltSize - 1)
  BY MaxIdAssumption, UsmAssumption DEF Id, Password
<1>2. ClientTypeOK
  BY <1>1, V3ClientAssumption DEF Init, ClientTypeOK, NoEngine, EngineIds
<1>3. packet \in V3Request
  BY <1>1, DiscoveryType DEF Init
<1>4. NoResult \in Outcome
  BY DEF NoResult, Outcome
<1>5. CallTypeOK
  BY <1>3, <1>4, V3ClientAssumption DEF Init, CallTypeOK, NoClock, Oid
<1>6. PathTypeOK
  BY UdpAssumption DEF Init, UdpInit, PathTypeOK
<1>7. EngineTypeOK
  BY EngineAssumption DEF Init, EngineInit, EngineTypeOK
<1> QED
  BY <1>2, <1>5, <1>6, <1>7 DEF TypeOK

\* So is the state after any action of the caller.
LEMMA CallerType == TypeOK /\ Caller => TypeOK'
<1> SUFFICES ASSUME TypeOK, Caller PROVE TypeOK'
  OBVIOUS
<1>0. EngineTypeOK'
  BY DEF Caller, engineVars, TypeOK, EngineTypeOK
<1>1. CASE New
  <2>1. PICK id \in InitIds :
          msg_id' = NextId(id) /\ packet' = Discovery(issued + 1, msg_id')
    BY <1>1 DEF New
  <2>2. InitIds \subseteq Id /\ "none" \in Password
    BY MaxIdAssumption, V3ClientAssumption DEF FreshIds, Id, Password
  <2>3. msg_id' \in Id /\ request_id' \in Id
    BY <1>1, <2>1, <2>2, NextIdType DEF New
  <2>4. ClientTypeOK'
    BY <1>1, <2>2, <2>3, V3ClientAssumption
       DEF New, ClientTypeOK, NoEngine, EngineIds
  <2>5. packet' \in V3Request /\ issued' \in Nat
    BY <1>1, <2>1, <2>3, DiscoveryType DEF New, TypeOK, CallTypeOK
  <2>6. NoResult \in Outcome
    BY DEF NoResult, Outcome
  <2>7. CallTypeOK'
    BY <1>1, <2>5, <2>6, V3ClientAssumption
       DEF New, Call, NewClient, NoClock, TypeOK, CallTypeOK
  <2>8. PathTypeOK'
    BY <1>1 DEF New, Bind, TypeOK, PathTypeOK
  <2> QED
    BY <1>0, <2>4, <2>7, <2>8 DEF TypeOK
<1>2. ASSUME NEW c, NewCall(c)
      PROVE  /\ made' \in 0..MaxCalls /\ clean' \in BOOLEAN
             /\ outcome' \in Outcome /\ PathTypeOK' /\ UNCHANGED heard
             /\ credentials' \in Credentials
             /\ engine' \in [id : EngineIds, boots : Nat, time : Nat]
             /\ auth_key' \in Password /\ priv_key' \in Password
  <2>1. NoResult \in Outcome
    BY DEF NoResult, Outcome
  <2> QED
    BY <1>2, <2>1, V3ClientAssumption
       DEF NewCall, Call, TypeOK, ClientTypeOK, CallTypeOK, PathTypeOK,
           udpVars, keyVars
<1>3. ASSUME NEW c \in Calls, StartRequest(c) PROVE TypeOK'
  <2>1. c \in RequestCall /\ PduOf(c) \in Pdu
    BY V3ClientAssumption, PduOfType
  <2>2. engine \in [id : EngineIds, boots : Nat, time : Nat]
    BY DEF TypeOK, ClientTypeOK
  <2>3. IssueTo(engine, PduOf(c)) /\ NewCall(c)
    BY <1>3 DEF StartRequest
  <2>4. ClientTypeOK'
    BY <1>2, <2>1, <2>2, <2>3, IssueType DEF TypeOK, ClientTypeOK
  <2>5. CallTypeOK'
    BY <1>2, <1>3, <2>1, <2>2, <2>3, IssueType
       DEF StartRequest, NewCall, Call, TypeOK, CallTypeOK
  <2> QED
    BY <1>0, <1>2, <2>3, <2>4, <2>5 DEF TypeOK
<1>4. ASSUME NEW root \in Roots, StartWalk(root) PROVE TypeOK'
  <2>1. root \in Oid /\ WalkPdu(root) \in Pdu
    BY V3ClientAssumption, WalkPduType
  <2>2. engine \in [id : EngineIds, boots : Nat, time : Nat]
    BY DEF TypeOK, ClientTypeOK
  <2>3. /\ IssueTo(engine, WalkPdu(root))
        /\ NewCall([op |-> "walk", root |-> root])
    BY <1>4 DEF StartWalk
  <2>4. ClientTypeOK'
    BY <1>2, <2>1, <2>2, <2>3, IssueType DEF TypeOK, ClientTypeOK
  <2>5. current' \in Oid /\ results' \in Seq(VarBind)
    BY <1>4, <2>1 DEF StartWalk
  <2>6. call' \in WalkCall
    BY <2>1, <2>3 DEF NewCall, Call, WalkCall
  <2>7. CallTypeOK'
    BY <1>2, <2>1, <2>2, <2>3, <2>5, <2>6, IssueType DEF TypeOK, CallTypeOK
  <2> QED
    BY <1>0, <1>2, <2>3, <2>4, <2>7 DEF TypeOK
<1>5. ASSUME NEW c \in RequestCall \cup WalkCall, StartPanics(c) PROVE TypeOK'
  <2>1. Err("panic", 0) \in Outcome
    BY OutcomeType DEF ErrKinds, Refusals
  <2>2. msg_id' \in Id /\ request_id' \in Id
    BY <1>5, NextIdType DEF StartPanics, TypeOK, ClientTypeOK
  <2>3. ClientTypeOK'
    BY <1>5, <2>2 DEF StartPanics, keyVars, TypeOK, ClientTypeOK
  <2>4. CallTypeOK'
    BY <1>5, <2>1, V3ClientAssumption DEF StartPanics, TypeOK, CallTypeOK
  <2>5. PathTypeOK'
    BY <1>5 DEF StartPanics, udpVars, TypeOK, PathTypeOK
  <2> QED
    BY <1>0, <2>3, <2>4, <2>5 DEF TypeOK
<1>6. Calls \subseteq RequestCall /\ \A root \in Roots :
        [op |-> "walk", root |-> root] \in WalkCall
  BY V3ClientAssumption DEF WalkCall
<1>7. packet.n \in Nat
  BY DEF TypeOK, CallTypeOK, V3Request
<1>8. Err("cancelled", packet.n) \in Outcome
  BY <1>7, OutcomeType DEF ErrKinds, Refusals
<1>9. CASE CancelSending
  <2>1. ClientTypeOK'
    BY <1>9 DEF CancelSending, Return, counterVars, keyVars, TypeOK, ClientTypeOK
  <2>2. CallTypeOK'
    BY <1>8, <1>9, ReturnType DEF CancelSending, callVars, TypeOK, CallTypeOK
  <2>3. PathTypeOK'
    BY <1>9 DEF CancelSending, udpVars, TypeOK, PathTypeOK
  <2> QED
    BY <1>0, <2>1, <2>2, <2>3 DEF TypeOK
<1>10. CASE CancelReceiving
  <2>1. ClientTypeOK'
    BY <1>10 DEF CancelReceiving, GiveUp, Return, counterVars, keyVars, TypeOK,
                 ClientTypeOK
  <2>2. CallTypeOK'
    BY <1>8, <1>10, ReturnType
       DEF CancelReceiving, GiveUp, callVars, TypeOK, CallTypeOK
  <2>3. PathTypeOK'
    BY <1>10 DEF CancelReceiving, GiveUp, Abandon, TypeOK, PathTypeOK
  <2> QED
    BY <1>0, <2>1, <2>2, <2>3 DEF TypeOK
<1> QED
  BY <1>1, <1>3, <1>4, <1>5, <1>6, <1>9, <1>10 DEF Caller

\* A message heeded leaves a clock, and its datagram a path, well typed.
LEMMA HeededType ==
    ASSUME TypeOK, Heeded
    PROVE  /\ Received \in V3Message
           /\ engine' \in [id : EngineIds, boots : Nat, time : Nat]
           /\ heard' \in [boots : Nat, time : Nat]
           /\ clean' \in BOOLEAN /\ PathTypeOK'
           /\ UNCHANGED <<keyVars, call, made>>
<1>1. TakeDatagram
  BY DEF Heeded, Decoded
<1>2. Received.boots \in Nat /\ Received.time \in Nat
  BY <1>1, TakeType DEF V3Message
<1>3. heard' \in [boots : Nat, time : Nat]
  BY <1>2 DEF Heeded, Decoded
<1>4. engine' \in [id : EngineIds, boots : Nat, time : Nat]
  BY <1>2 DEF Heeded, Heed, TypeOK, ClientTypeOK
<1> QED
  BY <1>1, <1>3, <1>4, TakeType DEF Heeded

\* A heeded message that ends the call with any result.
LEMMA HeededReturnType ==
    ASSUME TypeOK, Heeded, NEW o \in Outcome, Return(o),
           current' \in Oid, results' \in Seq(VarBind)
    PROVE  ClientTypeOK' /\ CallTypeOK' /\ PathTypeOK'
<1>1. ClientTypeOK'
  BY HeededType DEF Return, counterVars, keyVars, TypeOK, ClientTypeOK
<1> QED
  BY <1>1, HeededType, ReturnType DEF TypeOK

\* One turn of the walk's loop.
LEMMA AbsorbType ==
    ASSUME TypeOK, call.op = "walk", Absorb
    PROVE  results' \in Seq(VarBind) /\ current' \in Oid
<1>1. call.root \in Oid
  BY DEF TypeOK, CallTypeOK, RequestCall, WalkCall, NoCall, NewClient, Ops
<1>2. Heeded
  BY DEF Absorb, GotVarBinds, Opened, Accepted
<1>3. Received.varbinds \in Seq(VarBind)
  BY <1>2, HeededType DEF V3Message
<1>4. Kept(call.root, Received.varbinds) \in Seq(VarBind)
  BY <1>1, <1>3, KeptPrefix
<1>5. current' \in Oid
  BY <1>4, WalkCurrentType DEF Absorb, TypeOK, CallTypeOK
<1> QED
  BY <1>4, <1>5 DEF Absorb, TypeOK, CallTypeOK

\* So is the state after any step of a call.
LEMMA ProgressType == TypeOK /\ (Progress \/ IoErrors) => TypeOK'
<1> SUFFICES ASSUME TypeOK, Progress \/ IoErrors PROVE TypeOK'
  OBVIOUS
<1>0. EngineTypeOK'
  BY DEF Progress, IoErrors, engineVars, TypeOK, EngineTypeOK
<1> SUFFICES ClientTypeOK' /\ CallTypeOK' /\ PathTypeOK'
  BY <1>0 DEF TypeOK
<1>1. packet.n \in Nat /\ packet \in V3Request
  BY DEF TypeOK, CallTypeOK, V3Request
<1>2. \A kind \in ErrKinds : Err(kind, packet.n) \in Outcome
  BY <1>1, OutcomeType
<1>3. CASE SendTo
  <2>1. ClientTypeOK'
    BY <1>3 DEF SendTo, keyVars, counterVars, TypeOK, ClientTypeOK
  <2>2. CallTypeOK'
    BY <1>3 DEF SendTo, callVars, counterVars, TypeOK, CallTypeOK
  <2>3. PathTypeOK'
    BY <1>1, <1>3 DEF SendTo, Send, TypeOK, PathTypeOK
  <2> QED
    BY <2>1, <2>2, <2>3
<1>4. CASE SendToFails
  <2>1. ClientTypeOK'
    BY <1>4 DEF SendToFails, Return, counterVars, keyVars, TypeOK, ClientTypeOK
  <2>2. CallTypeOK'
    BY <1>2, <1>4, ReturnType DEF SendToFails, callVars, TypeOK, CallTypeOK, ErrKinds, Refusals
  <2>3. PathTypeOK'
    BY <1>4 DEF SendToFails, udpVars, TypeOK, PathTypeOK
  <2> QED
    BY <2>1, <2>2, <2>3
<1>5. ASSUME NEW kind \in ErrKinds, GiveUp(kind)
      PROVE  ClientTypeOK' /\ CallTypeOK' /\ PathTypeOK'
  <2>1. ClientTypeOK'
    BY <1>5 DEF GiveUp, Return, counterVars, keyVars, TypeOK, ClientTypeOK
  <2>2. CallTypeOK'
    BY <1>2, <1>5, ReturnType DEF GiveUp, callVars, TypeOK, CallTypeOK
  <2>3. PathTypeOK'
    BY <1>5 DEF GiveUp, Abandon, TypeOK, PathTypeOK
  <2> QED
    BY <2>1, <2>2, <2>3
<1>6. CASE Timeout \/ RecvFails
  BY <1>5, <1>6 DEF Timeout, RecvFails, ErrKinds, Refusals
<1>7. ASSUME TakeDatagram
      PROVE  /\ Received \in V3Message /\ PathTypeOK' /\ clean' \in BOOLEAN
             /\ \A kind \in ErrKinds : Err(kind, Received.n) \in Outcome
             /\ Ok(<<>>, Received.n) \in Outcome
  <2>1. Received \in V3Message
    BY <1>7, TakeType
  <2>2. Received.n \in Nat /\ <<>> \in Seq(VarBind)
    BY <2>1 DEF V3Message
  <2> QED
    BY <1>7, <2>1, <2>2, TakeType, OutcomeType
<1>8. CASE RecvUndecodable
  <2>1. ClientTypeOK'
    BY <1>8 DEF RecvUndecodable, Return, counterVars, keyVars, TypeOK,
                ClientTypeOK
  <2>2. CallTypeOK'
    BY <1>7, <1>8, ReturnType
       DEF RecvUndecodable, callVars, TypeOK, CallTypeOK, ErrKinds, Refusals
  <2> QED
    BY <1>7, <1>8, <2>1, <2>2 DEF RecvUndecodable
<1>9. ASSUME Decoded PROVE heard' \in [boots : Nat, time : Nat]
  <2>1. Received.boots \in Nat /\ Received.time \in Nat
    BY <1>7, <1>9 DEF Decoded, V3Message
  <2> QED
    BY <1>9, <2>1 DEF Decoded
<1>10. CASE RecvDiscovery
  <2>1. Decoded /\ TakeDatagram
    BY <1>10 DEF RecvDiscovery, Decoded
  <2>2. engine' \in [id : EngineIds, boots : Nat, time : Nat]
    BY <1>7, <1>10, <2>1 DEF RecvDiscovery, V3Message
  <2>3. ClientTypeOK'
    BY <1>10, <2>2, KeyType
       DEF RecvDiscovery, Return, counterVars, TypeOK, ClientTypeOK
  <2>4. CallTypeOK'
    BY <1>7, <1>9, <1>10, <2>1, ReturnType
       DEF RecvDiscovery, callVars, TypeOK, CallTypeOK
  <2> QED
    BY <1>7, <2>1, <2>3, <2>4
<1>11. CASE RecvNoEngine
  <2>1. Decoded /\ TakeDatagram
    BY <1>11 DEF RecvNoEngine, Decoded
  <2>2. ClientTypeOK'
    BY <1>11 DEF RecvNoEngine, Return, counterVars, keyVars, TypeOK, ClientTypeOK
  <2>3. CallTypeOK'
    BY <1>7, <1>9, <1>11, <2>1, ReturnType
       DEF RecvNoEngine, callVars, TypeOK, CallTypeOK, ErrKinds, Refusals
  <2> QED
    BY <1>7, <2>1, <2>2, <2>3
<1>12. ASSUME Heeded, UNCHANGED <<current, results>>, NEW o \in Outcome, Return(o)
       PROVE  ClientTypeOK' /\ CallTypeOK' /\ PathTypeOK'
  BY <1>12, HeededReturnType DEF TypeOK, CallTypeOK
<1>13. CASE RecvAuthFailed \/ RecvDecryptFailed \/ RecvBadPdu \/ RecvErrorStatus
  <2>1. Heeded /\ UNCHANGED <<current, results>>
    BY <1>13 DEF RecvAuthFailed, RecvDecryptFailed, RecvBadPdu,
                 RecvErrorStatus, Opened, Accepted
  <2>2. TakeDatagram
    BY <2>1 DEF Heeded, Decoded
  <2>3. \E kind \in ErrKinds : Return(Err(kind, Received.n))
    BY <1>13 DEF RecvAuthFailed, RecvDecryptFailed, RecvBadPdu,
                 RecvErrorStatus, ErrKinds, Refusals
  <2> QED
    BY <1>7, <1>12, <2>1, <2>2, <2>3
<1>14. CASE RecvAnswer
  <2>1. Heeded /\ UNCHANGED <<current, results>>
    BY <1>14 DEF RecvAnswer, GotVarBinds, Opened, Accepted
  <2>2. AnswerOf(call.op, Received) \in Outcome
    BY <2>1, HeededType, AnswerOfType
  <2> QED
    BY <1>12, <1>14, <2>1, <2>2 DEF RecvAnswer
<1>15. CASE RecvWalkStep
  <2>1. Heeded /\ Absorb /\ call.op = "walk"
    BY <1>15 DEF RecvWalkStep, Absorb, GotVarBinds, Opened, Accepted
  <2>2. results' \in Seq(VarBind) /\ current' \in Oid
    BY <2>1, AbsorbType
  <2>3. WalkPdu(current') \in Pdu
    BY <2>2, WalkPduType
  <2>4. engine' \in [id : EngineIds, boots : Nat, time : Nat]
    BY <2>1, HeededType
  <2>5. IssueTo(engine', WalkPdu(current')) /\ UNCHANGED outcome
    BY <1>15 DEF RecvWalkStep
  <2>6. /\ msg_id' \in Id /\ request_id' \in Id /\ salt' \in 0..(SaltSize - 1)
        /\ packet' \in V3Request /\ issued' \in Nat
        /\ ivs' \subseteq [n : Nat, iv : Seq(Nat)] /\ pc' = "sending"
    BY <2>3, <2>4, <2>5, IssueType DEF TypeOK
  <2>7. ClientTypeOK'
    BY <2>1, <2>4, <2>6, HeededType DEF keyVars, TypeOK, ClientTypeOK
  <2>8. CallTypeOK'
    BY <2>1, <2>2, <2>5, <2>6, HeededType DEF TypeOK, CallTypeOK
  <2> QED
    BY <2>1, <2>7, <2>8, HeededType
<1>16. CASE RecvWalkEnd
  <2>1. Heeded /\ Absorb /\ call.op = "walk"
    BY <1>16 DEF RecvWalkEnd, Absorb, GotVarBinds, Opened, Accepted
  <2>2. results' \in Seq(VarBind) /\ current' \in Oid
    BY <2>1, AbsorbType
  <2>3. Received.n \in Nat
    BY <2>1, HeededType DEF V3Message
  <2>4. Ok(results', Received.n) \in Outcome
    BY <2>2, <2>3, OutcomeType
  <2>5. Return(Ok(results', Received.n))
    BY <1>16 DEF RecvWalkEnd
  <2> QED
    BY <2>1, <2>2, <2>4, <2>5, HeededReturnType
<1> QED
  BY <1>3, <1>4, <1>6, <1>8, <1>10, <1>11, <1>13, <1>14, <1>15, <1>16
     DEF Progress, IoErrors

\* So is the state after anything the path or the engine does.
LEMMA NetworkType == TypeOK /\ (Network \/ Engine) => TypeOK'
<1> SUFFICES ASSUME TypeOK, Network \/ Engine PROVE TypeOK'
  OBVIOUS
<1>1. ClientTypeOK' /\ CallTypeOK'
  BY DEF Network, Engine, clientVars, keyVars, counterVars, callVars, TypeOK,
         ClientTypeOK, CallTypeOK
<1>2. CASE Engine
  <2>1. PathTypeOK'
    BY <1>2 DEF Engine, udpVars, TypeOK, PathTypeOK
  <2>2. EngineTypeOK'
    BY <1>2, EngineAssumption
       DEF Engine, Tick, Restart, TypeOK, EngineTypeOK
  <2> QED
    BY <1>1, <2>1, <2>2 DEF TypeOK
<1>3. CASE Network
  <2>0. EngineTypeOK'
    BY <1>3 DEF Network, engineVars, TypeOK, EngineTypeOK
  <2> SUFFICES PathTypeOK'
    BY <1>1, <2>0 DEF TypeOK
  <2>1. ASSUME NEW r \in toClient, Enqueue(r) PROVE sock' \in Seq(V3Message)
    BY <2>1 DEF Enqueue, TypeOK, PathTypeOK
  <2>2. ASSUME NEW m \in toAgent PROVE EngineAnswers(m) \subseteq V3Message
    BY <2>2, EngineAnswersType DEF TypeOK, PathTypeOK
  <2>3. ASSUME Copied PROVE mishaps' \in 0..MaxMishaps /\ strays' \in Nat
    BY <2>3, UdpAssumption DEF Copied, TypeOK, PathTypeOK
  <2>4. CASE Serve
    BY <2>2, <2>4 DEF Serve, TypeOK, PathTypeOK
  <2>5. CASE ServeCopy
    BY <2>2, <2>3, <2>5 DEF ServeCopy, TypeOK, PathTypeOK
  <2>6. CASE Garble
    <3>1. ASSUME NEW r \in toClient PROVE Garbled(r) \subseteq V3Message
      BY <3>1, GarbledType DEF TypeOK, PathTypeOK
    <3> QED
      BY <2>6, <3>1, UdpAssumption DEF Garble, Spoilt, TypeOK, PathTypeOK
  <2>7. CASE Arrive
    BY <2>1, <2>7 DEF Arrive, TypeOK, PathTypeOK
  <2>8. CASE ArriveCopy
    BY <2>1, <2>3, <2>8 DEF ArriveCopy, TypeOK, PathTypeOK
  <2>9. CASE LoseRequest \/ LoseAnswer
    BY <2>9 DEF LoseRequest, LoseAnswer, TypeOK, PathTypeOK
  <2> QED
    BY <1>3, <2>4, <2>5, <2>6, <2>7, <2>8, <2>9 DEF Network
<1> QED
  BY <1>2, <1>3

\* TypeOK is preserved by every step.
LEMMA StepType == TypeOK /\ [Next]_vars => TypeOK'
<1>1. TypeOK /\ UNCHANGED vars => TypeOK'
  BY DEF vars, clientVars, keyVars, counterVars, callVars, engineVars, udpVars,
         TypeOK, ClientTypeOK, CallTypeOK, PathTypeOK, EngineTypeOK
<1> QED
  BY <1>1, CallerType, ProgressType, NetworkType DEF Next

\* The client's state is well typed in every run: both ids stay within i32 and
\* the salt within 64 bits, every request and every message taken has the form
\* the codec gives it, and a call's outcome is a Result the code can build.
THEOREM TypeCorrect == Spec => []TypeOK
BY InitType, StepType, PTL DEF Spec

-----------------------------------------------------------------------------
\* What steps do to messages and to the client's state.

Messages == toClient \cup Range(sock)

\* Nothing comes to be under way to the client but the engine's answer to a
\* request under way to it, and what garbling makes of a message; and nothing
\* under way to the engine but the request of the current exchange.
Heard(r) ==
    \/ r \in Messages
    \/ \E m \in toAgent : r \in EngineAnswers(m)
    \/ \E x \in Messages : r \in Garbled(x)

LEMMA MessagesType == TypeOK => Messages \subseteq V3Message
BY DEF TypeOK, PathTypeOK, Messages, Range

\* Of all calls only new is called new.
LEMMA NewClientOp == TypeOK => (call.op = "new" <=> call = NewClient)
BY DEF TypeOK, CallTypeOK, RequestCall, WalkCall, NoCall, NewClient, Ops

\* A datagram taken was a message under way, and leaves no new ones.
LEMMA TakeMessages ==
    ASSUME TypeOK, TakeDatagram
    PROVE  /\ Received \in Messages /\ Received \in V3Message
           /\ Messages' \subseteq Messages /\ UNCHANGED toAgent
<1>1. sock \in Seq(V3Message) /\ sock # <<>> /\ sock' = Tail(sock)
      /\ UNCHANGED <<toAgent, toClient>>
  BY DEF TypeOK, PathTypeOK, TakeDatagram, Receive
<1>2. Head(sock) \in V3Message
  BY <1>1
<1>3. Head(sock) \in Range(sock) /\ Range(Tail(sock)) \subseteq Range(sock)
  BY <1>1, <1>2, RangeType
<1> QED
  BY <1>1, <1>2, <1>3 DEF Messages, Received

LEMMA NetworkMessages ==
    ASSUME TypeOK, Network
    PROVE  (\A r \in Messages' : Heard(r)) /\ toAgent' \subseteq toAgent
<1>1. toClient \subseteq V3Message /\ sock \in Seq(V3Message)
  BY DEF TypeOK, PathTypeOK
<1>2. ASSUME NEW r \in toClient, Enqueue(r)
      PROVE  Range(sock') \subseteq Range(sock) \cup {r}
  BY <1>1, <1>2, RangeType DEF Enqueue
<1>3. CASE Serve \/ ServeCopy \/ Garble
  BY <1>3 DEF Serve, ServeCopy, Garble, Heard, Messages
<1>4. CASE Arrive \/ ArriveCopy
  BY <1>2, <1>4 DEF Arrive, ArriveCopy, Heard, Messages
<1>5. CASE LoseRequest \/ LoseAnswer
  BY <1>5 DEF LoseRequest, LoseAnswer, Heard, Messages
<1> QED
  BY <1>3, <1>4, <1>5 DEF Network

\* What a step of the client does to its clock, its keys and its exchange:
\* the actions of SnmpV3Client by what the invariants below need of them.

\* A datagram is taken and its clock believed.
Believes ==
    /\ TakeDatagram
    /\ call # NewClient
    /\ heard' = [boots |-> Received.boots, time |-> Received.time]
    /\ engine' = [engine EXCEPT !.boots = Received.boots, !.time = Received.time]
    /\ UNCHANGED <<keyVars, call>>

\* A call begins: get, get_one, get_next, get_bulk, set or walk.
Asks ==
    /\ pc = "idle" /\ Unwraps
    /\ call' # NewClient
    /\ outcome' = NoResult
    /\ \E pdu \in Pdu : IssueTo(engine, pdu)
    /\ UNCHANGED <<keyVars, engine, heard, udpVars>>

\* A walk goes on.
AsksOn ==
    /\ Believes
    /\ call.op = "walk"
    /\ \E pdu \in Pdu : IssueTo(engine', pdu)
    /\ UNCHANGED outcome

\* A call ends on a message it has heeded.
Concludes ==
    /\ Believes
    /\ \E o :
          /\ Return(o) /\ o.result # "panic"
          /\ o.result = "ok" /\ call.op # "walk"
             => GotVarBinds /\ o = AnswerOf(call.op, Received)

\* A call ends without one.
Quits ==
    /\ pc \in {"sending", "receiving"}
    /\ \E o : Return(o) /\ o.result \notin {"ok", "panic"}
    /\ UNCHANGED <<keyVars, call, engine, heard>>
    /\ TakeDatagram \/ UNCHANGED <<toAgent, toClient, sock>>
    /\ TakeDatagram \/ (pc = "sending" /\ UNCHANGED strays) \/ Abandon

Panics ==
    /\ pc = "idle" /\ ~Unwraps
    /\ call' # NewClient
    /\ outcome' = Err("panic", 0)
    /\ UNCHANGED <<keyVars, engine, heard, pc, packet, salt, issued, ivs, udpVars>>

LEMMA ClientSteps ==
    ASSUME TypeOK, Caller \/ Progress \/ IoErrors
    PROVE  New \/ Asks \/ AsksOn \/ Concludes \/ Quits \/ Panics \/ SendTo
           \/ RecvDiscovery \/ RecvNoEngine
<1>1. ASSUME NEW c \in Calls, StartRequest(c) PROVE Asks
  <2>1. c \in RequestCall /\ PduOf(c) \in Pdu
    BY V3ClientAssumption, PduOfType
  <2>2. c # NewClient
    BY <2>1 DEF RequestCall, NewClient, Ops
  <2> QED
    BY <1>1, <2>1, <2>2 DEF StartRequest, NewCall, Call, Asks
<1>2. ASSUME NEW root \in Roots, StartWalk(root) PROVE Asks
  <2>1. WalkPdu(root) \in Pdu
    BY V3ClientAssumption, WalkPduType
  <2>2. [op |-> "walk", root |-> root] # NewClient
    BY DEF NewClient
  <2> QED
    BY <1>2, <2>1, <2>2 DEF StartWalk, NewCall, Call, Asks
<1>3. ASSUME NEW c, c # NewClient, StartPanics(c) PROVE Panics
  BY <1>3 DEF StartPanics, Panics
<1>4. (\A c \in Calls : c # NewClient)
      /\ \A root : [op |-> "walk", root |-> root] # NewClient
  <2>1. NewClient.op = "new" /\ \A c \in Calls : c.op \in Ops
    BY V3ClientAssumption DEF NewClient, RequestCall
  <2> QED
    BY <2>1 DEF Ops
<1>5. ASSUME NEW kind \in ErrKinds \ {"panic"}, NEW n,
             Return(Err(kind, n)), UNCHANGED <<keyVars, call, engine, heard>>,
             pc \in {"sending", "receiving"},
             TakeDatagram \/ UNCHANGED <<toAgent, toClient, sock>>,
             TakeDatagram \/ (pc = "sending" /\ UNCHANGED strays) \/ Abandon
      PROVE  Quits
  BY <1>5 DEF Quits, Err, ErrKinds, Refusals
<1>6. CASE CancelSending \/ SendToFails
  BY <1>5, <1>6 DEF CancelSending, SendToFails, callVars, udpVars, ErrKinds, Refusals
<1>7. CASE CancelReceiving \/ Timeout \/ RecvFails
  BY <1>5, <1>7 DEF CancelReceiving, Timeout, RecvFails, GiveUp, Abandon,
                    callVars, ErrKinds, Refusals
<1>8. CASE RecvUndecodable
  BY <1>5, <1>8 DEF RecvUndecodable, TakeDatagram, callVars, ErrKinds, Refusals
<1>9. ASSUME Heeded PROVE Believes
  BY <1>9 DEF Heeded, Decoded, Heed, Believes, NewClient
<1>10. CASE RecvAuthFailed \/ RecvDecryptFailed \/ RecvBadPdu \/ RecvErrorStatus
  <2>1. Heeded /\ \E kind \in {"AuthFailed", "DecryptFailed", "Snmp"} \cup Refusals :
                     Return(Err(kind, Received.n))
    BY <1>10 DEF RecvAuthFailed, RecvDecryptFailed, RecvBadPdu,
                 RecvErrorStatus, Opened, Accepted
  <2> QED
    BY <1>9, <2>1 DEF Concludes, Err, Refusals
<1>11. CASE RecvAnswer
  <2>1. AnswerOf(call.op, Received).result # "panic"
    BY DEF AnswerOf, Ok, Err
  <2>2. Heeded /\ GotVarBinds /\ Return(AnswerOf(call.op, Received))
    BY <1>11 DEF RecvAnswer, GotVarBinds, Opened, Accepted
  <2> QED
    BY <1>9, <2>1, <2>2 DEF Concludes
<1>12. CASE RecvWalkStep
  <2>1. Absorb /\ Heeded /\ call.op = "walk"
    BY <1>12 DEF RecvWalkStep, Absorb, GotVarBinds, Opened, Accepted
  <2>2. WalkPdu(current') \in Pdu
    BY <2>1, AbsorbType, WalkPduType
  <2> QED
    BY <1>9, <1>12, <2>1, <2>2 DEF RecvWalkStep, AsksOn
<1>13. CASE RecvWalkEnd
  BY <1>9, <1>13 DEF RecvWalkEnd, Absorb, GotVarBinds, Opened, Accepted,
       Concludes, Ok
<1> QED
  BY <1>1, <1>2, <1>3, <1>4, <1>6, <1>7, <1>8, <1>10, <1>11, <1>12, <1>13
     DEF Caller, Progress, IoErrors

-----------------------------------------------------------------------------
\* Keys.  While new is at work there is no engine and what it sends is a
\* discovery; from its success on, the engine is the one discovered and both
\* keys are the user's.

Making == call = NewClient /\ pc \in {"sending", "receiving"}

KeysDerived ==
    /\ pc = "none" \/ Making => engine = NoEngine
    /\ Making => packet = Discovery(packet.n, packet.msg_id)
    /\ pc # "none" /\ ~Making
       => /\ engine.id = "engine"
          /\ auth_key = AuthKey(credentials)
          /\ priv_key = PrivKey(credentials)
    /\ \A r \in Messages : r.engine \in {"", "engine"}

\* The engine gives its own id; garbling can only take it away.
LEMMA HeardEngine ==
    ASSUME TypeOK, KeysDerived, NEW r, Heard(r)
    PROVE  r.engine \in {"", "engine"}
<1>1. CASE r \in Messages
  BY <1>1 DEF KeysDerived
<1>2. ASSUME NEW m \in toAgent, r \in EngineAnswers(m) PROVE r.engine = "engine"
  BY <1>2 DEF EngineAnswers, ReportTo, ResponseTo, FromEngine
<1>3. ASSUME NEW x \in Messages, r \in Garbled(x)
      PROVE  r.engine \in {"", "engine"}
  <2>1. x \in V3Message
    BY <1>3 DEF Messages, TypeOK, PathTypeOK, Range
  <2>2. r.engine \in {x.engine, ""}
    BY <1>3, <2>1 DEF Garbled, V3Message
  <2> QED
    BY <1>3, <2>2 DEF KeysDerived
<1> QED
  BY <1>1, <1>2, <1>3 DEF Heard

LEMMA KeysInit == Init => KeysDerived
BY DEF Init, UdpInit, KeysDerived, Making, Messages, NoCall, NewClient, Range

LEMMA KeysStep == TypeOK /\ KeysDerived /\ [Next]_vars => KeysDerived'
<1> SUFFICES ASSUME TypeOK, KeysDerived, [Next]_vars PROVE KeysDerived'
  OBVIOUS
<1>1. CASE New
  <2>1. Making' /\ engine' = NoEngine /\ Messages' = {}
    BY <1>1 DEF New, Call, Bind, Making, Messages, Range
  <2>2. packet' = Discovery(packet'.n, packet'.msg_id)
    <3>1. packet' = Discovery(issued + 1, msg_id')
      BY <1>1 DEF New
    <3>2. packet'.n = issued + 1 /\ packet'.msg_id = msg_id'
      BY <3>1 DEF Discovery
    <3> QED
      BY <3>1, <3>2
  <2> QED
    BY <2>1, <2>2 DEF KeysDerived
<1>2. CASE Asks
  <2>1. pc' = "sending" /\ ~Making' /\ ~Making /\ Messages' = Messages
    BY <1>2 DEF Asks, IssueTo, Making, Messages, udpVars
  <2> QED
    BY <1>2, <2>1 DEF Asks, keyVars, KeysDerived
<1>3. ASSUME Believes PROVE engine'.id = engine.id /\ ~Making
  BY <1>3 DEF Believes, Making, TypeOK, ClientTypeOK
<1>4. CASE AsksOn
  <2>1. pc' = "sending" /\ pc # "none" /\ ~Making' /\ Messages' \subseteq Messages
    BY <1>4, TakeMessages
       DEF AsksOn, Believes, IssueTo, Making, TakeDatagram
  <2> QED
    BY <1>3, <1>4, <2>1 DEF AsksOn, Believes, keyVars, KeysDerived
<1>5. CASE Concludes
  <2>1. pc' = "idle" /\ pc # "none" /\ ~Making' /\ Messages' \subseteq Messages
    <3>1. call # NewClient /\ TakeDatagram
      BY <1>5 DEF Concludes, Believes
    <3>2. call.op # "new"
      BY <3>1, NewClientOp
    <3> QED
      BY <1>5, <3>1, <3>2, TakeMessages DEF Concludes, Return, Making, TakeDatagram
  <2> QED
    BY <1>3, <1>5, <2>1 DEF Concludes, Believes, keyVars, KeysDerived
<1>6. CASE Quits
  <2>1. Messages' \subseteq Messages
    BY <1>6, TakeMessages DEF Quits, Messages
  <2>2. pc # "none" /\ ~Making' /\ (pc' = "none" <=> Making)
    BY <1>6, NewClientOp DEF Quits, Return, Making, NewClient
  <2> QED
    BY <1>6, <2>1, <2>2 DEF Quits, keyVars, KeysDerived
<1>7. CASE Panics
  BY <1>7 DEF Panics, Making, Messages, udpVars, keyVars, KeysDerived
<1>8. CASE SendTo
  BY <1>8 DEF SendTo, Send, keyVars, counterVars, callVars, Making, Messages,
              KeysDerived
<1>9. CASE RecvDiscovery
  <2>1. TakeDatagram /\ Received.engine # ""
    BY <1>9 DEF RecvDiscovery, Decoded
  <2>2. Received \in Messages /\ Messages' \subseteq Messages
    BY <2>1, TakeMessages
  <2>3. engine'.id = "engine" /\ ~Making' /\ pc' = "idle"
    BY <1>9, <2>1, <2>2 DEF RecvDiscovery, Return, Ok, Making, KeysDerived
  <2> QED
    BY <1>9, <2>2, <2>3 DEF RecvDiscovery, KeysDerived
<1>10. CASE RecvNoEngine
  <2>1. TakeDatagram /\ pc' = "none" /\ engine' = engine /\ Making
    BY <1>10, NewClientOp
       DEF RecvNoEngine, Decoded, TakeDatagram, Return, Err, Making
  <2> QED
    BY <2>1, TakeMessages DEF Making, KeysDerived
<1>11. CASE Network
  <2>1. \A r \in Messages' : r.engine \in {"", "engine"}
    BY <1>11, NetworkMessages, HeardEngine
  <2> QED
    BY <1>11, <2>1 DEF Network, clientVars, keyVars, counterVars, callVars,
                       Making, KeysDerived
<1>12. CASE Engine \/ UNCHANGED vars
  BY <1>12 DEF Engine, vars, clientVars, keyVars, counterVars, callVars, udpVars,
               Making, Messages, KeysDerived
<1> QED
  BY <1>1, <1>2, <1>4, <1>5, <1>6, <1>7, <1>8, <1>9, <1>10, <1>11, <1>12,
     ClientSteps DEF Next

LEMMA KeysAlways == Spec => []KeysDerived
BY KeysInit, KeysStep, TypeCorrect, PTL DEF Spec

-----------------------------------------------------------------------------
\* Who meets the panic.

LEMMA PanicStep ==
    TypeOK /\ KeysDerived /\ UnwrapIsSafe /\ [Next]_vars => UnwrapIsSafe'
<1> SUFFICES ASSUME TypeOK, KeysDerived, UnwrapIsSafe, [Next]_vars,
                    outcome'.result = "panic"
             PROVE  credentials' \notin Constructed
  BY DEF UnwrapIsSafe
<1>1. ASSUME UNCHANGED <<outcome, credentials>>
      PROVE  credentials' \notin Constructed
  BY <1>1 DEF UnwrapIsSafe
<1>2. CASE New \/ Asks
  BY <1>2 DEF New, Call, Asks, NoResult
<1>3. CASE AsksOn \/ SendTo
  BY <1>1, <1>3 DEF AsksOn, Believes, SendTo, keyVars
<1>4. CASE Concludes \/ Quits \/ RecvDiscovery \/ RecvNoEngine
  <2>1. ~Concludes /\ ~Quits
    BY DEF Concludes, Quits, Return
  <2>2. ASSUME RecvDiscovery PROVE FALSE
    <3>1. outcome' = Ok(<<>>, Received.n)
      BY <2>2 DEF RecvDiscovery, Return
    <3> QED
      BY <3>1 DEF Ok
  <2>3. ASSUME RecvNoEngine PROVE FALSE
    <3>1. outcome' = Err("DiscoveryFailed", Received.n)
      BY <2>3 DEF RecvNoEngine, Return
    <3> QED
      BY <3>1 DEF Err
  <2> QED
    BY <1>4, <2>1, <2>2, <2>3
<1>5. CASE Panics
  <2>1. pc = "idle" /\ Encrypts /\ priv_key = "none" /\ credentials' = credentials
    BY <1>5 DEF Panics, Unwraps, keyVars
  <2>2. credentials.priv # "none" /\ PrivKey(credentials) = "none"
    BY <2>1 DEF Encrypts, KeysDerived, Making
  <2>3. NoAuthUser.priv = "none" /\ \A p \in Password : AuthOnly(p).priv = "none"
    BY DEF NoAuthUser, AuthOnly
  <2>4. ASSUME NEW p \in Password \ {"none"}, NEW q \in Password \ {"none"},
               NEW proto \in {"Des", "Aes128"}
        PROVE  PrivKey(AuthPriv(p, proto, q)) # "none"
    BY DEF PrivKey, AuthKey, AuthPriv
  <2> QED
    BY <2>1, <2>2, <2>3, <2>4 DEF Constructed
<1>6. CASE Network \/ Engine \/ UNCHANGED vars
  BY <1>1, <1>6 DEF Network, Engine, vars, clientVars, keyVars
<1> QED
  BY <1>2, <1>3, <1>4, <1>5, <1>6, ClientSteps DEF Next

\* send_request and get_bulk never unwrap a missing privacy key for a user a
\* constructor of UsmCredentials makes, whatever becomes of new's attempts.
THEOREM PanicOnlyUnconstructed == Spec => []UnwrapIsSafe
<1>1. Init => UnwrapIsSafe
  BY DEF Init, UnwrapIsSafe, NoResult
<1> QED
  BY <1>1, PanicStep, KeysAlways, TypeCorrect, PTL DEF Spec

-----------------------------------------------------------------------------
\* Protection.  Only the first request of a walk asks for the privacy key;
\* that the later ones have it too is part of the invariant.

KeyAtHand == pc \in {"sending", "receiving"} /\ ~Making => Unwraps

ProtectedInv == KeyAtHand /\ (~EarlyZeros => Protected)

\* A request built with the user's keys is at the user's level.
LEMMA SecureProtects ==
    ASSUME TypeOK, ~EarlyZeros, Unwraps,
           auth_key = AuthKey(credentials), priv_key = PrivKey(credentials),
           NEW e, e.id = "engine", NEW pdu, IssueTo(e, pdu)
    PROVE  AtUserLevel(packet')
<1> DEFINE iv == Iv(credentials.priv, e.boots, e.time, salt')
           p == [n |-> issued', msg_id |-> msg_id', request_id |-> request_id',
                 flags |-> SecurityLevel(credentials),
                 engine |-> e.id, boots |-> e.boots, time |-> e.time,
                 auth |-> IF credentials.auth THEN Placeholder ELSE NoAuth,
                 cipher |-> IF Encrypts THEN [key |-> priv_key, iv |-> iv]
                            ELSE NoCipher,
                 pdu |-> pdu]
<1>1. packet' = Secure(p)
  BY DEF IssueTo
<1>2. /\ p.engine = "engine" /\ p.flags = SecurityLevel(credentials)
      /\ p.auth = IF credentials.auth THEN Placeholder ELSE NoAuth
      /\ Encrypts => p.cipher.key = priv_key
      /\ DOMAIN p = {"n", "msg_id", "request_id", "flags", "engine", "boots",
                     "time", "auth", "cipher", "pdu"}
  OBVIOUS
<1> HIDE DEF p
<1>3. Encrypts => priv_key = credentials.privPassword /\ priv_key # "none"
  BY DEF Unwraps, PrivKey
<1>4. CASE auth_key = "none"
  <2>1. packet' = p
    BY <1>1, <1>4 DEF Secure
  <2>2. ~(credentials.auth /\ credentials.authPassword # "none")
    BY <1>4 DEF AuthKey
  <2>3. p.auth = Signature
    BY <1>2, <2>2 DEF Signature
  <2> QED
    BY <1>2, <1>3, <2>1, <2>3 DEF AtUserLevel
<1>5. CASE auth_key # "none"
  <2>1. credentials.auth /\ auth_key = credentials.authPassword
    BY <1>5 DEF AuthKey
  <2>2. p.auth = Placeholder
    BY <1>2, <2>1
  <2>3. packet' = [p EXCEPT !.auth = ComputeAuth(auth_key, Placeholder)]
    BY <1>1, <1>5, <2>2 DEF Secure, FindPlaceholder
  <2>4. /\ packet'.engine = p.engine /\ packet'.cipher = p.cipher
        /\ packet'.flags = p.flags
        /\ packet'.auth = ComputeAuth(auth_key, Placeholder)
    BY <1>2, <2>3
  <2>5. packet'.auth = Signature
    BY <1>5, <2>1, <2>4 DEF Signature
  <2> QED
    BY <1>2, <1>3, <2>1, <2>4, <2>5 DEF AtUserLevel
<1> QED
  BY <1>4, <1>5

LEMMA ProtectedInit == Init => ProtectedInv
BY DEF Init, UdpInit, ProtectedInv, KeyAtHand, Protected

LEMMA ProtectedStep ==
    TypeOK /\ KeysDerived /\ ProtectedInv /\ [Next]_vars => ProtectedInv'
<1> SUFFICES ASSUME TypeOK, KeysDerived, ProtectedInv, [Next]_vars
             PROVE  ProtectedInv'
  OBVIOUS
<1>1. ASSUME UNCHANGED <<credentials, pc, call, priv_key, packet>>,
             toAgent' \subseteq toAgent
      PROVE  ProtectedInv'
  BY <1>1 DEF ProtectedInv, KeyAtHand, Making, Unwraps, Encrypts, Protected,
              AtUserLevel, Signature
<1>2. ASSUME UNCHANGED credentials, toAgent' \subseteq toAgent,
             pc' \notin {"sending", "receiving"}
      PROVE  ProtectedInv'
  BY <1>2 DEF ProtectedInv, KeyAtHand, Protected, AtUserLevel, Signature,
     Encrypts
<1>3. CASE New
  BY <1>3 DEF New, Call, Bind, ProtectedInv, KeyAtHand, Making, Protected
<1>4. ASSUME Unwraps, UNCHANGED <<keyVars, toAgent>>, pc' = "sending",
             ~EarlyZeros => AtUserLevel(packet')
      PROVE  ProtectedInv'
  BY <1>4 DEF ProtectedInv, KeyAtHand, Unwraps, Encrypts, keyVars, Protected,
              AtUserLevel, Signature
<1>5. CASE Asks
  <2>1. PICK pdu : IssueTo(engine, pdu)
    BY <1>5 DEF Asks
  <2>2. Unwraps /\ UNCHANGED <<keyVars, toAgent>> /\ pc' = "sending"
    BY <1>5, <2>1 DEF Asks, udpVars, IssueTo
  <2>3. /\ engine.id = "engine" /\ auth_key = AuthKey(credentials)
        /\ priv_key = PrivKey(credentials)
    BY <1>5 DEF Asks, KeysDerived, Making
  <2>4. ~EarlyZeros => AtUserLevel(packet')
    BY <2>1, <2>2, <2>3, SecureProtects
  <2> QED
    BY <1>4, <2>2, <2>4
<1>6. CASE AsksOn
  <2>1. PICK pdu : IssueTo(engine', pdu)
    BY <1>6 DEF AsksOn
  <2>2. pc = "receiving" /\ call # NewClient
    BY <1>6 DEF AsksOn, Believes, TakeDatagram
  <2>3. Unwraps
    BY <2>2 DEF ProtectedInv, KeyAtHand, Making
  <2>4. /\ engine'.id = "engine" /\ auth_key = AuthKey(credentials)
        /\ priv_key = PrivKey(credentials)
    BY <1>6, <2>2 DEF AsksOn, Believes, KeysDerived, Making, TypeOK, ClientTypeOK
  <2>5. ~EarlyZeros => AtUserLevel(packet')
    BY <2>1, <2>3, <2>4, SecureProtects
  <2>6. UNCHANGED <<keyVars, toAgent>> /\ pc' = "sending"
    BY <1>6, <2>1, TakeMessages DEF AsksOn, Believes, IssueTo
  <2> QED
    BY <1>4, <2>3, <2>5, <2>6
<1>7. CASE Concludes \/ Quits \/ RecvDiscovery \/ RecvNoEngine
  <2>1. pc' \notin {"sending", "receiving"}
    BY <1>7 DEF Concludes, Quits, RecvDiscovery, RecvNoEngine, Return
  <2>2. toAgent' = toAgent /\ credentials' = credentials
    BY <1>7, TakeMessages
       DEF Concludes, Believes, Quits, RecvDiscovery, RecvNoEngine, Decoded,
           keyVars
  <2> QED
    BY <1>2, <2>1, <2>2
<1>8. CASE Panics
  BY <1>2, <1>8 DEF Panics, keyVars, udpVars
<1>9. CASE SendTo
  <2>1. /\ UNCHANGED <<credentials, call, priv_key, packet>>
        /\ pc = "sending" /\ pc' = "receiving" /\ toAgent' = toAgent \cup {packet}
    BY <1>9 DEF SendTo, Send, keyVars, callVars, counterVars
  <2>2. Protected => AtUserLevel(packet) \/ packet = Discovery(packet.n, packet.msg_id)
    BY <2>1 DEF Protected, KeysDerived, Making
  <2>3. KeyAtHand'
    BY <2>1 DEF ProtectedInv, KeyAtHand, Making, Unwraps, Encrypts
  <2> QED
    BY <2>1, <2>2, <2>3 DEF ProtectedInv, Protected, AtUserLevel, Signature,
     Encrypts
<1>10. CASE Network
  BY <1>1, <1>10, NetworkMessages
     DEF Network, clientVars, keyVars, counterVars, callVars
<1>11. CASE Engine \/ UNCHANGED vars
  BY <1>1, <1>11 DEF Engine, vars, clientVars, keyVars, counterVars, callVars,
                     udpVars
<1> QED
  BY <1>3, <1>5, <1>6, <1>7, <1>8, <1>9, <1>10, <1>11, ClientSteps DEF Next

\* Unless zeros in the engine id or the user name mislead the search for the
\* placeholder, no request but a discovery is sent below its user's level:
\* not the requests of a walk, each made with the clock of the answer before,
\* nor any made after attempts of new that failed.
THEOREM RequestsProtected == Spec => [](~EarlyZeros => Protected)
<1>1. ProtectedInv => (~EarlyZeros => Protected)
  BY DEF ProtectedInv
<1> QED
  BY <1>1, ProtectedInit, ProtectedStep, KeysAlways, TypeCorrect, PTL DEF Spec

-----------------------------------------------------------------------------
\* Clocks.  The client's clock is that of the last message it decoded, and no
\* clock in any message is ahead of the engine's.

NotAhead(clock) ==
    \/ clock.boots < agentBoots
    \/ clock.boots = agentBoots /\ clock.time <= agentTime

SameClock(a, b) == a.boots = b.boots /\ a.time = b.time

ClocksBehind ==
    /\ NotAhead(engine)
    /\ SameClock(heard, engine)
    /\ pc \in {"sending", "receiving"} => SameClock(packet, engine)
    /\ \A r \in Messages :
          NotAhead(r) /\ (r.engine = "" => SameClock(r, NoClock))

\* The engine's clock, compared as the code's pair, only advances.
LEMMA ClockAdvancing ==
    ASSUME TypeOK, [Next]_vars,
           NEW clock, clock.boots \in Nat, clock.time \in Nat, NotAhead(clock)
    PROVE  \/ clock.boots < agentBoots'
           \/ clock.boots = agentBoots' /\ clock.time <= agentTime'
<1>1. agentBoots \in Nat /\ agentTime \in Nat
  BY EngineAssumption DEF TypeOK, EngineTypeOK
<1>2. CASE UNCHANGED engineVars
  BY <1>2 DEF engineVars, NotAhead
<1>3. CASE Tick \/ Restart
  BY <1>1, <1>3 DEF Tick, Restart, NotAhead
<1> QED
  BY <1>2, <1>3 DEF Next, Caller, Progress, IoErrors, Network, Engine, vars

\* A request carries the clock it is issued with, whatever Secure does to it.
LEMMA IssueClock ==
    ASSUME NEW e, NEW pdu, IssueTo(e, pdu)
    PROVE  SameClock(packet', e) /\ packet'.n = issued' /\ pc' = "sending"
<1> DEFINE p == [n |-> issued', msg_id |-> msg_id', request_id |-> request_id',
                 flags |-> SecurityLevel(credentials),
                 engine |-> e.id, boots |-> e.boots, time |-> e.time,
                 auth |-> IF credentials.auth THEN Placeholder ELSE NoAuth,
                 cipher |-> IF Encrypts
                            THEN [key |-> priv_key,
                                  iv |-> Iv(credentials.priv, e.boots, e.time, salt')]
                            ELSE NoCipher,
                 pdu |-> pdu]
<1>1. packet' = Secure(p) /\ pc' = "sending"
  BY DEF IssueTo
<1>2. /\ p.boots = e.boots /\ p.time = e.time /\ p.n = issued'
      /\ DOMAIN p = {"n", "msg_id", "request_id", "flags", "engine", "boots",
                     "time", "auth", "cipher", "pdu"}
  OBVIOUS
<1> HIDE DEF p
<1>3. \A mac : LET q == [p EXCEPT !.auth = mac]
               IN  q.boots = p.boots /\ q.time = p.time /\ q.n = p.n
  BY <1>2
<1>4. LET q == [p EXCEPT !.engine = "overwritten"]
      IN  q.boots = p.boots /\ q.time = p.time /\ q.n = p.n
  BY <1>2
<1> QED
  BY <1>1, <1>2, <1>3, <1>4 DEF Secure, SameClock

\* An answer carries the engine's clock; a garbled one, its own or none.
LEMMA HeardClock ==
    ASSUME TypeOK, ClocksBehind, NEW r, Heard(r)
    PROVE  NotAhead(r) /\ (r.engine = "" => SameClock(r, NoClock))
<1>1. agentBoots \in Nat /\ agentTime \in Nat
  BY EngineAssumption DEF TypeOK, EngineTypeOK
<1>2. CASE r \in Messages
  BY <1>2 DEF ClocksBehind
<1>3. ASSUME NEW m \in toAgent, r \in EngineAnswers(m)
      PROVE  r.engine = "engine" /\ r.boots = agentBoots /\ r.time = agentTime
  BY <1>3 DEF EngineAnswers, ReportTo, ResponseTo, FromEngine
<1>4. ASSUME NEW x \in Messages, r \in Garbled(x)
      PROVE  NotAhead(r) /\ (r.engine = "" => SameClock(r, NoClock))
  <2>1. x \in V3Message
    BY <1>4 DEF Messages, TypeOK, PathTypeOK, Range
  <2>2. CASE r.engine = x.engine /\ r.boots = x.boots /\ r.time = x.time
    BY <1>4, <2>2 DEF ClocksBehind, NotAhead, SameClock
  <2>3. CASE r.engine = "" /\ r.boots = 0 /\ r.time = 0
    <3>1. 0 < agentBoots \/ (0 = agentBoots /\ 0 <= agentTime)
      BY <1>1
    <3> QED
      BY <2>3, <3>1 DEF NotAhead, SameClock, NoClock
  <2> QED
    BY <1>4, <2>1, <2>2, <2>3 DEF Garbled, V3Message
<1>5. ASSUME NEW m \in toAgent, r \in EngineAnswers(m)
      PROVE  NotAhead(r) /\ (r.engine = "" => SameClock(r, NoClock))
  <2>1. r.engine = "engine" /\ r.boots = agentBoots /\ r.time = agentTime
    BY <1>3, <1>5
  <2> QED
    BY <1>1, <2>1 DEF NotAhead
<1> QED
  BY <1>2, <1>4, <1>5 DEF Heard

LEMMA ClocksInit == Init => ClocksBehind
<1> SUFFICES ASSUME Init PROVE ClocksBehind
  OBVIOUS
<1>1. Messages = {}
  BY DEF Init, UdpInit, Messages, Range
<1>2. NotAhead(engine) /\ SameClock(heard, engine)
  <2>1. /\ engine.boots = 0 /\ engine.time = 0
        /\ heard.boots = 0 /\ heard.time = 0
    BY DEF Init, NoEngine, NoClock
  <2> QED
    BY <2>1 DEF Init, EngineInit, NotAhead, SameClock
<1> QED
  BY <1>1, <1>2 DEF Init, ClocksBehind

LEMMA ClocksStep ==
    TypeOK /\ KeysDerived /\ ClocksBehind /\ [Next]_vars => ClocksBehind'
<1> SUFFICES ASSUME TypeOK, KeysDerived, ClocksBehind, [Next]_vars
             PROVE  ClocksBehind'
  OBVIOUS
<1> DEFINE Behind(c) == \/ c.boots < agentBoots'
                        \/ c.boots = agentBoots' /\ c.time <= agentTime'
           Bare(r) == r.engine = "" => SameClock(r, NoClock)
<1>0. /\ agentBoots' \in Nat /\ agentTime' \in Nat
      /\ engine.boots \in Nat /\ engine.time \in Nat
      /\ \A r \in Messages : r.boots \in Nat /\ r.time \in Nat
  <2>1. agentBoots' \in Nat /\ agentTime' \in Nat
    BY StepType, EngineAssumption DEF TypeOK, EngineTypeOK
  <2>2. engine.boots \in Nat /\ engine.time \in Nat
    BY DEF TypeOK, ClientTypeOK
  <2>3. Messages \subseteq V3Message
    BY MessagesType
  <2> QED
    BY <2>1, <2>2, <2>3 DEF V3Message
<1>1. Behind(engine) /\ \A r \in Messages : Behind(r) /\ Bare(r)
  BY <1>0, ClockAdvancing DEF ClocksBehind
<1>2. SUFFICES /\ Behind(engine')
               /\ SameClock(heard', engine')
               /\ pc' \in {"sending", "receiving"} => SameClock(packet', engine')
               /\ \A r \in Messages' : Behind(r) /\ Bare(r)
  BY DEF ClocksBehind, NotAhead
<1>3. CASE New
  <2>1. Messages' = {} /\ engine' = NoEngine /\ heard' = NoClock
    BY <1>3 DEF New, Bind, Messages, Range
  <2>2. packet'.boots = 0 /\ packet'.time = 0
    <3>1. packet' = Discovery(issued + 1, msg_id')
      BY <1>3 DEF New
    <3> QED
      BY <3>1 DEF Discovery
  <2>3. Behind(NoEngine)
    BY <1>0 DEF NoEngine
  <2> QED
    BY <2>1, <2>2, <2>3 DEF NoEngine, NoClock, SameClock
<1> HIDE DEF Behind, Bare
<1>4. CASE Asks
  <2>1. PICK pdu : IssueTo(engine, pdu)
    BY <1>4 DEF Asks
  <2> QED
    BY <1>1, <1>4, <2>1, IssueClock
       DEF Asks, udpVars, Messages, ClocksBehind
<1>5. ASSUME TakeDatagram PROVE \A r \in Messages' : Behind(r) /\ Bare(r)
  BY <1>1, <1>5, TakeMessages
<1>6. ASSUME Believes
      PROVE  Behind(engine') /\ SameClock(heard', engine')
  <2>1. /\ engine'.boots = Received.boots /\ engine'.time = Received.time
        /\ SameClock(heard', engine')
    BY <1>6 DEF Believes, SameClock, TypeOK, ClientTypeOK
  <2>2. Received \in Messages
    BY <1>6, TakeMessages DEF Believes
  <2> QED
    BY <1>1, <2>1, <2>2 DEF Behind
<1>7. CASE AsksOn
  <2>1. PICK pdu : IssueTo(engine', pdu)
    BY <1>7 DEF AsksOn
  <2> QED
    BY <1>5, <1>6, <1>7, <2>1, IssueClock DEF AsksOn, Believes
<1>8. CASE Concludes
  <2>1. pc' \notin {"sending", "receiving"}
    BY <1>8 DEF Concludes, Return
  <2> QED
    BY <1>5, <1>6, <1>8, <2>1 DEF Concludes, Believes
<1>9. CASE Quits
  <2>1. pc' \notin {"sending", "receiving"} /\ UNCHANGED <<engine, heard>>
    BY <1>9 DEF Quits, Return
  <2>2. \A r \in Messages' : Behind(r) /\ Bare(r)
    BY <1>1, <1>5, <1>9 DEF Quits, Messages
  <2> QED
    BY <1>1, <2>1, <2>2 DEF ClocksBehind
<1>10. CASE RecvDiscovery
  <2>1. TakeDatagram /\ pc' \notin {"sending", "receiving"}
    BY <1>10 DEF RecvDiscovery, Decoded, Return
  <2>2. /\ engine'.boots = Received.boots /\ engine'.time = Received.time
        /\ SameClock(heard', engine')
    BY <1>10 DEF RecvDiscovery, Decoded, SameClock
  <2>3. Received \in Messages
    BY <2>1, TakeMessages
  <2>4. Behind(engine')
    BY <1>1, <2>2, <2>3 DEF Behind
  <2> QED
    BY <1>5, <2>1, <2>2, <2>4
<1>11. CASE RecvNoEngine
  <2>1. TakeDatagram /\ pc' \notin {"sending", "receiving"} /\ engine' = engine
    BY <1>11 DEF RecvNoEngine, Decoded, Return
  <2>0. engine = NoEngine
    <3>1. call = NewClient
      BY <1>11, NewClientOp DEF RecvNoEngine
    <3> QED
      BY <2>1, <3>1 DEF TakeDatagram, KeysDerived, Making
  <2>2. Received \in Messages /\ Received.engine = "" /\ SameClock(heard', Received)
    BY <1>11, <2>1, TakeMessages DEF RecvNoEngine, Decoded, SameClock
  <2>3. SameClock(heard', NoClock)
    BY <1>1, <2>2 DEF Bare, SameClock
  <2>4. SameClock(heard', engine')
    BY <2>0, <2>1, <2>3 DEF SameClock, NoEngine, NoClock
  <2> QED
    BY <1>1, <1>5, <2>1, <2>4
<1>12. CASE SendTo \/ Panics \/ UNCHANGED vars
  BY <1>1, <1>12
     DEF SendTo, Send, Panics, vars, clientVars, udpVars, counterVars, Messages,
         ClocksBehind
<1>13. CASE Network
  <2>1. UNCHANGED <<clientVars, engineVars>>
    BY <1>13 DEF Network
  <2>2. \A r \in Messages' : NotAhead(r) /\ (r.engine = "" => SameClock(r, NoClock))
    BY <1>13, NetworkMessages, HeardClock
  <2> QED
    BY <1>1, <2>1, <2>2
       DEF clientVars, counterVars, engineVars, ClocksBehind, NotAhead, Behind, Bare
<1>14. CASE Engine
  BY <1>1, <1>14 DEF Engine, clientVars, counterVars, udpVars, Messages, ClocksBehind
<1> QED
  BY <1>3, <1>4, <1>7, <1>8, <1>9, <1>10, <1>11, <1>12, <1>13, <1>14,
     ClientSteps DEF Next

LEMMA ClocksAlways == Spec => []ClocksBehind
BY ClocksInit, ClocksStep, KeysAlways, TypeCorrect, PTL DEF Spec

\* However old, repeated, reordered or garbled the messages it heeds, the
\* client never believes the engine's clock ahead of what it is.
THEOREM ClockNeverAhead == Spec => []ClockNotAhead
<1>1. ClocksBehind => ClockNotAhead
  BY DEF ClocksBehind, NotAhead, ClockNotAhead
<1> QED
  BY <1>1, ClocksAlways, PTL

-----------------------------------------------------------------------------
\* Numbers.  Of what is under way, the current exchange's request is the only
\* one with its number, and whoever was turned away with that number had
\* fallen a window behind.

LateReport(r) ==
    r.cause = "notInTimeWindows" /\ r.engine # "" /\ r.n = packet.n
    => r.boots > packet.boots \/ r.time > packet.time + Window

\* Nor is an answer older than its request.
InOrder(r) ==
    r.engine # "" /\ r.n = packet.n
    => \/ r.boots > packet.boots
       \/ r.boots = packet.boots /\ r.time >= packet.time

Numbered ==
    /\ packet.n = issued
    /\ NotAhead(packet)
    /\ \A m \in toAgent : m.n <= packet.n /\ (m.n = packet.n => m = packet)
    /\ \A r \in Messages : r.n <= packet.n /\ LateReport(r) /\ InOrder(r)

\* A step either leaves the current exchange its request, which it may send,
\* and moves what is under way along, or begins an exchange.
LEMMA FlowStep ==
    ASSUME TypeOK, [Next]_vars
    PROVE  \/ /\ UNCHANGED <<packet, issued>>
              /\ toAgent' \subseteq toAgent \cup {packet}
              /\ \A r \in Messages' : Heard(r)
           \/ /\ issued' = issued + 1 /\ packet'.n = issued'
              /\ pc' = "sending"
              /\ toAgent' \subseteq toAgent /\ Messages' \subseteq Messages
<1>1. CASE New
  <2>1. packet' = Discovery(issued + 1, msg_id') /\ issued' = issued + 1
    BY <1>1 DEF New
  <2>2. packet'.n = issued + 1
    BY <2>1 DEF Discovery
  <2> QED
    BY <1>1, <2>1, <2>2 DEF New, Bind, Messages, Range
<1>2. ASSUME NEW e, NEW pdu, IssueTo(e, pdu)
      PROVE  issued' = issued + 1 /\ packet'.n = issued' /\ pc' = "sending"
  BY <1>2, IssueClock DEF IssueTo
<1>3. CASE Asks
  BY <1>2, <1>3 DEF Asks, udpVars, Messages
<1>4. CASE AsksOn
  BY <1>2, <1>4, TakeMessages DEF AsksOn, Believes
<1>5. CASE Concludes \/ Quits \/ RecvDiscovery \/ RecvNoEngine
  <2>1. UNCHANGED <<packet, issued>>
    BY <1>5 DEF Concludes, Quits, RecvDiscovery, RecvNoEngine, Return, counterVars
  <2>2. TakeDatagram \/ UNCHANGED <<toAgent, toClient, sock>>
    BY <1>5 DEF Concludes, Believes, Quits, RecvDiscovery, RecvNoEngine, Decoded
  <2> QED
    BY <2>1, <2>2, TakeMessages DEF Messages, Heard
<1>6. CASE Panics \/ Engine \/ UNCHANGED vars
  BY <1>6 DEF Panics, Engine, vars, clientVars, counterVars, udpVars, Messages,
              Heard
<1>7. CASE SendTo
  BY <1>7 DEF SendTo, Send, counterVars, Messages, Heard
<1>8. CASE Network
  BY <1>8, NetworkMessages DEF Network, clientVars, counterVars
<1> QED
  BY <1>1, <1>3, <1>4, <1>5, <1>6, <1>7, <1>8, ClientSteps DEF Next

\* An answer to a request under way keeps its number, and it is about the
\* time window only if the request fell behind by more.
LEMMA HeardNumber ==
    ASSUME TypeOK, Numbered, NEW r, Heard(r)
    PROVE  r.n <= packet.n /\ LateReport(r) /\ InOrder(r)
<1>1. CASE r \in Messages
  BY <1>1 DEF Numbered
<1>2. ASSUME NEW m \in toAgent, r \in EngineAnswers(m)
      PROVE  r.n <= packet.n /\ LateReport(r) /\ InOrder(r)
  <2>1. /\ r.n = m.n /\ r.boots = agentBoots /\ r.time = agentTime
        /\ r.cause # "none" => r.cause = Cause(m)
    BY <1>2 DEF EngineAnswers, ReportTo, ResponseTo, FromEngine
  <2>2. r.n <= packet.n
    BY <1>2, <2>1 DEF Numbered
  <2>3. ASSUME r.cause = "notInTimeWindows", r.n = packet.n
        PROVE  r.boots > packet.boots \/ r.time > packet.time + Window
    <3>1. m = packet /\ ~InWindow(m)
      BY <1>2, <2>1, <2>3 DEF Numbered, Cause
    <3>2. /\ packet.boots \in Nat /\ packet.time \in Nat
          /\ agentBoots \in Nat /\ agentTime \in Nat /\ Window \in Nat
      BY EngineAssumption DEF TypeOK, CallTypeOK, EngineTypeOK, V3Request
    <3>3. NotAhead(packet)
      BY DEF Numbered
    <3>4. agentBoots > packet.boots \/ agentTime > packet.time + Window
      BY <3>1, <3>2, <3>3 DEF InWindow, NotAhead
    <3> QED
      BY <2>1, <3>4
  <2>4. InOrder(r)
    BY <1>2, <2>1 DEF Numbered, NotAhead, InOrder, TypeOK, CallTypeOK,
                      EngineTypeOK, V3Request
  <2> QED
    BY <2>2, <2>3, <2>4 DEF LateReport
<1>3. ASSUME NEW x \in Messages, r \in Garbled(x)
      PROVE  r.n <= packet.n /\ LateReport(r) /\ InOrder(r)
  <2>1. x \in V3Message /\ x.n <= packet.n /\ LateReport(x) /\ InOrder(x)
    BY <1>3, MessagesType DEF Numbered
  <2>2. /\ r.n = x.n /\ r.cause = x.cause
        /\ \/ r.engine = x.engine /\ r.boots = x.boots /\ r.time = x.time
           \/ r.engine = ""
    BY <1>3, <2>1 DEF Garbled, V3Message
  <2> QED
    BY <2>1, <2>2 DEF LateReport, InOrder
<1> QED
  BY <1>1, <1>2, <1>3 DEF Heard

LEMMA NumberedInit == Init => Numbered
<1> SUFFICES ASSUME Init PROVE Numbered
  OBVIOUS
<1>1. Messages = {} /\ toAgent = {}
  BY DEF Init, UdpInit, Messages, Range
<1>2. packet.n = 0 /\ packet.boots = 0 /\ packet.time = 0 /\ issued = 0
  BY DEF Init, Discovery
<1> QED
  BY <1>1, <1>2 DEF Init, EngineInit, Numbered, NotAhead

LEMMA NumberedStep ==
    TypeOK /\ Numbered /\ ClocksBehind' /\ [Next]_vars => Numbered'
<1> SUFFICES ASSUME TypeOK, Numbered, ClocksBehind', [Next]_vars
             PROVE  Numbered'
  OBVIOUS
<1>0. packet.n = issued /\ issued \in Nat
      /\ packet.boots \in Nat /\ packet.time \in Nat
  BY DEF Numbered, TypeOK, CallTypeOK, V3Request
<1>1. CASE /\ UNCHANGED <<packet, issued>>
           /\ toAgent' \subseteq toAgent \cup {packet}
           /\ \A r \in Messages' : Heard(r)
  <2>1. NotAhead(packet)'
    BY <1>0, <1>1, ClockAdvancing DEF Numbered, NotAhead
  <2>2. \A r \in Messages' : r.n <= packet.n /\ LateReport(r) /\ InOrder(r)
    BY <1>1, HeardNumber
  <2>3. \A m \in toAgent' : m.n <= packet.n /\ (m.n = packet.n => m = packet)
    BY <1>0, <1>1 DEF Numbered
  <2> QED
    BY <1>0, <1>1, <2>1, <2>2, <2>3 DEF Numbered, LateReport, InOrder
<1>2. CASE /\ issued' = issued + 1 /\ packet'.n = issued'
           /\ pc' = "sending"
           /\ toAgent' \subseteq toAgent /\ Messages' \subseteq Messages
  <2>1. NotAhead(packet)'
    BY <1>2 DEF ClocksBehind, SameClock, NotAhead
  <2>2. \A m \in toAgent' : m.n \in Nat /\ m.n <= packet.n
    BY <1>2 DEF Numbered, TypeOK, PathTypeOK, V3Request
  <2>3. \A r \in Messages' : r.n \in Nat /\ r.n <= packet.n
    BY <1>2, MessagesType DEF Numbered, V3Message
  <2>4. \A m \in toAgent' : m.n < packet'.n
    BY <1>0, <1>2, <2>2
  <2>5. \A r \in Messages' : r.n < packet'.n
    BY <1>0, <1>2, <2>3
  <2>6. packet'.n \in Nat
    BY <1>0, <1>2
  <2>7. \A m \in toAgent' : m.n <= packet'.n /\ m.n # packet'.n
    BY <2>2, <2>4, <2>6
  <2>8. \A r \in Messages' : r.n <= packet'.n /\ r.n # packet'.n
    BY <2>3, <2>5, <2>6
  <2> QED
    BY <1>2, <2>1, <2>7, <2>8 DEF Numbered, LateReport, InOrder
<1> QED
  BY <1>1, <1>2, FlowStep

LEMMA NumberedAlways == Spec => []Numbered
BY NumberedInit, NumberedStep, ClocksAlways, TypeCorrect, PTL DEF Spec

\* send_request heeds a message before it verifies it, so a Report about the
\* time window always brings the clock the next request needs: only a restart
\* of the engine or a whole window between can turn a client away.
THEOREM TurnedAwayOnce == Spec => []TurnedAwayOnceOnly
<1>1. TypeOK /\ Numbered /\ ClocksBehind => TurnedAwayOnceOnly
  <2> SUFFICES ASSUME Numbered, ClocksBehind,
                      NEW r \in toClient \cup Range(sock),
                      r.cause = "notInTimeWindows", r.engine # "",
                      r.n = packet.n, pc = "receiving"
               PROVE  r.boots > heard.boots \/ r.time > heard.time + Window
    BY DEF TurnedAwayOnceOnly
  <2>1. r.boots > packet.boots \/ r.time > packet.time + Window
    BY DEF Numbered, LateReport, Messages
  <2>2. packet.boots = heard.boots /\ packet.time = heard.time
    BY DEF ClocksBehind, SameClock
  <2> QED
    BY <2>1, <2>2
<1> QED
  BY <1>1, NumberedAlways, ClocksAlways, TypeCorrect, PTL

-----------------------------------------------------------------------------
\* Staying in step.  With no strays about, the only datagram under way is the
\* current exchange's.

UsmReport == <<[oid |-> UsmStats, value |-> "Value"]>>

AnswersPacket(r) ==
    /\ r.n = packet.n
    /\ r.pdu \notin {"OTHER", "MALFORMED"}
       => \/ r.varbinds = UsmReport
          \/ \E reply \in Replies("V3", packet.pdu) :
                r.status = reply.status /\ r.varbinds = reply.varbinds

OnTheWay ==
    /\ toAgent \subseteq {packet}
    /\ \A r \in Messages : AnswersPacket(r)

AtMostOne ==
    /\ toAgent # {} => toClient = {} /\ sock = <<>>
    /\ toClient # {} => sock = <<>>
    /\ \A r, s \in toClient : r = s
    /\ Len(sock) <= 1

InStep ==
    strays = 0 => IF pc = "receiving" THEN OnTheWay /\ AtMostOne ELSE Quiet

Inv == InStep /\ OwnAnswer

\* What the engine makes of the current request answers it, and so does what
\* garbling makes of that.
LEMMA EngineAnswersPacket ==
    ASSUME NEW r \in EngineAnswers(packet)
    PROVE  AnswersPacket(r)
<1>1. CASE r = ReportTo(packet)
  BY <1>1 DEF ReportTo, FromEngine, AnswersPacket, UsmReport
<1>2. ASSUME NEW reply \in Replies("V3", packet.pdu),
             r = ResponseTo(packet, reply)
      PROVE  AnswersPacket(r)
  <2>1. r.n = packet.n /\ r.status = reply.status /\ r.varbinds = reply.varbinds
    BY <1>2 DEF ResponseTo, FromEngine
  <2> QED
    BY <2>1 DEF AnswersPacket
<1> QED
  BY <1>1, <1>2 DEF EngineAnswers

LEMMA GarbledAnswersPacket ==
    ASSUME NEW x \in V3Message, AnswersPacket(x), NEW r \in Garbled(x)
    PROVE  AnswersPacket(r)
<1>1. /\ r.n = x.n
      /\ r.pdu \in {"OTHER", "MALFORMED"}
         \/ (r.pdu = x.pdu /\ r.status = x.status /\ r.varbinds = x.varbinds)
  BY DEF Garbled, V3Message
<1> QED
  BY <1>1 DEF AnswersPacket

\* A datagram taken with no strays about leaves the path quiet, and is what
\* became of the answer to the current request.
LEMMA TakenInStep ==
    ASSUME TypeOK, InStep, TakeDatagram, strays = 0
    PROVE  Quiet' /\ AnswersPacket(Received) /\ UNCHANGED strays
<1>1. /\ sock # <<>> /\ sock \in Seq(V3Message) /\ OnTheWay /\ AtMostOne
      /\ sock' = Tail(sock) /\ UNCHANGED <<toAgent, toClient, strays>>
  BY DEF TakeDatagram, Receive, InStep, TypeOK, PathTypeOK
<1>2. toAgent = {} /\ toClient = {} /\ Len(sock) <= 1
  BY <1>1 DEF AtMostOne
<1>3. Tail(sock) = <<>>
  <2>1. /\ Len(sock) \in Nat /\ Len(sock) # 0
        /\ Len(Tail(sock)) = Len(sock) - 1 /\ Tail(sock) \in Seq(V3Message)
    BY <1>1, HeadTailProperties, EmptySeq, LenProperties
  <2>2. Len(Tail(sock)) = 0
    BY <1>2, <2>1
  <2> QED
    BY <2>1, <2>2, EmptySeq
<1> QED
  BY <1>1, <1>2, <1>3, TakeMessages DEF OnTheWay, Quiet

\* Whoever takes a datagram and waits no longer stays in step.
LEMMA TakeInStep ==
    ASSUME TypeOK, InStep, TakeDatagram, pc' # "receiving"
    PROVE  InStep'
<1>1. strays' = strays
  BY DEF TakeDatagram, Receive
<1>2. CASE strays = 0
  BY <1>2, TakenInStep DEF InStep
<1>3. CASE strays # 0
  BY <1>1, <1>3 DEF InStep
<1> QED
  BY <1>2, <1>3

\* So does whoever stops waiting: datagrams left behind are strays.
LEMMA QuitInStep ==
    ASSUME TypeOK, InStep, Quits
    PROVE  InStep'
<1>1. pc' # "receiving"
  BY DEF Quits, Return
<1>2. CASE TakeDatagram
  BY <1>1, <1>2, TakeInStep
<1>3. CASE UNCHANGED <<toAgent, toClient, sock, strays>> /\ pc = "sending"
  BY <1>1, <1>3 DEF InStep, Quiet
<1>4. CASE Abandon
  BY <1>1, <1>4 DEF Abandon, InStep, Quiet, TypeOK, PathTypeOK
<1> QED
  BY <1>2, <1>3, <1>4 DEF Quits

LEMMA InvInit == Init => Inv
BY DEF Init, UdpInit, Inv, InStep, Quiet, OwnAnswer

\* What a call returns depends on the datagram's number and bindings only.
LEMMA AnswerOfParts ==
    ASSUME NEW op, NEW r, NEW n, NEW varbinds, r.n = n, r.varbinds = varbinds
    PROVE  AnswerOf(op, r) = AnswerOf(op, [n |-> n, varbinds |-> varbinds])
BY DEF AnswerOf

\* The client's own steps preserve the invariant; where a call returns with
\* its answer, OwnAnswer comes true.
LEMMA ClientInv ==
    TypeOK /\ Inv /\ (Caller \/ Progress \/ IoErrors) => Inv'
<1> SUFFICES ASSUME TypeOK, Inv, Caller \/ Progress \/ IoErrors PROVE Inv'
  OBVIOUS
<1>1. CASE New
  BY <1>1 DEF New, Bind, Inv, InStep, Quiet, OwnAnswer
<1>2. CASE Asks
  <2>1. pc = "idle" /\ pc' = "sending" /\ UNCHANGED udpVars
    BY <1>2 DEF Asks, IssueTo
  <2> QED
    BY <2>1 DEF udpVars, Inv, InStep, Quiet, OwnAnswer
<1>3. CASE AsksOn
  <2>1. TakeDatagram /\ pc' = "sending"
    BY <1>3 DEF AsksOn, Believes, IssueTo
  <2> QED
    BY <2>1, TakeInStep DEF Inv, OwnAnswer
<1>4. CASE Concludes
  <2>1. TakeDatagram /\ pc' # "receiving" /\ UNCHANGED <<packet, call>>
    BY <1>4 DEF Concludes, Believes, Return, counterVars
  <2>2. InStep'
    BY <2>1, TakeInStep DEF Inv
  <2>3. ASSUME clean', outcome'.result = "ok", call.op \in Ops
        PROVE  OwnAnswer'
    <3>1. strays = 0
      BY <2>1, <2>3 DEF TakeDatagram
    <3>2. AnswersPacket(Received)
      BY <2>1, <3>1, TakenInStep DEF Inv
    <3>3. GotVarBinds /\ outcome' = AnswerOf(call.op, Received)
      BY <1>4, <2>3 DEF Concludes, Return, Ops
    <3>4. Received.status = 0 /\ Received.pdu \notin {"OTHER", "MALFORMED"}
      BY <3>3 DEF GotVarBinds, Opened, Accepted, Heeded, Decoded
    <3>5. CASE Received.varbinds = UsmReport
      <4>1. outcome' = AnswerOf(call.op, [n |-> packet.n, varbinds |-> UsmReport])
        BY <3>2, <3>3, <3>5, AnswerOfParts DEF AnswersPacket
      <4> QED
        BY <2>1, <4>1 DEF OwnAnswer, UsmReport
    <3>6. CASE Received.varbinds # UsmReport
      <4>1. PICK reply \in Replies("V3", packet.pdu) :
              Received.status = reply.status /\ Received.varbinds = reply.varbinds
        BY <3>2, <3>4, <3>6 DEF AnswersPacket
      <4>2. outcome' = AnswerOf(call.op, [n |-> packet.n,
                                          varbinds |-> reply.varbinds])
        BY <3>2, <3>3, <4>1, AnswerOfParts DEF AnswersPacket
      <4> QED
        BY <2>1, <3>4, <4>1, <4>2 DEF OwnAnswer
    <3> QED
      BY <3>5, <3>6
  <2> QED
    BY <2>1, <2>2, <2>3 DEF Inv, OwnAnswer
<1>5. CASE Quits
  <2>1. outcome'.result # "ok"
    BY <1>5 DEF Quits, Return
  <2> QED
    BY <1>5, <2>1, QuitInStep DEF Inv, OwnAnswer
<1>6. CASE Panics
  <2>1. outcome'.result # "ok" /\ UNCHANGED <<udpVars, pc>> /\ pc = "idle"
    BY <1>6 DEF Panics, Err
  <2> QED
    BY <2>1 DEF udpVars, Inv, InStep, Quiet, OwnAnswer
<1>7. CASE SendTo
  <2>1. OwnAnswer'
    BY <1>7 DEF SendTo, OwnAnswer
  <2>2. CASE Quiet
    BY <1>7, <2>1, <2>2
       DEF SendTo, Send, counterVars, Quiet, Inv, InStep, OnTheWay, AtMostOne,
           Messages, Range
  <2>3. CASE ~Quiet
    BY <1>7, <2>1, <2>3 DEF SendTo, Send, Inv, InStep
  <2> QED
    BY <2>2, <2>3
<1>8. CASE RecvDiscovery \/ RecvNoEngine
  <2>1. /\ TakeDatagram /\ pc' # "receiving"
        /\ call.op = "new" /\ call' = call
    BY <1>8 DEF RecvDiscovery, RecvNoEngine, Decoded, Return, callVars
  <2> QED
    BY <2>1, TakeInStep DEF Inv, OwnAnswer, Ops
<1> QED
  BY <1>1, <1>2, <1>3, <1>4, <1>5, <1>6, <1>7, <1>8, ClientSteps

\* What the path and the engine do preserves it: they move the one datagram
\* along, answer it, spoil it or drop it, and a copy they make is a stray.
LEMMA NetworkInv == TypeOK /\ Inv /\ Network => Inv'
<1> SUFFICES ASSUME TypeOK, Inv, Network PROVE Inv'
  OBVIOUS
<1>1. UNCHANGED <<pc, packet>> /\ OwnAnswer'
  BY DEF Network, clientVars, counterVars, callVars, Inv, OwnAnswer
<1>2. CASE Copied
  <2>1. strays' # 0
    BY <1>2 DEF Copied, TypeOK, PathTypeOK
  <2> QED
    BY <1>1, <2>1 DEF Inv, InStep
<1>3. CASE strays # 0 /\ ~Copied
  <2>1. strays' = strays
    BY <1>3 DEF Network, Serve, ServeCopy, Garble, Spoilt, Arrive, ArriveCopy,
                LoseRequest, LoseAnswer
  <2> QED
    BY <1>1, <1>3, <2>1 DEF Inv, InStep
<1>4. CASE strays = 0 /\ ~Copied
  <2>1. toAgent # {} \/ toClient # {}
    BY <1>4 DEF Network, Serve, ServeCopy, Garble, Arrive, ArriveCopy,
                LoseRequest, LoseAnswer
  <2>2. pc = "receiving" /\ OnTheWay /\ AtMostOne
    BY <1>4, <2>1 DEF Inv, InStep, Quiet
  <2>3. SUFFICES OnTheWay' /\ AtMostOne'
    BY <1>1, <2>2 DEF Inv, InStep
  <2>4. ASSUME NEW r, AnswersPacket(r), toAgent' = {},
               \/ toClient' = {r} /\ sock' = <<>>
               \/ toClient' = {} /\ sock' = <<r>>
        PROVE  OnTheWay' /\ AtMostOne'
    <3>0. Range(<<>>) = {} /\ Range(<<r>>) = {r} /\ Len(<<r>>) = 1 /\ Len(<<>>) = 0
      BY DEF Range
    <3>1. Messages' = {r} /\ Len(sock') <= 1
      BY <2>4, <3>0 DEF Messages
    <3>2. AtMostOne'
      BY <2>4, <3>1 DEF AtMostOne
    <3> QED
      BY <1>1, <2>4, <3>1, <3>2 DEF OnTheWay, AnswersPacket
  <2>5. CASE Serve
    <3>0. PICK m \in toAgent : \E r \in EngineAnswers(m) :
            toAgent' = toAgent \ {m} /\ toClient' = toClient \cup {r}
      BY <2>5 DEF Serve
    <3>1. PICK r \in EngineAnswers(m) :
            toAgent' = toAgent \ {m} /\ toClient' = toClient \cup {r}
      BY <3>0
    <3>2. m = packet /\ toAgent' = {} /\ toClient' = {r} /\ sock' = <<>>
      BY <2>2, <2>5, <3>1 DEF OnTheWay, AtMostOne, Serve
    <3> QED
      BY <2>4, <3>1, <3>2, EngineAnswersPacket
  <2>6. CASE Garble
    <3>0. PICK x \in toClient : \E g \in Garbled(x) :
            toClient' = (toClient \ {x}) \cup {g}
      BY <2>6 DEF Garble
    <3>1. PICK g \in Garbled(x) : toClient' = (toClient \ {x}) \cup {g}
      BY <3>0
    <3>2. toClient' = {g} /\ sock' = <<>> /\ toAgent' = {}
      BY <2>2, <2>6, <3>1 DEF Garble, AtMostOne
    <3>3. AnswersPacket(x) /\ x \in V3Message
      BY <2>2 DEF OnTheWay, Messages, TypeOK, PathTypeOK
    <3> QED
      BY <2>4, <3>1, <3>2, <3>3, GarbledAnswersPacket
  <2>7. CASE Arrive
    <3>1. PICK r \in toClient : Enqueue(r) /\ toClient' = toClient \ {r}
      BY <2>7 DEF Arrive
    <3>2. toClient' = {} /\ sock = <<>> /\ toAgent' = {} /\ AnswersPacket(r)
      BY <2>2, <2>7, <3>1 DEF Arrive, AtMostOne, OnTheWay, Messages
    <3>3. sock' = <<r>>
      BY <3>1, <3>2, UdpAssumption DEF Enqueue
    <3> QED
      BY <2>4, <3>2, <3>3
  <2>8. CASE LoseRequest \/ LoseAnswer
    BY <1>1, <2>2, <2>8
       DEF LoseRequest, LoseAnswer, OnTheWay, AnswersPacket, AtMostOne, Messages
  <2> QED
    BY <1>4, <2>5, <2>6, <2>7, <2>8 DEF Network, ServeCopy, ArriveCopy
<1> QED
  BY <1>2, <1>3, <1>4

LEMMA StepInv == TypeOK /\ Inv /\ [Next]_vars => Inv'
<1>1. ASSUME TypeOK, Inv, UNCHANGED <<clientVars, udpVars>> PROVE Inv'
  BY <1>1 DEF clientVars, counterVars, callVars, udpVars, Inv, InStep, Quiet,
              OnTheWay, AnswersPacket, AtMostOne, Messages, OwnAnswer
<1> QED
  BY <1>1, ClientInv, NetworkInv DEF Next, Engine, vars

LEMMA InvAlways == Spec => []Inv
BY InvInit, StepInv, TypeCorrect, PTL DEF Spec

\* Neither msg_id nor request_id is ever compared, and yet a call that took
\* its datagram with no strays about returns what the agent answered to its
\* own request, or the counter of the Report it was turned away with.
THEOREM ReturnsOwnAnswer == Spec => []OwnAnswer
<1>1. Inv => OwnAnswer
  BY DEF Inv
<1> QED
  BY <1>1, InvAlways, PTL

-----------------------------------------------------------------------------
\* A path that at worst loses datagrams has no strays and no garbled message.

Untroubled == strays = 0 /\ \A r \in Messages : r.engine = "engine"

LEMMA UntroubledStep ==
    ASSUME Faults \subseteq {"loss"}
    PROVE  TypeOK /\ Untroubled /\ [Next]_vars => Untroubled'
<1> SUFFICES ASSUME TypeOK, Untroubled, [Next]_vars PROVE Untroubled'
  OBVIOUS
<1>1. CASE New
  BY <1>1 DEF New, Bind, Untroubled, Messages, Range
<1>2. CASE Asks \/ Panics \/ Engine \/ UNCHANGED vars
  BY <1>2 DEF Asks, Panics, Engine, vars, udpVars, Untroubled, Messages
<1>3. ASSUME TakeDatagram PROVE Untroubled'
  BY <1>3, TakeMessages DEF TakeDatagram, Receive, Untroubled
<1>4. CASE AsksOn \/ Concludes \/ RecvDiscovery \/ RecvNoEngine
  BY <1>3, <1>4 DEF AsksOn, Concludes, Believes, RecvDiscovery, RecvNoEngine, Decoded
<1>5. CASE Quits
  <2>1. TakeDatagram \/ UNCHANGED <<toAgent, toClient, sock, strays>>
    BY <1>5 DEF Quits, Abandon
  <2> QED
    BY <1>3, <2>1 DEF Untroubled, Messages
<1>6. CASE SendTo
  BY <1>6 DEF SendTo, Send, Untroubled, Messages
<1>7. CASE Network
  <2>1. ~Garble /\ ~ServeCopy /\ ~ArriveCopy
    BY DEF Garble, Spoilt, ServeCopy, ArriveCopy, Copied
  <2>2. strays' = strays
    BY <1>7, <2>1 DEF Network, Serve, Arrive, LoseRequest, LoseAnswer
  <2>3. ASSUME NEW m \in toAgent, NEW r \in EngineAnswers(m) PROVE r.engine = "engine"
    BY DEF EngineAnswers, ReportTo, ResponseTo, FromEngine
  <2>4. CASE Serve
    BY <2>2, <2>3, <2>4 DEF Serve, Untroubled, Messages
  <2>5. CASE Arrive
    <3>1. PICK r \in toClient : Enqueue(r) /\ toClient' = toClient \ {r}
      BY <2>5 DEF Arrive
    <3>2. Range(sock') \subseteq Range(sock) \cup {r}
      BY <3>1, RangeType DEF Enqueue, TypeOK, PathTypeOK
    <3> QED
      BY <2>2, <3>1, <3>2 DEF Untroubled, Messages
  <2>6. CASE LoseRequest \/ LoseAnswer
    BY <2>2, <2>6 DEF LoseRequest, LoseAnswer, Untroubled, Messages
  <2> QED
    BY <1>7, <2>1, <2>4, <2>5, <2>6 DEF Network
<1> QED
  BY <1>1, <1>2, <1>4, <1>5, <1>6, <1>7, ClientSteps DEF Next

\* On such a path the message a call heeds answers the request it sent with
\* the clock it had, and new begins with no clock at all.
LEMMA AdvanceStep ==
    ASSUME TypeOK, KeysDerived, ClocksBehind, Numbered, InStep, Untroubled,
           [Next]_vars
    PROVE  NotSetBack
<1>0. engine.boots \in Nat /\ engine.time \in Nat
  BY DEF TypeOK, ClientTypeOK
<1>1. ASSUME engine' = engine PROVE NotSetBack
  BY <1>0, <1>1 DEF NotSetBack
<1>2. CASE New
  BY <1>1, <1>2 DEF New, KeysDerived
<1>3. ASSUME Believes PROVE NotSetBack
  <2>1. pc = "receiving" /\ TakeDatagram /\ strays = 0
    BY <1>3 DEF Believes, TakeDatagram, Untroubled
  <2>2. Received \in Messages /\ Received.n = packet.n /\ Received.engine # ""
    BY <2>1, TakeMessages, TakenInStep DEF AnswersPacket, Untroubled
  <2>3. \/ Received.boots > packet.boots
        \/ Received.boots = packet.boots /\ Received.time >= packet.time
    BY <2>2 DEF Numbered, InOrder
  <2>4. packet.boots = engine.boots /\ packet.time = engine.time
    BY <2>1 DEF ClocksBehind, SameClock
  <2>5. engine'.boots = Received.boots /\ engine'.time = Received.time
    BY <1>3 DEF Believes, TypeOK, ClientTypeOK
  <2> QED
    BY <2>3, <2>4, <2>5 DEF NotSetBack
<1>4. CASE AsksOn \/ Concludes
  BY <1>3, <1>4 DEF AsksOn, Concludes
<1>5. CASE Asks \/ Quits \/ Panics \/ SendTo \/ RecvNoEngine
  BY <1>1, <1>5 DEF Asks, Quits, Panics, SendTo, RecvNoEngine
<1>6. CASE RecvDiscovery
  <2>1. engine = NoEngine
    BY <1>6, NewClientOp
       DEF RecvDiscovery, Decoded, TakeDatagram, KeysDerived, Making
  <2>2. engine'.id # ""
    BY <1>6 DEF RecvDiscovery
  <2> QED
    BY <2>1, <2>2 DEF NoEngine, NotSetBack
<1>7. CASE Network \/ Engine \/ UNCHANGED vars
  BY <1>1, <1>7 DEF Network, Engine, vars, clientVars
<1> QED
  BY <1>2, <1>4, <1>5, <1>6, <1>7, ClientSteps DEF Next

\* Where the path at worst loses datagrams, and no caller gives up while his
\* answer may still come, heeding messages before they are verified never sets
\* the client's clock back, not even over a restart of the engine.
THEOREM ClockOnlyAdvances ==
    ASSUME Faults \subseteq {"loss"}
    PROVE  Spec => ClockAdvances
<1>1. Init => Untroubled
  BY DEF Init, UdpInit, Untroubled, Messages, Range
<1>2. TypeOK /\ Untroubled /\ [Next]_vars => Untroubled'
  BY UntroubledStep
<1>3. TypeOK /\ KeysDerived /\ ClocksBehind /\ Numbered /\ Inv /\ Untroubled
      /\ [Next]_vars => [NotSetBack]_vars
  BY AdvanceStep DEF Inv
<1> QED
  BY <1>1, <1>2, <1>3, KeysAlways, ClocksAlways, NumberedAlways, InvAlways,
     TypeCorrect, PTL DEF Spec, ClockAdvances

-----------------------------------------------------------------------------
\* Salts.  Every encrypted exchange advances the salt by one and issued by one,
\* so the salt of an exchange tells how long ago it was, up to whole cycles.

IssuedAs(d) ==
    \E boots, time \in Nat : \E s \in 0..(SaltSize - 1) :
        /\ d.iv = Iv(credentials.priv, boots, time, s)
        /\ Counted(SaltSize, s, d.n, salt, issued)

IvsCounted ==
    /\ ivs # {} => Encrypts
    /\ \A d \in ivs : d.n <= issued /\ IssuedAs(d)
    /\ \A d, e \in ivs : d.n = e.n => d = e

\* The salt's step, as the integer it is taken modulo SaltSize.
LEMMA NextSaltCount ==
    ASSUME NEW s \in 0..(SaltSize - 1)
    PROVE  NextSalt(s) = s + 1 \/ NextSalt(s) = s + 1 - SaltSize
BY UsmAssumption DEF NextSalt

LEMMA IvsIssued ==
    ASSUME TypeOK, IvsCounted, NEW e, e.boots \in Nat, e.time \in Nat,
           NEW pdu, IssueTo(e, pdu), UNCHANGED credentials
    PROVE  IvsCounted'
<1>0. /\ issued \in Nat /\ issued' = issued + 1 /\ SaltSize \in Nat \ {0}
      /\ salt \in 0..(SaltSize - 1)
      /\ \A d \in ivs : d.n \in Nat
  BY UsmAssumption DEF IssueTo, TypeOK, CallTypeOK, ClientTypeOK
<1>1. CASE ~Encrypts
  <2>1. ivs = {} /\ ivs' = {}
    BY <1>1 DEF IvsCounted, IssueTo
  <2> QED
    BY <2>1 DEF IvsCounted
<1>2. CASE Encrypts
  <2> DEFINE new == [n |-> issued', iv |-> Iv(credentials.priv, e.boots, e.time, salt')]
  <2>1. ivs' = ivs \cup {new} /\ salt' = NextSalt(salt) /\ Encrypts'
    BY <1>2 DEF IssueTo, Encrypts
  <2> HIDE DEF new
  <2>2. salt' \in 0..(SaltSize - 1)
        /\ (salt' = salt + 1 \/ salt' = salt + 1 - SaltSize)
    BY <1>0, <2>1, SaltType, NextSaltCount
  <2>3. ASSUME NEW d, d = new PROVE IssuedAs(d)' /\ d.n = issued'
    <3>1. Counted(SaltSize, salt', d.n, salt', issued')
      <4>1. d.n = issued' /\ salt' \in Int /\ issued' \in Int /\ SaltSize \in Nat
        BY <1>0, <2>2, <2>3 DEF new
      <4> QED
        BY <4>1, CountsFrom
    <3>2. d.iv = Iv(credentials'.priv, e.boots, e.time, salt') /\ d.n = issued'
      BY <2>3 DEF new
    <3> QED
      BY <2>2, <3>1, <3>2 DEF IssuedAs
  <2>4. ASSUME NEW d \in ivs PROVE IssuedAs(d)'
    <3>1. PICK boots \in Nat, time \in Nat, s \in 0..(SaltSize - 1) :
            /\ d.iv = Iv(credentials.priv, boots, time, s)
            /\ Counted(SaltSize, s, d.n, salt, issued)
      BY DEF IvsCounted, IssuedAs
    <3>2. /\ salt \in Int /\ salt' \in Int /\ issued \in Int /\ d.n \in Int
          /\ s \in Int /\ SaltSize \in Nat
      BY <1>0, <2>2
    <3>3. Counted(SaltSize, s, d.n, salt', issued')
      BY <1>0, <2>2, <3>1, <3>2, CountsOn
    <3> QED
      BY <2>1, <3>1, <3>3 DEF IssuedAs
  <2>5. ASSUME NEW d \in ivs PROVE d.n <= issued' /\ d.n # issued'
    BY <1>0, <2>5 DEF IvsCounted
  <2>6. \A d \in ivs' : d.n <= issued' /\ IssuedAs(d)'
    BY <1>0, <2>1, <2>3, <2>4, <2>5
  <2>7. ASSUME NEW d \in ivs', NEW c \in ivs', d.n = c.n PROVE d = c
    BY <2>1, <2>3, <2>5, <2>7 DEF IvsCounted
  <2> QED
    BY <2>1, <2>6, <2>7 DEF IvsCounted
<1> QED
  BY <1>1, <1>2

LEMMA IvsStep == TypeOK /\ IvsCounted /\ [Next]_vars => IvsCounted'
<1> SUFFICES ASSUME TypeOK, IvsCounted, [Next]_vars PROVE IvsCounted'
  OBVIOUS
<1>1. ASSUME UNCHANGED <<credentials, salt, issued, ivs>> PROVE IvsCounted'
  BY <1>1 DEF IvsCounted, IssuedAs, Encrypts
<1>2. CASE New
  BY <1>2 DEF New, IvsCounted
<1>3. CASE Asks
  <2>1. PICK pdu : IssueTo(engine, pdu)
    BY <1>3 DEF Asks
  <2> QED
    BY <1>3, <2>1, IvsIssued DEF Asks, keyVars, TypeOK, ClientTypeOK
<1>4. CASE AsksOn
  <2>1. PICK pdu : IssueTo(engine', pdu)
    BY <1>4 DEF AsksOn
  <2>2. engine' \in [id : EngineIds, boots : Nat, time : Nat]
    BY StepType DEF TypeOK, ClientTypeOK
  <2> QED
    BY <1>4, <2>1, <2>2, IvsIssued DEF AsksOn, Believes, keyVars
<1>5. CASE Concludes \/ Quits \/ RecvDiscovery \/ RecvNoEngine
  BY <1>1, <1>5 DEF Concludes, Believes, Quits, RecvDiscovery, RecvNoEngine,
                    Return, counterVars, keyVars
<1>6. CASE Panics \/ SendTo \/ Network \/ Engine \/ UNCHANGED vars
  BY <1>1, <1>6 DEF Panics, SendTo, Network, Engine, vars, clientVars, keyVars,
                    counterVars
<1> QED
  BY <1>2, <1>3, <1>4, <1>5, <1>6, ClientSteps DEF Next

\* No initialization vector comes back within a cycle of the salts: not if a
\* stale answer or a restart of the engine sets the clock in it back, not over
\* failed calls and panics, nor where the salt wraps.
THEOREM IvsStayFresh == Spec => []IvsFresh
<1>1. Init => IvsCounted
  BY DEF Init, IvsCounted
<1>2. TypeOK /\ IvsCounted => IvsFresh
  <2> SUFFICES ASSUME TypeOK, IvsCounted, NEW d \in ivs, NEW e \in ivs,
                      d.iv = e.iv, d.n - e.n \in 0..(SaltsApart - 1)
               PROVE  d = e
    BY DEF IvsFresh
  <2>1. PICK boots \in Nat, time \in Nat, s \in 0..(SaltSize - 1) :
          /\ d.iv = Iv(credentials.priv, boots, time, s)
          /\ Counted(SaltSize, s, d.n, salt, issued)
    BY DEF IvsCounted, IssuedAs
  <2>2. PICK boots2 \in Nat, time2 \in Nat, t \in 0..(SaltSize - 1) :
          /\ e.iv = Iv(credentials.priv, boots2, time2, t)
          /\ Counted(SaltSize, t, e.n, salt, issued)
    BY DEF IvsCounted, IssuedAs
  <2>0. Iv(credentials.priv, boots, time, s) = Iv(credentials.priv, boots2, time2, t)
    BY <2>1, <2>2
  <2>3. /\ SaltSize \in Nat \ {0} /\ s \in Int /\ t \in Int
        /\ salt \in Int /\ issued \in Int /\ d.n \in Int /\ e.n \in Int
    BY UsmAssumption DEF TypeOK, ClientTypeOK, CallTypeOK
  <2>4. d.n = e.n
    <3>1. CASE credentials.priv = "Des"
      <4>1. s % DesSaltSize = t % DesSaltSize
        <5>1. <<boots, s % DesSaltSize>> = <<boots2, t % DesSaltSize>>
          BY <2>0, <3>1 DEF Iv, DesIv
        <5> QED
          BY <5>1
      <4>2. d.n = e.n
        <5>1. /\ DesSaltSize \in Nat \ {0} /\ SaltSize % DesSaltSize = 0
              /\ SaltSize \in Nat /\ d.n - e.n \in 0..(DesSaltSize - 1)
          BY <2>3, <3>1, UsmAssumption DEF SaltsApart
        <5> QED
          BY <2>1, <2>2, <2>3, <4>1, <5>1, SameCount, Zenon
      <4> QED
        BY <4>2
    <3>2. CASE credentials.priv # "Des"
      <4>1. s = t
        <5>1. <<boots, time, s>> = <<boots2, time2, t>>
          BY <2>0, <3>2 DEF Iv, AesIv
        <5> QED
          BY <5>1
      <4>2. SaltSize % SaltSize = 0
        BY UsmAssumption
      <4> QED
        BY <2>1, <2>2, <2>3, <3>2, <4>1, <4>2, SameCount DEF SaltsApart
    <3> QED
      BY <3>1, <3>2
  <2> QED
    BY <2>4 DEF IvsCounted
<1> QED
  BY <1>1, <1>2, IvsStep, TypeCorrect, PTL DEF Spec

=============================================================================
