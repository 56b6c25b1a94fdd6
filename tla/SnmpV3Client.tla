----------------------------- MODULE SnmpV3Client -----------------------------
(***************************************************************************)
(* SnmpV3Client, the client of v3_client.rs, over the path of Udp to the   *)
(* engine of UsmAgent.                                                     *)
(*                                                                         *)
(* As in SnmpClient a call awaits in send_to (pc = "sending") and in the   *)
(* timed recv (pc = "receiving").  new is a call too: until its discovery  *)
(* succeeds there is no client (pc = "none" between attempts).             *)
(* send_request and get_bulk are two copies of one exchange; they differ   *)
(* in that get_bulk, and walk which is made of it, verifies no response.   *)
(*                                                                         *)
(* A datagram is the record of what the codec puts in it; its field n      *)
(* numbers the client's exchanges and is not in the code.                  *)
(***************************************************************************)
EXTENDS UsmAgent, Requests, Udp

CONSTANTS
    Users,       \* the credentials a client may be created with
    InitIds,     \* the values msg_id and request_id may start from
    InitSalts,   \* the values salt may start from
    WalkRows,    \* max_repetitions of the walk's GETBULK, 20 in the code
    Calls,       \* the single-exchange calls a caller may make
    Roots,       \* the roots a caller may walk
    MaxCalls     \* bound: calls made, new included

ASSUME V3ClientAssumption ==
    /\ Users \subseteq Credentials
    /\ InitIds \subseteq FreshIds
    /\ InitSalts \subseteq 0..(SaltSize - 1)
    /\ WalkRows \in Nat \ {0}
    /\ Calls \subseteq RequestCall
    /\ Roots \subseteq Oid
    /\ MaxCalls \in Nat

VARIABLES
    credentials, engine, msg_id, request_id, salt, auth_key, priv_key,
                \* the fields of SnmpV3Client of these names
    call,       \* the call in progress, or the last one made
    pc,         \* where it awaits, "idle" between calls, "none" without client
    packet,     \* the request datagram of the current exchange
    current,    \* walk's local of that name
    results,    \* walk's local of that name
    outcome,    \* what the last call returned
    issued,     \* history: exchanges begun
    clean,      \* history: whatever this call took off the socket, it took
                \* with no strays about
    made,       \* history: calls made
    heard,      \* history: the clock in the last message decoded
    ivs         \* history: the initialization vectors used, by exchange

keyVars == <<credentials, auth_key, priv_key>>

counterVars == <<msg_id, request_id, salt, packet, issued, ivs>>

callVars == <<call, current, results, made>>

clientVars == <<keyVars, counterVars, callVars, engine, pc, outcome, clean, heard>>

vars == <<clientVars, engineVars, udpVars>>

NoEngine == [id |-> "", boots |-> 0, time |-> 0]

NoClock == [boots |-> 0, time |-> 0]

NoCipher == [key |-> "none", iv |-> <<>>]

\* The request of discover_engine: no user, no security, an empty GET.
Discovery(n, msgId) ==
    [n |-> n, msg_id |-> msgId, request_id |-> 0, flags |-> {},
     engine |-> "", boots |-> 0, time |-> 0, auth |-> NoAuth,
     cipher |-> NoCipher,
     pdu |-> [type |-> "GET", oids |-> <<>>, nonRepeaters |-> 0,
              maxRepetitions |-> 0]]

NewClient == [op |-> "new"]

ErrKinds == {"Io", "Timeout", "Snmp", "AuthFailed", "DecryptFailed",
             "DiscoveryFailed", "cancelled", "panic"} \cup Refusals

-----------------------------------------------------------------------------
\* A mutant: the MAC is computed and not written back.
SecureUnwritten(p) == p

\* The MAC goes where find_auth_placeholder points: over the parameters, or
\* over an earlier run of zeros.
Secure(p) ==
    IF auth_key = "none" THEN p
    ELSE IF FindPlaceholder(p.auth) = "params"
         THEN [p EXCEPT !.auth = ComputeAuth(auth_key, p.auth)]
         ELSE [p EXCEPT !.engine = "overwritten"]

Encrypts == credentials.priv # "none"

\* The start of an exchange with engine e, in send_request and get_bulk alike.
IssueTo(e, pdu) ==
    LET iv == Iv(credentials.priv, e.boots, e.time, salt')
    IN  /\ msg_id' = NextId(msg_id)
        /\ request_id' = NextId(request_id)
        /\ salt' = IF Encrypts THEN NextSalt(salt) ELSE salt
        /\ issued' = issued + 1
        /\ packet' = Secure(
              [n |-> issued', msg_id |-> msg_id', request_id |-> request_id',
               flags |-> SecurityLevel(credentials),
               engine |-> e.id, boots |-> e.boots, time |-> e.time,
               auth |-> IF credentials.auth THEN Placeholder ELSE NoAuth,
               cipher |-> IF Encrypts THEN [key |-> priv_key, iv |-> iv]
                          ELSE NoCipher,
               pdu |-> pdu])
        /\ ivs' = IF Encrypts THEN ivs \cup {[n |-> issued', iv |-> iv]} ELSE ivs
        /\ pc' = "sending"

\* The end of a call; new gives a client or none.
Return(o) ==
    /\ pc' = IF call.op = "new" /\ o.result # "ok" THEN "none" ELSE "idle"
    /\ outcome' = o
    /\ UNCHANGED counterVars

Call(c) ==
    /\ made < MaxCalls
    /\ made' = made + 1
    /\ call' = c
    /\ outcome' = NoResult
    /\ clean' = TRUE

\* new up to the send_to of discover_engine.  Its counters are random.
New ==
    /\ pc = "none"
    /\ Call(NewClient)
    /\ credentials' \in Users
    /\ engine' = NoEngine
    /\ auth_key' = "none" /\ priv_key' = "none"
    /\ \E id \in InitIds :
          msg_id' = NextId(id) /\ packet' = Discovery(issued + 1, msg_id')
    /\ request_id' \in InitIds
    /\ salt' \in InitSalts
    /\ issued' = issued + 1
    /\ ivs' = {}
    /\ pc' = "sending"
    /\ heard' = NoClock
    /\ Bind
    /\ UNCHANGED <<current, results>>

NewCall(c) ==
    /\ pc = "idle"
    /\ Call(c)
    /\ UNCHANGED <<keyVars, engine, heard, udpVars>>

\* priv_key.clone().unwrap() has a key where it needs one.
Unwraps == Encrypts => priv_key # "none"

StartRequest(c) ==
    /\ NewCall(c)
    /\ Unwraps
    /\ IssueTo(engine, PduOf(c))
    /\ UNCHANGED <<current, results>>

WalkPdu(oid) ==
    [type |-> "GETBULK", oids |-> <<oid>>, nonRepeaters |-> 0,
     maxRepetitions |-> WalkRows]

StartWalk(root) ==
    /\ NewCall([op |-> "walk", root |-> root])
    /\ Unwraps
    /\ current' = root
    /\ results' = <<>>
    /\ IssueTo(engine, WalkPdu(root))

\* The unwrap fails: the call unwinds with both counters advanced.
StartPanics(c) ==
    /\ pc = "idle"
    /\ ~Unwraps
    /\ made < MaxCalls
    /\ made' = made + 1
    /\ call' = c
    /\ outcome' = Err("panic", 0)
    /\ msg_id' = NextId(msg_id)
    /\ request_id' = NextId(request_id)
    /\ UNCHANGED <<keyVars, engine, salt, pc, packet, current, results, issued,
                   clean, heard, ivs, udpVars>>

-----------------------------------------------------------------------------
\* A mutant: send_to is retried although it may have gone out.
SendToRetried ==
    /\ pc = "sending"
    /\ Send(packet)
    /\ pc' \in {"sending", "receiving"}
    /\ issued' = issued + 1
    /\ packet' = [packet EXCEPT !.n = issued + 1]
    /\ UNCHANGED <<keyVars, callVars, msg_id, request_id, salt, ivs, engine,
                   outcome, clean, heard>>

\* send_to completes, or fails and ends the call.
SendTo ==
    /\ pc = "sending"
    /\ Send(packet)
    /\ pc' = "receiving"
    /\ UNCHANGED <<keyVars, counterVars, callVars, engine, outcome, clean, heard>>

SendToFails ==
    /\ pc = "sending"
    /\ Return(Err("Io", packet.n))
    /\ UNCHANGED <<keyVars, callVars, engine, clean, heard, udpVars>>

\* recv returns the datagram at the head of the socket's queue; neither of
\* the two ids it carries is compared.
Received == Head(sock)

TakeDatagram ==
    /\ pc = "receiving"
    /\ Receive
    /\ clean' = (clean /\ strays = 0)

RecvUndecodable ==
    /\ TakeDatagram
    /\ Received.pdu = "OTHER"
    /\ \E kind \in Refusals : Return(Err(kind, Received.n))
    /\ UNCHANGED <<keyVars, callVars, engine, heard>>

\* A message that decode_v3_message takes.
Decoded ==
    /\ TakeDatagram
    /\ Received.pdu # "OTHER"
    /\ heard' = [boots |-> Received.boots, time |-> Received.time]

\* discover_engine and derive_keys: any message with an engine id will do.
RecvDiscovery ==
    /\ call.op = "new"
    /\ Decoded
    /\ Received.engine # ""
    /\ engine' = [id |-> Received.engine, boots |-> Received.boots,
                  time |-> Received.time]
    /\ auth_key' = AuthKey(credentials)
    /\ priv_key' = PrivKey(credentials)
    /\ Return(Ok(<<>>, Received.n))
    /\ UNCHANGED <<credentials, callVars>>

RecvNoEngine ==
    /\ call.op = "new"
    /\ Decoded
    /\ Received.engine = ""
    /\ Return(Err("DiscoveryFailed", Received.n))
    /\ UNCHANGED <<keyVars, callVars, engine>>

\* Mutants: the clock's two counters change places; only its time is taken.
HeedSwapped ==
    engine' = [engine EXCEPT !.boots = Received.time, !.time = Received.boots]

HeedTimeOnly == engine' = [engine EXCEPT !.time = Received.time]

\* The engine's clock, taken from the message before it is verified.
Heed ==
    engine' = [engine EXCEPT !.boots = Received.boots, !.time = Received.time]

\* A request's message is heeded first, whatever becomes of it.
Heeded == call.op # "new" /\ Decoded /\ Heed /\ UNCHANGED <<keyVars, call, made>>

\* The check of send_request; a message with empty parameters passes it.
Verified ==
    auth_key = "none" \/ Received.auth = NoAuth
    \/ VerifyAuth(auth_key, Zeroed(Received.auth), Received.auth)

\* A mutant: a message is verified before it is heeded.
RecvAuthFailedUnheeded ==
    /\ call.op \notin {"new", "get_bulk", "walk"}
    /\ Decoded
    /\ ~Verified
    /\ Return(Err("AuthFailed", Received.n))
    /\ UNCHANGED <<keyVars, callVars, engine>>

RecvAuthFailed ==
    /\ Heeded
    /\ call.op \notin {"get_bulk", "walk"}
    /\ ~Verified
    /\ Return(Err("AuthFailed", Received.n))
    /\ UNCHANGED <<current, results>>

Accepted == Heeded /\ (call.op \in {"get_bulk", "walk"} \/ Verified)

\* A plain scoped PDU, or one that decrypts: a key is at hand, and the
\* privacy parameters have their eight bytes.
Readable ==
    \/ Received.secret = "plain"
    \/ Received.secret = "encrypted" /\ Encrypts /\ priv_key # "none"

RecvDecryptFailed ==
    /\ Accepted
    /\ ~Readable
    /\ Return(Err("DecryptFailed", Received.n))
    /\ UNCHANGED <<current, results>>

RecvBadPdu ==
    /\ Accepted
    /\ Readable
    /\ Received.pdu = "MALFORMED"
    /\ \E kind \in Refusals : Return(Err(kind, Received.n))
    /\ UNCHANGED <<current, results>>

\* A scoped PDU that decode_scoped_pdu takes.  Its type is not looked at:
\* a Report's bindings pass as well.
Opened == Accepted /\ Readable /\ Received.pdu # "MALFORMED"

RecvErrorStatus ==
    /\ Opened
    /\ Received.status # 0
    /\ Return(Err("Snmp", Received.n))
    /\ UNCHANGED <<current, results>>

\* A mutant: the error-status is not looked at.
GotVarBindsOfAnyStatus == Opened

GotVarBinds == Opened /\ Received.status = 0

RecvAnswer ==
    /\ call.op # "walk"
    /\ GotVarBinds
    /\ Return(AnswerOf(call.op, Received))
    /\ UNCHANGED <<current, results>>

\* One turn of the walk's loop.
Absorb ==
    LET kept == Kept(call.root, Received.varbinds)
    IN  /\ GotVarBinds
        /\ results' = results \o kept
        /\ current' = WalkCurrent(current, kept)

\* The next request carries the clock just heeded.
RecvWalkStep ==
    /\ call.op = "walk"
    /\ Absorb
    /\ ~WalkDone(call.root, Received.varbinds)
    /\ IssueTo(engine', WalkPdu(current'))
    /\ UNCHANGED outcome

RecvWalkEnd ==
    /\ call.op = "walk"
    /\ Absorb
    /\ WalkDone(call.root, Received.varbinds)
    /\ Return(Ok(results', Received.n))

\* A mutant: recv without a timer around it.
NoTimeout == FALSE

\* The call stops waiting without a datagram: the timer fires, recv fails,
\* or the caller drops the future.
GiveUp(kind) ==
    /\ pc = "receiving"
    /\ Abandon
    /\ Return(Err(kind, packet.n))
    /\ UNCHANGED <<keyVars, callVars, engine, clean, heard>>

Timeout == GiveUp("Timeout")

RecvFails == GiveUp("Io")

CancelReceiving == GiveUp("cancelled")

CancelSending ==
    /\ pc = "sending"
    /\ Return(Err("cancelled", packet.n))
    /\ UNCHANGED <<keyVars, callVars, engine, clean, heard, udpVars>>

-----------------------------------------------------------------------------
\* The engine takes a request off the path, or a copy of it, and answers it.
Serve ==
    /\ \E m \in toAgent : \E r \in EngineAnswers(m) :
          toAgent' = toAgent \ {m} /\ toClient' = toClient \cup {r}
    /\ UNCHANGED <<sock, mishaps, strays>>

ServeCopy ==
    /\ Copied
    /\ \E m \in toAgent : \E r \in EngineAnswers(m) :
          toClient' = toClient \cup {r}
    /\ UNCHANGED <<toAgent, sock>>

\* What arrives for an answer does not decode, or its scoped PDU does not, or
\* it has no USM parameters, or privacy parameters that are not eight bytes.
\* The clock in it is the engine's or none: the path makes up no other.
Garbled(r) ==
    {[r EXCEPT !.pdu = "OTHER", !.varbinds = <<>>],
     [r EXCEPT !.pdu = "MALFORMED", !.varbinds = <<>>],
     [r EXCEPT !.engine = "", !.boots = 0, !.time = 0, !.auth = NoAuth]} \cup
    (IF r.secret = "encrypted" THEN {[r EXCEPT !.secret = "broken"]} ELSE {})

Garble ==
    /\ Spoilt
    /\ \E r \in {x \in toClient : x.pdu \in {"RESPONSE", "REPORT"}} :
          \E g \in Garbled(r) : toClient' = (toClient \ {r}) \cup {g}
    /\ UNCHANGED <<toAgent, sock>>

-----------------------------------------------------------------------------
Init ==
    /\ credentials \in Users
    /\ engine = NoEngine
    /\ msg_id = 0 /\ request_id = 0 /\ salt = 0
    /\ auth_key = "none" /\ priv_key = "none"
    /\ call = NoCall
    /\ pc = "none"
    /\ packet = Discovery(0, 0)
    /\ current = <<>>
    /\ results = <<>>
    /\ outcome = NoResult
    /\ issued = 0
    /\ clean = TRUE
    /\ made = 0
    /\ heard = NoClock
    /\ ivs = {}
    /\ EngineInit
    /\ UdpInit

Caller ==
    /\ \/ New
       \/ \E c \in Calls : StartRequest(c) \/ StartPanics(c)
       \/ \E root \in Roots :
             StartWalk(root) \/ StartPanics([op |-> "walk", root |-> root])
       \/ CancelSending
       \/ CancelReceiving
    /\ UNCHANGED engineVars

\* What the runtime drives once a call is under way.
Progress ==
    /\ \/ SendTo
       \/ RecvUndecodable \/ RecvDiscovery \/ RecvNoEngine
       \/ RecvAuthFailed \/ RecvDecryptFailed \/ RecvBadPdu
       \/ RecvErrorStatus \/ RecvAnswer \/ RecvWalkStep \/ RecvWalkEnd
       \/ Timeout
    /\ UNCHANGED engineVars

IoErrors == (SendToFails \/ RecvFails) /\ UNCHANGED engineVars

Network ==
    /\ \/ Serve \/ ServeCopy \/ Garble
       \/ Arrive \/ ArriveCopy \/ LoseRequest \/ LoseAnswer
    /\ UNCHANGED <<clientVars, engineVars>>

Engine == (Tick \/ Restart) /\ UNCHANGED <<clientVars, udpVars>>

Next == Caller \/ Progress \/ IoErrors \/ Network \/ Engine

Spec == Init /\ [][Next]_vars

\* A started call is polled and its timer fires; of the path nothing is asked.
FairSpec == Spec /\ WF_vars(Progress)

-----------------------------------------------------------------------------
EngineIds == {"", "engine", "overwritten"}

AuthParams == {NoAuth, Placeholder} \cup
              {ComputeAuth(k, Placeholder) : k \in Password}

V3Request == [n : Nat, msg_id : Id, request_id : Id, flags : SUBSET {"auth", "priv"},
              engine : EngineIds, boots : Nat, time : Nat, auth : AuthParams,
              cipher : [key : Password, iv : Seq(Nat)], pdu : Pdu]

V3Message == [n : Nat, engine : EngineIds, boots : Nat, time : Nat,
              pdu : {"RESPONSE", "REPORT", "MALFORMED", "OTHER"},
              cause : {"none", "unknownEngineIDs", "wrongDigests",
                       "notInTimeWindows", "decryptionErrors"},
              auth : AuthParams, secret : {"plain", "encrypted", "broken"},
              status : Statuses, varbinds : Seq(VarBind)]

Outcome == [result : {"none", "ok"} \cup ErrKinds, varbinds : Seq(VarBind),
            n : Nat]

ClientTypeOK ==
    /\ credentials \in Credentials
    /\ engine \in [id : EngineIds, boots : Nat, time : Nat]
    /\ msg_id \in Id /\ request_id \in Id /\ salt \in 0..(SaltSize - 1)
    /\ auth_key \in Password /\ priv_key \in Password

CallTypeOK ==
    /\ call \in RequestCall \cup WalkCall \cup {NoCall, NewClient}
    /\ pc \in {"none", "idle", "sending", "receiving"}
    /\ packet \in V3Request
    /\ current \in Oid /\ results \in Seq(VarBind)
    /\ outcome \in Outcome
    /\ issued \in Nat /\ made \in 0..MaxCalls /\ clean \in BOOLEAN
    /\ heard \in [boots : Nat, time : Nat]
    /\ ivs \subseteq [n : Nat, iv : Seq(Nat)]

PathTypeOK ==
    /\ toAgent \subseteq V3Request
    /\ toClient \subseteq V3Message
    /\ sock \in Seq(V3Message)
    /\ mishaps \in 0..MaxMishaps /\ strays \in Nat

EngineTypeOK == agentBoots \in 0..MaxBoots /\ agentTime \in 0..MaxTime

\* Every variable has its type; the ids stay within i32.
TypeOK == ClientTypeOK /\ CallTypeOK /\ PathTypeOK /\ EngineTypeOK

\* A request leaves at its user's security level, under the keys derived from
\* the discovered engine: it carries a MAC over the placeholder if the user has
\* an authentication protocol, and is encrypted if it has a privacy protocol.
\* The public fields also make a user with an authentication protocol and no
\* password; its requests leave with the placeholder's zeros for a MAC.  Nothing
\* else leaves but the discovery of new.
Signature ==
    IF ~credentials.auth THEN NoAuth
    ELSE IF credentials.authPassword = "none" THEN Placeholder
    ELSE ComputeAuth(credentials.authPassword, Placeholder)

AtUserLevel(m) ==
    /\ m.engine = "engine"
    /\ m.flags = SecurityLevel(credentials)
    /\ m.auth = Signature
    /\ Encrypts
        => m.cipher.key = credentials.privPassword /\ m.cipher.key # "none"

Protected ==
    /\ pc = "sending" /\ call # NewClient => AtUserLevel(packet)
    /\ \A m \in toAgent : AtUserLevel(m) \/ m = Discovery(m.n, m.msg_id)

\* No initialization vector is used twice within SaltSize requests, nor with
\* DES within DesSaltSize, although a stale answer or a restart of the agent
\* may take the clock in it back to where it was.
SaltsApart == IF credentials.priv = "Des" THEN DesSaltSize ELSE SaltSize

IvsFresh ==
    \A d, e \in ivs : d.iv = e.iv /\ d.n - e.n \in 0..(SaltsApart - 1) => d = e

\* The client never believes the engine's clock ahead of what it is: stale
\* and repeated messages only set it back.  This is of messages whose clock the
\* engine wrote; a clock written by anybody else would be heeded as well.
ClockNotAhead ==
    \/ engine.boots < agentBoots
    \/ engine.boots = agentBoots /\ engine.time <= agentTime

\* On a path without strays it is not set back either.
NotSetBack ==
    \/ engine'.id # engine.id
    \/ engine'.boots > engine.boots
    \/ engine'.boots = engine.boots /\ engine'.time >= engine.time

ClockAdvances == [][NotSetBack]_vars

\* A request is turned away for its clock only if the engine has restarted or
\* let a window pass since the last message the client had from it, which may
\* itself have been the Report that it was turned away: that Report ends the
\* call with AuthFailed, and sets the clock all the same.
TurnedAwayOnceOnly ==
    \A r \in toClient \cup Range(sock) :
        /\ r.cause = "notInTimeWindows" /\ r.engine # ""
        /\ r.n = packet.n /\ pc = "receiving"
        => (r.boots > heard.boots \/ r.time > heard.time + Window)

\* The unwrap of a privacy key is safe for every user the constructors of
\* UsmCredentials make.
UnwrapIsSafe == outcome.result = "panic" => credentials \notin Constructed

\* What a call that took its datagram with no strays about returns as Ok is
\* the agent's answer to its own exchange, or a Report's counter.
OwnAnswer ==
    (pc = "idle" /\ call.op \in Ops /\ clean /\ outcome.result = "ok")
    => \/ outcome = AnswerOf(call.op, [n |-> packet.n, varbinds |->
                      <<[oid |-> UsmStats, value |-> "Value"]>>])
       \/ \E reply \in Replies("V3", packet.pdu) :
             /\ reply.status = 0
             /\ outcome = AnswerOf(call.op, [n |-> packet.n,
                                             varbinds |-> reply.varbinds])

\* Every call returns, new and walk included, whatever the path and the agent
\* do.
CallReturns == pc \in {"sending", "receiving"} ~> pc \in {"none", "idle"}

\* For a user without authentication the client, once it exists, implements
\* the service of SnmpService on a path that may lose datagrams.  What the
\* others get is finding GenuinePasses' matter.
Serving == call # NewClient /\ credentials = NoAuthUser

Service == INSTANCE SnmpService WITH
    version <- "V3",
    call <- IF Serving THEN call ELSE NoCall,
    busy <- Serving /\ pc \in {"sending", "receiving"},
    answer <- [result |-> IF Serving THEN outcome.result ELSE "none",
               varbinds |-> IF Serving THEN outcome.varbinds ELSE <<>>]

Implements == Service!ServiceSpec

\* v3_client.rs:204, "Zero out auth params in the message for verification":
\* a genuine message, from an engine that knows the user's password, passes.
GenuinePasses ==
    credentials.authPassword = "right" => outcome.result # "AuthFailed"

\* v3_client.rs:186, "Find and replace the auth placeholder in the packet":
\* no authenticated request leaves with the placeholder still in place.
PlaceholderReplaced == \A m \in toAgent : auth_key # "none" => m.auth # Placeholder

\* v3_client.rs:338, "Walk a subtree.": a walk that returns Ok returns the
\* instances below its root.
WalkReturnsSubtree ==
    (pc = "idle" /\ call.op = "walk" /\ outcome.result = "ok")
    => outcome.varbinds = Subtree(call.root)

=============================================================================
