------------------------------ MODULE UsmAgent ------------------------------
(***************************************************************************)
(* The agent as SNMPv3 sees it: an authoritative engine with a clock, which*)
(* answers a request whose security it accepts and otherwise says why in a *)
(* Report (RFC 3414, section 3.2).  It is not part of the repository.      *)
(***************************************************************************)
EXTENDS SnmpAgent, Usm

CONSTANTS
    UsmStats,   \* the OID of the counter a Report carries
    Window,     \* the time window, 150 seconds
    MaxTime,    \* bound: ticks of the clock after a boot
    MaxBoots    \* bound: boots

ASSUME EngineAssumption ==
    /\ UsmStats \in Oid
    /\ Window \in Nat
    /\ MaxTime \in Nat
    /\ MaxBoots \in Nat

VARIABLES agentBoots, agentTime

engineVars == <<agentBoots, agentTime>>

EngineInit == agentBoots = 0 /\ agentTime = 0

Tick ==
    /\ agentTime < MaxTime
    /\ agentTime' = agentTime + 1
    /\ UNCHANGED agentBoots

Restart ==
    /\ agentBoots < MaxBoots
    /\ agentBoots' = agentBoots + 1
    /\ agentTime' = 0

-----------------------------------------------------------------------------
InWindow(m) == m.boots = agentBoots /\ agentTime - m.time \in (-Window)..Window

\* Why a request is turned away, in the order of the checks; "none" if not.
Cause(m) ==
    IF m.engine # "engine" THEN "unknownEngineIDs"
    ELSE IF "auth" \in m.flags /\ ~VerifyAuth("right", Placeholder, m.auth)
         THEN "wrongDigests"
    ELSE IF "auth" \in m.flags /\ ~InWindow(m) THEN "notInTimeWindows"
    ELSE IF "priv" \in m.flags /\ m.cipher.key # "right"
         THEN "decryptionErrors"
    ELSE "none"

\* What a message from the engine carries, whatever it answers.
FromEngine(m) ==
    [n |-> m.n, engine |-> "engine", boots |-> agentBoots, time |-> agentTime,
     pdu |-> "RESPONSE", cause |-> "none", auth |-> NoAuth, secret |-> "plain",
     status |-> 0, varbinds |-> <<>>]

Signed == ComputeAuth("right", Placeholder)

\* A Report carries a counter in the clear; only the one about the time
\* window is authenticated.
ReportTo(m) ==
    [FromEngine(m) EXCEPT
        !.pdu = "REPORT", !.cause = Cause(m),
        !.auth = IF Cause(m) = "notInTimeWindows" THEN Signed ELSE NoAuth,
        !.varbinds = <<[oid |-> UsmStats, value |-> "Value"]>>]

\* A Response has the security level of its request.
ResponseTo(m, reply) ==
    [FromEngine(m) EXCEPT
        !.auth = IF "auth" \in m.flags THEN Signed ELSE NoAuth,
        !.secret = IF "priv" \in m.flags THEN "encrypted" ELSE "plain",
        !.status = reply.status, !.varbinds = reply.varbinds]

EngineAnswers(m) ==
    IF Cause(m) # "none" THEN {ReportTo(m)}
    ELSE {ResponseTo(m, reply) : reply \in Replies("V3", m.pdu)}

=============================================================================
