--------------------------------- MODULE Udp ---------------------------------
(***************************************************************************)
(* The datagrams between one client and its agent, and the client's socket.*)
(* Outside the repository: the clients see it only through send_to and     *)
(* recv on an unconnected tokio UdpSocket.  Datagrams in flight are        *)
(* unordered; the socket queues what has arrived and drops what does not   *)
(* fit.  Which faults the path has is a constant of the model.             *)
(***************************************************************************)
EXTENDS Integers, Sequences, FiniteSets

CONSTANTS
    Faults,       \* the faults this path has, a subset of FaultKinds
    SockCapacity, \* datagrams the socket's receive queue holds
    MaxMishaps    \* bound: copies and spoilt answers the path makes

FaultKinds == {
    "loss",     \* a datagram disappears
    "copy",     \* a datagram arrives, or reaches the agent, once more
    "garble",   \* the answer that arrives is not a Response the codec takes
    "early" }   \* a caller stops waiting while its answer may still come

ASSUME UdpAssumption ==
    /\ Faults \subseteq FaultKinds
    /\ SockCapacity \in Nat \ {0}
    /\ MaxMishaps \in Nat

VARIABLES
    toAgent,    \* requests in flight
    toClient,   \* answers in flight
    sock,       \* answers queued at the client's socket
    mishaps,    \* history: how many of these it has made
    strays      \* history: an upper bound on the datagrams under way that are
                \* not the current exchange's one; 0 again when a request is
                \* sent on a quiet path

udpVars == <<toAgent, toClient, sock, mishaps, strays>>

UdpInit ==
    /\ toAgent = {}
    /\ toClient = {}
    /\ sock = <<>>
    /\ mishaps = 0
    /\ strays = 0

\* Nothing is under way in either direction.
Quiet == toAgent = {} /\ toClient = {} /\ sock = <<>>

-----------------------------------------------------------------------------
\* What the client's calls do to the path: send_to and a completed recv.
Send(m) ==
    /\ toAgent' = toAgent \cup {m}
    /\ strays' = IF Quiet THEN 0 ELSE strays
    /\ UNCHANGED <<toClient, sock, mishaps>>

Receive ==
    /\ sock # <<>>
    /\ sock' = Tail(sock)
    /\ UNCHANGED <<toAgent, toClient, mishaps, strays>>

\* A new client binds a new socket: what is under way does not reach it.
Bind ==
    /\ toAgent' = {}
    /\ toClient' = {}
    /\ sock' = <<>>
    /\ strays' = 0
    /\ UNCHANGED mishaps

\* The client stops waiting: what is under way, if anything is, stays so.
Abandon ==
    /\ "early" \in Faults \/ Quiet
    /\ strays' = IF Quiet THEN strays ELSE strays + 1
    /\ UNCHANGED <<toAgent, toClient, sock, mishaps>>

-----------------------------------------------------------------------------
\* What the path does.  How an agent answers is the client modules' matter:
\* they define Serve, ServeCopy and Garble.
Copied ==
    /\ "copy" \in Faults /\ mishaps < MaxMishaps
    /\ mishaps' = mishaps + 1
    /\ strays' = strays + 1

Spoilt ==
    /\ "garble" \in Faults /\ mishaps < MaxMishaps
    /\ mishaps' = mishaps + 1
    /\ UNCHANGED strays

Enqueue(r) ==
    sock' = IF Len(sock) < SockCapacity THEN Append(sock, r) ELSE sock

Arrive ==
    \E r \in toClient :
        /\ Enqueue(r)
        /\ toClient' = toClient \ {r}
        /\ UNCHANGED <<toAgent, mishaps, strays>>

\* A copy arrives; the datagram stays in flight.
ArriveCopy ==
    /\ Copied
    /\ \E r \in toClient : Enqueue(r)
    /\ UNCHANGED <<toAgent, toClient>>

LoseRequest ==
    /\ "loss" \in Faults
    /\ \E m \in toAgent : toAgent' = toAgent \ {m}
    /\ UNCHANGED <<toClient, sock, mishaps, strays>>

LoseAnswer ==
    /\ "loss" \in Faults
    /\ \E r \in toClient : toClient' = toClient \ {r}
    /\ UNCHANGED <<toAgent, sock, mishaps, strays>>

=============================================================================
