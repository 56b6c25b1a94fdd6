----------------------------- MODULE SnmpService -----------------------------
(***************************************************************************)
(* What a client promises its caller, with no datagrams in it: one call at *)
(* a time; a call that succeeds returns what the agent's MIB answers to    *)
(* that very call, and a walk that succeeds returns every instance below   *)
(* its root, in order and once.  Any call may time out or fail for its     *)
(* socket instead, but an error-status is reported only where the agent    *)
(* has one to report: of the walks, to one in version 1 whose subtree ends *)
(* with the MIB.                                                           *)
(***************************************************************************)
EXTENDS SnmpAgent

CONSTANTS
    Calls,      \* the single-exchange calls a caller may make
    Roots,      \* the roots a caller may walk
    PduOf(_)    \* the PDU a single-exchange call asks the agent

VARIABLES
    version,    \* the SNMP version the calls are made in
    call,       \* the call in progress, or the last one made
    busy,       \* whether it is in progress
    answer      \* what it returned

serviceVars == <<version, call, busy, answer>>

NoAnswer == [result |-> "none", varbinds |-> <<>>]

Success(varbinds) == [result |-> "ok", varbinds |-> varbinds]

Failure(kind) == [result |-> kind, varbinds |-> <<>>]

\* get_one returns the first of the bindings, if there is one.
Trim(op, varbinds) ==
    IF op = "get_one" THEN SubSeq(varbinds, 1, 1) ELSE varbinds

\* Nothing follows the instances below root.
EndsMib(root) == Position(root) + Cardinality(Below(root)) = Len(Mib)

Promised(c) ==
    IF c.op = "walk"
    THEN {Success(Subtree(c.root))} \cup
         (IF version = "V1" /\ EndsMib(c.root) THEN {Failure("Snmp")} ELSE {})
    ELSE {IF r.status # 0 THEN Failure("Snmp")
          ELSE IF c.op = "get_one" /\ r.varbinds = <<>> THEN Failure("Decode")
          ELSE Success(Trim(c.op, r.varbinds)) : r \in Replies(version, PduOf(c))}

Start(c) ==
    /\ ~busy
    /\ busy' = TRUE
    /\ call' = c
    /\ answer' = NoAnswer
    /\ UNCHANGED version

Finish ==
    /\ busy
    /\ busy' = FALSE
    /\ answer' \in Promised(call) \cup
                   {Failure(k) : k \in {"Io", "Timeout", "cancelled"}}
    /\ UNCHANGED <<version, call>>

ServiceInit ==
    /\ version \in Versions
    /\ call = [op |-> "none"]
    /\ ~busy
    /\ answer = NoAnswer

ServiceNext ==
    \/ \E c \in Calls \cup [op : {"walk"}, root : Roots] : Start(c)
    \/ Finish

ServiceSpec == ServiceInit /\ [][ServiceNext]_serviceVars

=============================================================================
