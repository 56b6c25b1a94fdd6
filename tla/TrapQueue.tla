------------------------------ MODULE TrapQueue ------------------------------
(***************************************************************************)
(* What a trap receiver promises its callers: traps come out in the order  *)
(* they came in, each to one caller, and whoever stops waiting without one *)
(* takes none with it.  Arrivals are numbered; not every arrival is a trap *)
(* that is kept.                                                           *)
(***************************************************************************)
EXTENDS Integers

CONSTANT Callers

VARIABLES
    last,       \* the number of the last arrival
    pending,    \* the traps that arrived and went to nobody yet
    waiting,    \* the callers waiting for one
    got         \* what each caller's last call returned

queueVars == <<last, pending, waiting, got>>

Nothing == [result |-> "none", k |-> 0]

Failure(kind) == [result |-> kind, k |-> 0]

Trap(e) == [result |-> "ok", k |-> e.k, trap |-> e.trap]

Oldest(e) == \A f \in pending : e.k <= f.k

Arrive ==
    /\ last' > last
    /\ pending' \subseteq pending \cup {e \in pending' : e.k = last'}
    /\ pending \subseteq pending'
    /\ \A e, f \in pending' : e.k = f.k => e = f
    /\ UNCHANGED <<waiting, got>>

Wait(c) ==
    /\ waiting' = waiting \cup {c}
    /\ got' = [got EXCEPT ![c] = Nothing]
    /\ UNCHANGED <<last, pending>>

Deliver(c) ==
    /\ c \in waiting
    /\ waiting' = waiting \ {c}
    /\ \E e \in pending :
          /\ Oldest(e)
          /\ pending' = pending \ {e}
          /\ got' = [got EXCEPT ![c] = Trap(e)]
    /\ UNCHANGED last

GiveUp(c) ==
    /\ c \in waiting
    /\ waiting' = waiting \ {c}
    /\ \E kind \in {"Io", "cancelled", "overflow"} : got' = [got EXCEPT ![c] = Failure(kind)]
    /\ UNCHANGED <<last, pending>>

QueueInit ==
    /\ last = 0
    /\ pending = {}
    /\ waiting = {}
    /\ got = [c \in Callers |-> Nothing]

QueueNext ==
    \/ Arrive
    \/ \E c \in Callers : Wait(c) \/ Deliver(c) \/ GiveUp(c)

QueueSpec == QueueInit /\ [][QueueNext]_queueVars

=============================================================================
