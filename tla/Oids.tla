-------------------------------- MODULE Oids --------------------------------
(***************************************************************************)
(* Object identifiers, values and variable bindings (types.rs), and the    *)
(* step both walk loops take over the bindings of one response             *)
(* (client.rs, v3_client.rs).  An OID is the sequence of its components.   *)
(* Of a value only what the walk tells apart is kept: an ordinary value,   *)
(* the Null of a request, or one of the three exception markers.           *)
(***************************************************************************)
EXTENDS Integers, Sequences, FiniteSets, SequencesExt

Oid == Seq(Nat)

EndMarkers == {"NoSuchObject", "NoSuchInstance", "EndOfMibView"}

Value == {"Null", "Value"} \cup EndMarkers

VarBind == [oid : Oid, value : Value]

-----------------------------------------------------------------------------
\* The walk's two reasons to stop at a binding: it lies outside the subtree
\* of root, or it carries an exception marker.
Stops(root, vb) == ~IsPrefix(root, vb.oid) \/ vb.value \in EndMarkers

\* A mutant: the binding that stops the loop is pushed before the test.
NotStoppedLate(root, varbinds) ==
    {i \in DOMAIN varbinds : \A j \in 1..(i - 1) : ~Stops(root, varbinds[j])}

\* The positions the for loop reaches and pushes.
NotStopped(root, varbinds) ==
    {i \in DOMAIN varbinds : \A j \in 1..i : ~Stops(root, varbinds[j])}

\* The bindings it pushes to results.
Kept(root, varbinds) ==
    SubSeq(varbinds, 1, Cardinality(NotStopped(root, varbinds)))

\* The walk ends on an empty response and on one it does not keep whole.
WalkDone(root, varbinds) ==
    \/ varbinds = <<>>
    \/ \E i \in DOMAIN varbinds : Stops(root, varbinds[i])

\* The OID the next request starts from.
WalkCurrent(current, kept) ==
    IF kept = <<>> THEN current ELSE Last(kept).oid

=============================================================================
