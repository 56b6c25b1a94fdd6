---------------------------- MODULE MCSnmpClient ----------------------------
(***************************************************************************)
(* Instances of SnmpClient for TLC: a MIB of five instances around the     *)
(* subtree 1.2, which neither begins nor ends the MIB, and the subtree 1.3,*)
(* which ends it.                                                          *)
(***************************************************************************)
EXTENDS SnmpClient

MCMib == << <<1, 1, 0>>, <<1, 2, 1>>, <<1, 2, 1, 1>>, <<1, 2, 2>>, <<1, 3, 0>> >>

\* Two instances below 1.2: its walk takes two or three exchanges.
SmallMib == << <<1, 1, 0>>, <<1, 2, 1>>, <<1, 2, 2>>, <<1, 3, 0>> >>

\* Every OID above or at an instance, and one with nothing below it.
SomeRoots == {<<>>, <<2>>} \cup
             UNION {{SubSeq(Mib[i], 1, n) : n \in 1..Len(Mib[i])} : i \in DOMAIN Mib}

\* Subtree is what selecting the instances below a root gives.
ASSUME SubtreeSelects ==
    \A root \in SomeRoots :
        LET IsBelow(oid) == IsStrictPrefix(root, oid)
        IN  Subtree(root) = BindAll(SelectSeq(Mib, IsBelow), "Value")

\* with_version takes any of the three, and new is with_version(V2c).
AnyVersion == Versions

OnlyV1 == {"V1"}

OnlyV2c == {"V2c"}

MCWritable == {<<1, 1, 0>>}

MCRoots == {<<1, 2>>, <<1, 3>>, <<1, 1, 0>>}

OneRoot == {<<1, 2>>}

NoRoots == {}

MCMaxId == 5

\* One before the wrap, the wrap itself, and abs() of i32::MIN.
MCInitIds == {4, 5, -6}

OneInitId == {4}

NewCallOf(op, oids) ==
    [op |-> op, oids |-> oids, nonRepeaters |-> 0, maxRepetitions |-> 0]

Bulk(oids, n, m) ==
    [op |-> "get_bulk", oids |-> oids, nonRepeaters |-> n, maxRepetitions |-> m]

AllCalls == {
    NewCallOf("get", << <<1, 1, 0>>, <<1, 2>> >>),
    NewCallOf("get_one", << <<1, 1, 0>> >>),
    NewCallOf("get_next", << <<1, 2, 2>>, <<1, 3, 0>> >>),
    NewCallOf("get_next", << <<1, 2>> >>),
    NewCallOf("set", << <<1, 1, 0>> >>),
    NewCallOf("set", << <<1, 3, 0>> >>),
    Bulk(<< <<1, 2>>, <<1, 2, 1>> >>, 1, 2),
    Bulk(<< <<1, 3, 0>>, <<1, 1>> >>, -1, 2) }

\* A read and a write that is rejected.
FewCalls == {
    NewCallOf("get", << <<1, 1, 0>> >>),
    NewCallOf("set", << <<1, 2, 1>> >>) }

TwoGets == {
    NewCallOf("get", << <<1, 1, 0>> >>),
    NewCallOf("get", << <<1, 3, 0>> >>) }

=============================================================================
