--------------------------- MODULE MCSnmpV3Client ---------------------------
(***************************************************************************)
(* Instances of SnmpV3Client for TLC: a MIB with two instances below 1.2   *)
(* and one after them, users of every kind the constructors of             *)
(* UsmCredentials make and of the kinds only its public fields can express.*)
(***************************************************************************)
EXTENDS SnmpV3Client

MCMib == << <<1, 1, 0>>, <<1, 2, 1>>, <<1, 2, 2>>, <<1, 3, 0>> >>

\* A subtree of one instance, which a walk takes two exchanges for.
SmallMib == << <<1, 1, 0>>, <<1, 2, 1>>, <<1, 3, 0>> >>

MCWritable == {<<1, 1, 0>>}

MCUsmStats == <<1, 6>>

MCRoots == {<<1, 2>>}

MCMaxId == 5

MCInitIds == {4}

\* The last salt but one: the second encryption wraps.
MCInitSalts == {2}

NewCallOf(op, oids) ==
    [op |-> op, oids |-> oids, nonRepeaters |-> 0, maxRepetitions |-> 0]

Bulk(oids, n, m) ==
    [op |-> "get_bulk", oids |-> oids, nonRepeaters |-> n, maxRepetitions |-> m]

AllCalls == {
    NewCallOf("get", << <<1, 1, 0>>, <<1, 2>> >>),
    NewCallOf("get_one", << <<1, 1, 0>> >>),
    NewCallOf("get_next", << <<1, 2>> >>),
    NewCallOf("get_next", << <<1, 3, 0>> >>),
    NewCallOf("set", << <<1, 1, 0>> >>),
    NewCallOf("set", << <<1, 3, 0>> >>),
    Bulk(<< <<1, 2>>, <<1, 2, 1>> >>, 1, 2) }

OneGet == {NewCallOf("get", << <<1, 1, 0>> >>)}

AuthUsers == {AuthOnly("right")}

\* The users a constructor makes: none of them, a wrong password, each level.
MCConstructed == {
    NoAuthUser, AuthOnly("right"), AuthOnly("wrong"),
    AuthPriv("right", "Des", "right"), AuthPriv("right", "Aes128", "right"),
    AuthPriv("right", "Aes128", "wrong") }

\* Beside them, the users only the public fields make: privacy without
\* authentication, and a protocol without a password or the reverse.
AllUsers == MCConstructed \cup {
    [NoAuthUser EXCEPT !.priv = "Des", !.privPassword = "right"],
    [NoAuthUser EXCEPT !.auth = TRUE],
    [NoAuthUser EXCEPT !.authPassword = "right"],
    [AuthOnly("right") EXCEPT !.priv = "Aes128"] }

\* A user whose answers nothing turns away, and one who encrypts.
StaleUsers == {NoAuthUser, AuthPriv("right", "Des", "right")}

=============================================================================
