---------------------------- MODULE MCTrapReceiver ----------------------------
(***************************************************************************)
(* Instances of TrapReceiver for TLC.                                      *)
(***************************************************************************)
EXTENDS TrapReceiver

\* A message in the clear whose every field is there.
Plain(version, pdu) ==
    [version |-> version, pdu |-> pdu, sealed |-> FALSE, whole |-> TRUE]

\* Of each version a trap; an InformRequest of the two that have it; an
\* encrypted trap, one cut short and one of a version there is not.
MCKinds == {
    Plain("V1", "Trap1"), Plain("V2c", "Trap2"), Plain("V2c", "Inform"),
    Plain("V3", "Trap2"), Plain("V3", "Inform"),
    [Plain("V3", "Trap2") EXCEPT !.sealed = TRUE],
    [Plain("V2c", "Trap2") EXCEPT !.whole = FALSE], Plain("other", "Trap2") }

\* An SNMPv3 sender of informs, which starts with its question.
Probes == {Plain("V3", "Get"), Plain("V3", "Trap2")}

=============================================================================
