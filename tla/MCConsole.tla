------------------------------ MODULE MCConsole ------------------------------
(* A screen of four cells, two terminals, lines of two characters.  The     *)
(* tables give each word a key: those with an argument, and with shift the  *)
(* commands that stop the machine or only print.                            *)
EXTENDS Console

\* What the keys give, alone, with shift, and in the other layout.
Words == {"switchtty", "1", "layout", "azerty"}
Shifted == [switchtty |-> "reboot", layout |-> "memdebug", azerty |-> "halt"]
            @@ [k \in {"1"} |-> "shutdown"]
Moved == [layout |-> "shutdown", switchtty |-> "reboot", azerty |-> "memdebug"]

KeyTable ==
    LET fixed == [k \in {"nl", "bs"} |-> k]
        upper == [k \in Words |-> Shifted[k]]
        plain == [k \in Words |-> k]
        other == [k \in Words |-> IF k \in DOMAIN Moved THEN Moved[k] ELSE k]
    IN  [l \in Layouts |-> [s \in BOOLEAN |->
            fixed @@ (IF s THEN upper ELSE IF l = "qwerty" THEN plain ELSE other)]]

Dsdt == [sig |-> "DSDT", sum |-> TRUE, s5 |-> "ok"]
Facp(smi, b) == [sig |-> "FACP", sum |-> TRUE, dsdt |-> Dsdt, SMI |-> smi, PM1b |-> b]
Machine(entries) ==
    [bios |-> <<>>, ebda |-> <<[sig |-> TRUE, sum |-> TRUE,
                                rsdt |-> [sig |-> "RSDT", sum |-> TRUE, entries |-> entries]]>>]
AcpiMachine == {Machine(<<Facp(TRUE, TRUE)>>)}
=============================================================================
