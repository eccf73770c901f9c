-------------------------------- MODULE Acpi --------------------------------
(***************************************************************************)
(* initAcpi of kernel/minishell/cmd/power_off.c: what the kernel learns at *)
(* boot from the tables of the firmware, and the heap blocks it takes to   *)
(* read them.                                                              *)
(*                                                                         *)
(* A candidate for the root pointer is [sig, sum, rsdt]: does it begin     *)
(* with "RSD PTR ", do its bytes add up to zero, and the root table at the *)
(* address it holds, which may be 0.  A table is [sig, sum, ...].          *)
(* The root table lists tables; one that is a FACP has a dsdt, whose s5 is *)
(* what the search for "_S5_" in it ends with: absent, malformed or ok.    *)
(* room is the number of blocks the heap can still give.                   *)
(***************************************************************************)
EXTENDS Integers, Sequences, SequencesExt

\* The registers and switches power_off.c keeps in globals, zero at boot.
NoAcpi == [SCI_EN |-> FALSE, SMI |-> FALSE, PM1b |-> FALSE]

\* What lies at physical address 0, where the NULL of a failed search leads.
table_at_NULL == [sig |-> "none", sum |-> FALSE, entries |-> <<>>]

acpiCheckRSDPtr(ptr) == IF ptr.sig /\ ptr.sum THEN ptr.rsdt ELSE table_at_NULL

\* Below 1 MB first, then the extended BIOS area.  A valid pointer that holds 0
\* is as good as none: the search goes on.
acpiGetRSDPtr(fw) ==
    LET found == SelectSeq(fw.bios \o fw.ebda, LAMBDA ptr : acpiCheckRSDPtr(ptr) # table_at_NULL)
    IN  IF found = <<>> THEN table_at_NULL ELSE Head(found).rsdt

acpiCheckHeader(table, sig) == table.sig = sig /\ table.sum

\* Two blocks: the header alone tells the length, and is given back.
get_ACPIHeader(A) ==
    IF A.room >= 2 THEN [A EXCEPT !.room = @ - 1, !.got = TRUE]
    ELSE [A EXCEPT !.got = FALSE]

kfree(A, n) == [A EXCEPT !.room = @ + n]

\* The table is left in the heap when the search succeeds.
check_dsdt_no_free(A, facp) ==
    LET A1 == get_ACPIHeader(A)
    IN  IF ~A1.got THEN [A1 EXCEPT !.fault = TRUE]
        ELSE IF acpiCheckHeader(facp.dsdt, "DSDT") /\ facp.dsdt.s5 = "ok"
             THEN [A1 EXCEPT !.ret = 0,
                             !.reg = [SCI_EN |-> TRUE, SMI |-> facp.SMI, PM1b |-> facp.PM1b]]
             ELSE kfree(A1, 1)

\* The DSDT of a FACP: its \_S5 package gives the sleep types.
check_dsdt(A, facp) ==
    LET A1 == get_ACPIHeader(A)
    IN  IF ~A1.got THEN [A1 EXCEPT !.fault = TRUE]
        ELSE IF acpiCheckHeader(facp.dsdt, "DSDT") /\ facp.dsdt.s5 = "ok"
             THEN [kfree(A1, 1) EXCEPT !.ret = 0,
                      !.reg = [SCI_EN |-> TRUE, SMI |-> facp.SMI, PM1b |-> facp.PM1b]]
             ELSE kfree(A1, 1)

\* One entry of the root table; a success leaves the loop (goto end).  A header
\* that could not be allocated is read all the same, through NULL.
check_entry(A, facp) ==
    LET A1 == get_ACPIHeader(A)
        A2 == IF acpiCheckHeader(facp, "FACP") THEN check_dsdt(A1, facp) ELSE A1
    IN  IF A.ret = 0 \/ A.fault THEN A
        ELSE IF ~A1.got THEN [A1 EXCEPT !.fault = TRUE]
        ELSE IF A2.fault THEN A2 ELSE kfree(A2, 1)

initAcpi(fw, room) ==
    LET rsdt == acpiGetRSDPtr(fw)
        A0   == get_ACPIHeader([room |-> room, got |-> FALSE, fault |-> FALSE, ret |-> -1,
                                reg |-> NoAcpi])
        A1   == IF acpiCheckHeader(rsdt, "RSDT")
                THEN FoldLeft(check_entry, A0, rsdt.entries) ELSE A0
    IN  IF ~A0.got THEN A0 ELSE IF A1.fault THEN A1 ELSE kfree(A1, 1)
=============================================================================
