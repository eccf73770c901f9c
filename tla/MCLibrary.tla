------------------------------ MODULE MCLibrary ------------------------------
(* Bytes of three bits, ints of six bits, pages of two bytes.               *)
EXTENDS Library

MCLongStr == <<6, 6, 1, 6, 6, 1>>

Numbers == {-32, -10, -1, 0, 9, 31}
Piece(m, c, a) == [mods |-> m, conv |-> c, arg |-> a]
Mods == {<<>>, <<"h">>, <<"h", "h">>, <<"l">>, <<"l", "l">>, <<"h", "l">>}
MCPieces ==
    {Piece(<<>>, "lit", 0), Piece(<<>>, "%", 0)}
      \cup {Piece(<<>>, c, n) : c \in {"d", "u", "x", "b"}, n \in Numbers}
      \cup {Piece(m, c, 12) : m \in Mods, c \in {"d", "p", "D", "X"}}
      \cup {Piece(m, "s", <<"o", "k">>) : m \in Mods}
      \cup {Piece(m, "c", "c") : m \in Mods}

Region(t, a, l) == [type |-> t, addr |-> [hi |-> 0, lo |-> a], len |-> [hi |-> 0, lo |-> l]]
MCRegions == {Region("available", a, l) : a \in {0, 3, 4, 8, 12, 16}, l \in 0..16}
               \cup {Region("reserved", 0, 16)}
MCKernel == [start |-> 11, end |-> 14]

Dsdts == {[sig |-> s, sum |-> b, s5 |-> x] :
            s \in {"DSDT", "SSDT"}, b \in BOOLEAN, x \in {"ok", "malformed", "absent"}}
Good == [sig |-> "DSDT", sum |-> TRUE, s5 |-> "ok"]
Facp(d, smi) == [sig |-> "FACP", sum |-> TRUE, dsdt |-> d, SMI |-> smi, PM1b |-> ~smi]
Entries == {Facp(d, TRUE) : d \in Dsdts}
             \cup {Facp(Good, FALSE), [Facp(Good, TRUE) EXCEPT !.sig = "APIC"],
                   [Facp(Good, TRUE) EXCEPT !.sum = FALSE]}
Root(b, s, es) == [sig |-> TRUE, sum |-> b, rsdt |-> [sig |-> "RSDT", sum |-> s, entries |-> es]]
MCMachines ==
    {[bios |-> <<>>, ebda |-> <<Root(TRUE, TRUE, es)>>] : es \in BoundedSeq(Entries, 2)}
      \cup {[bios |-> <<Root(b, s, <<Facp(Good, TRUE)>>)>>,
             ebda |-> <<Root(c, TRUE, <<Facp(Good, FALSE)>>)>>] : b, c, s \in BOOLEAN}
      \cup {[bios |-> <<[Root(TRUE, TRUE, <<>>) EXCEPT !.rsdt = table_at_NULL]>>, ebda |-> e] :
               e \in {<<>>, <<Root(TRUE, TRUE, <<Facp(Good, TRUE)>>)>>}}
      \cup {[bios |-> <<>>, ebda |-> <<>>]}
=============================================================================
