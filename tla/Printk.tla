------------------------------- MODULE Printk -------------------------------
(***************************************************************************)
(* Formatted output, lib/printk with atoi and atoi_base of lib/str.        *)
(*                                                                         *)
(* A format is a sequence of characters, an argument an int, a character   *)
(* or a string; what the writer is given is a sequence of characters.      *)
(* LONG is the number of values of an int, 2^32 on i386, where int, long,  *)
(* void *, ptrdiff_t and size_t all have the same size.                    *)
(***************************************************************************)
EXTENDS Integers, Sequences, SequencesExt, TLC

CONSTANT LONG

ASSUME PrintkAssumption == LONG \in Nat /\ LONG >= 32 /\ LONG % 2 = 0

Longs == (-(LONG \div 2))..(LONG \div 2 - 1)

\* The value an int has after the arithmetic wrapped.
wrap(n) == ((n + LONG \div 2) % LONG) - LONG \div 2

Hex == <<"0", "1", "2", "3", "4", "5", "6", "7", "8", "9", "a", "b", "c", "d", "e", "f">>
HEX == <<"0", "1", "2", "3", "4", "5", "6", "7", "8", "9", "A", "B", "C", "D", "E", "F">>

\* The quotient and the remainder of C, rounded towards zero.
quot(n, d) == IF n < 0 THEN -((-n) \div d) ELSE n \div d
rem(n, d) == n - d * quot(n, d)

-----------------------------------------------------------------------------
(* Numbers to text and back *)

\* The digits of n, taken as unsigned, without leading zeros.
itoa_stack_max_rec(n, char_set) ==
    LET base == Len(char_set)
        digits[k \in 0..(LONG - 1)] ==
            (IF k >= base THEN digits[k \div base] ELSE <<>>) \o <<char_set[(k % base) + 1]>>
    IN  digits[n % LONG]

\* The number is made positive first: the least one has no opposite.
itoa_stack_max_negates(is_unsigned, nb, char_set) ==
    IF ~is_unsigned /\ nb < 0
    THEN <<"-">> \o (LET n == wrap(-nb) IN IF n < 0 THEN <<>> ELSE itoa_stack_max_rec(n, char_set))
    ELSE itoa_stack_max_rec(nb, char_set)

\* All digits but the last come from the quotient, whose opposite exists.
itoa_stack_max(is_unsigned, nb, char_set) ==
    LET base == Len(char_set)
        most == IF (wrap(-nb) % LONG) \div base > 0
                THEN itoa_stack_max_rec(-quot(nb, base), char_set) ELSE <<>>
    IN  IF ~is_unsigned /\ nb < 0
        THEN <<"-">> \o most \o <<char_set[(((-rem(nb, base)) + base) % base) + 1]>>
        ELSE itoa_stack_max_rec(nb, char_set)

\* char_to_base knows the digits of every base up to 16, -1 for the rest.
char_to_base(c) ==
    LET at == {i \in 1..16 : Hex[i] = c \/ HEX[i] = c}
    IN  IF at = {} THEN -1 ELSE Min(at) - 1

\* The characters from i on as a number: digits go in until one is not valid.
number(s, i, Valid(_), base) ==
    LET stop == Min({j \in i..(Len(s) + 1) : j > Len(s) \/ ~Valid(s[Min({j, Len(s)})])})
    IN  FoldLeft(LAMBDA r, c : wrap(r * base + char_to_base(c)), 0, SubSeq(s, i, stop - 1))

Signed(s, i) == i <= Len(s) /\ s[i] \in {"+", "-"}
Sign(s, i) == IF i <= Len(s) /\ s[i] = "-" THEN -1 ELSE 1

Blank(c) == c \in {" ", "tab", "nl", "vt", "cr", "ff"}

atoi(s) ==
    LET i == Min({j \in 1..(Len(s) + 1) : j > Len(s) \/ ~Blank(s[Min({j, Len(s)})])})
    IN  wrap(Sign(s, i) * number(s, IF Signed(s, i) THEN i + 1 ELSE i,
                                 LAMBDA c : char_to_base(c) \in 0..9, 10))

atoi_base(s, base) ==
    wrap(Sign(s, 1) * number(s, IF Signed(s, 1) THEN 2 ELSE 1, LAMBDA c : char_to_base(c) # -1, base))

-----------------------------------------------------------------------------
(* The conversions.  A para is what one % collects. *)

CHAR == 1
INT == 4

\* The modifiers in the order of the table; "h" gives the size of a char too.
modifiers == <<[modifier |-> <<"h", "h">>, size |-> CHAR], [modifier |-> <<"h">>, size |-> CHAR],
               [modifier |-> <<"l">>, size |-> INT], [modifier |-> <<"t">>, size |-> INT],
               [modifier |-> <<"z">>, size |-> INT]>>

\* Every row is tried once, also after one has matched.
printk_para_size(fmt) ==
    FoldLeft(LAMBDA r, m : IF IsPrefix(m.modifier, r.fmt)
                             THEN [fmt |-> SubSeq(r.fmt, Len(m.modifier) + 1, Len(r.fmt)),
                                   size |-> m.size]
                             ELSE r,
             [fmt |-> fmt, size |-> INT], modifiers)

row(type, is_unsigned, size, base, prefix) ==
    [type |-> type, is_unsigned |-> is_unsigned, size |-> size,
     char_set |-> SubSeq(Hex, 1, base), prefix |-> prefix]

\* size 0: any; prefix: what is shown before the argument.
conversions ==
    [d |-> row("int", FALSE, 0, 10, <<>>), i |-> row("int", FALSE, 0, 10, <<>>),
     b |-> row("int", TRUE, 0, 2, <<"0", "b">>), o |-> row("int", TRUE, 0, 8, <<>>),
     u |-> row("int", TRUE, 0, 10, <<>>), x |-> row("int", TRUE, 0, 16, <<>>),
     p |-> row("int", TRUE, INT, 16, <<"0", "x">>),
     X |-> [row("int", TRUE, 0, 16, <<>>) EXCEPT !.char_set = HEX],
     D |-> row("int", TRUE, INT, 10, <<>>), O |-> row("int", TRUE, INT, 8, <<>>),
     c |-> row("char", FALSE, 0, 0, <<>>), C |-> row("char", FALSE, INT, 0, <<>>),
     s |-> row("string", FALSE, 0, 0, <<>>), S |-> row("string", FALSE, INT, 0, <<>>)]
    @@ ("%" :> row("full_macro", FALSE, 0, 0, <<"%">>))

\* A row with a size of its own takes no modifier that gave another one.
printk_para_conv(fmt, size) ==
    fmt # <<>> /\ Head(fmt) \in DOMAIN conversions
       /\ LET r == conversions[Head(fmt)] IN r.size # 0 => size = INT

\* What is written, how many arguments are taken, and whether it went well.
printk_para_display(para, size, args) ==
    CASE para.type \in {"string", "char"} /\ size # INT ->
              [out |-> para.prefix, used |-> 0, ok |-> FALSE]
      [] para.type = "string" -> [out |-> para.prefix \o Head(args), used |-> 1, ok |-> TRUE]
      [] para.type = "char" -> [out |-> Append(para.prefix, Head(args)), used |-> 1, ok |-> TRUE]
      [] para.type = "full_macro" -> [out |-> para.prefix, used |-> 0, ok |-> TRUE]
      [] OTHER -> [out |-> para.prefix \o itoa_stack_max(para.is_unsigned, Head(args), para.char_set),
                   used |-> 1, ok |-> TRUE]

BAD == "BAD PRINTK FORMAT !"

\* W is the state of the loop: what is left of the format and of the
\* arguments, what has been written, and whether the format was bad.
printk_display(W) ==
    LET s    == printk_para_size(Tail(W.fmt))
        para == conversions[Head(s.fmt)]
        d    == printk_para_display(para, IF para.size # 0 THEN para.size ELSE s.size, W.args)
    IN  IF ~printk_para_conv(s.fmt, s.size) THEN [W EXCEPT !.out = Append(@, BAD), !.bad = TRUE]
        ELSE IF ~d.ok THEN [W EXCEPT !.out = Append(@ \o d.out, BAD), !.bad = TRUE]
        ELSE [fmt |-> Tail(s.fmt), args |-> SubSeq(W.args, d.used + 1, Len(W.args)),
              out |-> W.out \o d.out, bad |-> FALSE]

RECURSIVE wvprintk_from(_)
wvprintk_from(W) ==
    IF W.fmt = <<>> \/ W.bad THEN W
    ELSE IF Head(W.fmt) = "%" THEN wvprintk_from(printk_display(W))
    ELSE wvprintk_from([W EXCEPT !.fmt = Tail(@), !.out = Append(@, Head(W.fmt))])

wvprintk(fmt, args) == wvprintk_from([fmt |-> fmt, args |-> args, out |-> <<>>, bad |-> FALSE])
=============================================================================
