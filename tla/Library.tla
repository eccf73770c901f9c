------------------------------- MODULE Library -------------------------------
(***************************************************************************)
(* The functions of the kernel that only compute: the C library, printk,   *)
(* the bitmap memory_init makes and what initAcpi finds.  A caller calls   *)
(* one of them with some input and looks at the result; the properties say *)
(* what each promises, by a definition that does not loop.                 *)
(***************************************************************************)
EXTENDS CLib, Printk, BootMap, Acpi, FiniteSets

CONSTANTS Bytes,        \* the bytes strings are made of, none of them 0
          MaxStr,       \* the length of the strings two functions compare
          LongStr,      \* one string longer than half a byte can count
          MaxArr,       \* the size of an array
          Pieces,       \* what formats are made of: [mods, conv, arg]
          Regions,      \* the regions of memory maps
          Kernel,       \* [start, end] of the kernel
          Machines,     \* firmwares
          MaxRoom       \* blocks in the heap initAcpi meets

ASSUME LibraryAssumption ==
    /\ Bytes \subseteq 1..(BYTE - 1)
    /\ {MaxStr, MaxArr, MaxRoom} \subseteq Nat

VARIABLES fn,   \* the function that has returned, "none" between two calls
          in,   \* its arguments
          out   \* its result

vars == <<fn, in, out>>

Strs == BoundedSeq(Bytes, MaxStr)
Arrays == [1..MaxArr -> Bytes \cup {0}]
\* Arrays that hold a string.
Buffers == {a \in Arrays : \E k \in 1..MaxArr : a[k] = 0}

LibInit == fn = "none" /\ in = <<>> /\ out = <<>>

Call(f, args, result) == fn' = f /\ in' = args /\ out' = result

Compare ==
    \/ \E s, t \in Strs : \/ Call("strcmp", <<s, t>>, strcmp(s, t))
                          \/ Call("strequ", <<s, t>>, strequ(s, t))
    \/ \E s, t \in Strs, n \in 0..(MaxStr + 1) :
          \/ Call("strncmp", <<s, t, n>>, strncmp(s, t, n))
          \/ Call("strnequ", <<s, t, n>>, strnequ(s, t, n))
    \/ \E a, b \in Arrays : Call("memcmp", <<a, b>>, memcmp(a, b, MaxArr))

Search ==
    \/ \E s \in Strs \cup {LongStr}, c \in Bytes \cup {0} :
          \/ Call("strchr", <<s, c>>, strchr(s, c))
          \/ Call("strrchr", <<s, c>>, strrchr(s, c))
    \/ \E a \in Arrays, c \in Bytes \cup {0} : Call("memchr", <<a, c>>, memchr(a, c, MaxArr))
    \/ \E s, t \in Strs : Call("strstr", <<s, t>>, strstr(s, t))
    \/ \E s, t \in Strs, n \in 0..(MaxStr + 1) : Call("strnstr", <<s, t, n>>, strnstr(s, t, n))
    \/ \E a, b, c \in Strs : Call("sstrstr", <<a, b, c>>, sstrstr(<<a, b>>, c))

Sort == \E a, b, c \in Strs : Call("sstrsort", <<a, b, c>>, sstrsort(<<a, b, c>>))

Classify ==
    \E c \in -1..128 : \/ Call("isprint", c, isprint(c))
                       \/ Call("isascii", c, <<isascii(c), iswhitespace(c)>>)
                       \/ c > 0 /\ Call("str_case", c, <<str_toupper(<<c, 97>>), str_tolower(<<c, 65>>)>>)

Copy ==
    \/ \E a \in Arrays, n \in 0..MaxArr : \E dst, src \in 0..(MaxArr - n) :
          \/ Call("memmove", <<a, dst, src, n>>, memmove(a, dst, src, n))
          \/ Call("memcpy", <<a, dst, src, n>>, memcpy(a, dst, src, n))
    \/ \E a \in Arrays, n \in 0..MaxArr : \/ Call("bzero", <<a, n>>, bzero(a, n))
                                          \/ \E c \in Bytes : Call("memset", <<a, c, n>>, memset(a, c, n))
    \/ \E a, b \in Arrays, c \in Bytes : Call("memccpy", <<a, b, c>>, memccpy(a, b, c, MaxArr))

\* The callers of strcpy, strcat and strncat bring room enough.
CopyText ==
    \/ \E a \in Arrays, s \in Strs, n \in 0..MaxArr : Call("strncpy", <<a, s, n>>, strncpy(a, s, n))
    \/ \E a \in Arrays, s \in Strs : Len(s) < MaxArr /\ Call("strcpy", <<a, s>>, strcpy(a, s))
    \/ \E a \in Buffers : Call("strclr", <<a>>, strclr(a))
    \/ \E a, b \in Arrays, s \in Strs :
          Call("sstrcpy", <<a, b, s>>, sstrcpy(<<a, b>>, <<s>>))
    \/ \E a \in Buffers, s \in Strs :
          /\ Len(Text(a)) + Len(s) < MaxArr
          /\ Call("strcat", <<a, s>>, strcat(a, s))
    \/ \E a \in Buffers, s \in Strs, n \in 0..MaxArr :
          /\ Len(Text(a)) + Min({n, Len(s)}) < MaxArr
          /\ Call("strncat", <<a, s, n>>, strncat(a, s, n))
    \/ \E a \in Buffers, s \in Strs, n \in 0..MaxArr : Call("strlcat", <<a, s, n>>, strlcat(a, s, n))

Bases == {2, 8, 10, 16}
DigitsOf(base) == SubSeq(Hex, 1, base)

Convert ==
    \/ \E n \in Longs : Call("atoi", n, atoi(itoa_stack_max(FALSE, n, DigitsOf(10))))
    \/ \E n \in Longs, b \in Bases :
          \/ Call("itoa", <<n, b>>, itoa_stack_max(TRUE, n, DigitsOf(b)))
          \/ Call("atoi_base", <<n, b>>, atoi_base(itoa_stack_max(FALSE, n, DigitsOf(b)), b))

FmtOf(p) == (IF p.conv = "lit" THEN <<>> ELSE <<"%">> \o p.mods) \o (IF p.conv = "lit" THEN <<"-">> ELSE <<p.conv>>)
ArgsOf(p) == IF p.conv \in {"lit", "%"} THEN <<>> ELSE <<p.arg>>

Format ==
    \E p, q \in Pieces :
       Call("printk", <<p, q>>, wvprintk(FmtOf(p) \o FmtOf(q), ArgsOf(p) \o ArgsOf(q)))

Boot ==
    \/ \E magic, aligned \in BOOLEAN, r, s \in Regions :
          Call("memory_init", <<magic, aligned, r, s>>,
               memory_init(magic, aligned, <<[type |-> "cmdline"], [type |-> "mmap", entries |-> <<r, s>>]>>,
                           Kernel.start, Kernel.end))
    \/ \E fw \in Machines, room \in 0..MaxRoom :
          Call("initAcpi", <<fw, room>>, initAcpi(fw, room))

Return == fn # "none" /\ fn' = "none" /\ in' = <<>> /\ out' = <<>>

LibNext == \/ fn = "none" /\ (\/ Compare \/ Search \/ Sort \/ Classify \/ Copy \/ CopyText
                               \/ Convert \/ Format \/ Boot)
           \/ Return

LibSpec == LibInit /\ [][LibNext]_vars

-----------------------------------------------------------------------------
(* References *)

\* The first element satisfying P, from 0, or NULL.
FirstAt(S) == IF S = {} THEN NONE ELSE Min(S)
Cut(s, n) == SubSeq(s, 1, Min({n, Len(s)}))

\* The order of strings by their unsigned bytes.
Before(s, t) ==
    \/ IsStrictPrefix(s, t)
    \/ \E i \in 1..Min({Len(s), Len(t)}) : Cut(s, i - 1) = Cut(t, i - 1) /\ s[i] < t[i]
Order(s, t, n) == (n < 0 <=> Before(s, t)) /\ (n = 0 <=> s = t)

Occurs(s, t) == {i \in 0..Len(s) : IsPrefix(t, SubSeq(s, i + 1, Len(s)))}
Half == BYTE \div 2

\* Comparing, searching, sorting and classifying give what their names say:
\* the order is that of unsigned bytes, a search finds the first (strrchr the
\* last) place and no place past the length given, sorting ends and keeps
\* every string.  strchr and strrchr promise it for characters below 128 and for
\* the places their cast of the offset can hold, of a signed and of an unsigned
\* char; strnstr for strings that are not both empty.
TextOK ==
    /\ fn = "strcmp" => Order(in[1], in[2], out)
    /\ fn = "strncmp" => Order(Cut(in[1], in[3]), Cut(in[2], in[3]), out)
    /\ fn = "memcmp" => Order(in[1], in[2], out)
    /\ fn = "strequ" => (out <=> in[1] = in[2])
    /\ fn = "strnequ" => (out <=> Cut(in[1], in[3]) = Cut(in[2], in[3]))
    /\ fn \in {"strchr", "strrchr"} /\ in[2] < Half =>
          LET places == {i \in 0..Len(in[1]) : At(in[1], i) = in[2]}
          IN  (\A i \in places : i < IF fn = "strchr" THEN Half ELSE BYTE) =>
                 out = IF fn = "strchr" \/ places = {} THEN FirstAt(places) ELSE Max(places)
    /\ fn = "memchr" => out = FirstAt({i \in 0..(MaxArr - 1) : in[1][i + 1] = in[2]})
    /\ fn = "strstr" => out = FirstAt(Occurs(in[1], in[2]))
    /\ fn = "strnstr" /\ ~(in[1] = <<>> /\ in[2] = <<>>) => out = FirstAt(Occurs(Cut(in[1], in[3]), in[2]))
    /\ fn = "sstrstr" => out = FirstAt({i \in 0..1 : IsPrefix(in[3], in[i + 1])})
    /\ fn = "sstrsort" => /\ \A i, j \in 1..3 : i < j => ~Before(out[j], out[i])
                          /\ \A s \in Strs : Cardinality({i \in 1..3 : out[i] = s})
                                               = Cardinality({i \in 1..3 : in[i] = s})
    /\ fn = "isprint" => (out <=> in \in 32..126)
    /\ fn = "isascii" => (out[2] => out[1]) /\ (out[1] /\ ~isprint(in) => in \in 0..31 \cup {127})
    /\ fn = "str_case" => /\ isalpha(in) => out[1][1] # out[2][1] /\ in \in {out[1][1], out[2][1]}
                          /\ ~isalpha(in) => out[1][1] = in /\ out[2][1] = in
                          /\ out[1][2] = 65 /\ out[2][2] = 97

Kept(S) == \A k \in 1..MaxArr : k \notin S => out[k] = in[1][k]

\* The copies: memmove moves as if all bytes were read before any is written,
\* memcpy does where it may, the string functions leave a NUL where they
\* promise one, and no byte outside the bytes they were given changes.
CopyOK ==
    /\ fn = "memmove" \/ (fn = "memcpy" /\ (in[2] <= in[3] \/ in[3] + in[4] <= in[2])) =>
          /\ \A k \in 1..in[4] : out[in[2] + k] = in[1][in[3] + k]
          /\ Kept((in[2] + 1)..(in[2] + in[4]))
    /\ fn = "memset" => (\A k \in 1..in[3] : out[k] = in[2]) /\ Kept(1..in[3])
    /\ fn = "bzero" => (\A k \in 1..in[2] : out[k] = 0) /\ Kept(1..in[2])
    /\ fn = "memccpy" =>
          LET hit == {k \in 1..MaxArr : in[2][k] = in[3]}
              n   == IF hit = {} THEN MaxArr ELSE Min(hit)
          IN  /\ out.ret = IF hit = {} THEN NONE ELSE n
              /\ out.a = Cut(in[2], n) \o SubSeq(in[1], n + 1, MaxArr)
    /\ fn = "strncpy" => (\A k \in 1..in[3] : out[k] = At(in[2], k - 1)) /\ Kept(1..in[3])
    /\ fn = "strcpy" => Text(out) = in[2] /\ Kept(1..(Len(in[2]) + 1))
    /\ fn = "strclr" => (\A k \in 1..Len(Text(in[1])) : out[k] = 0) /\ Kept(1..Len(Text(in[1])))
    /\ fn = "sstrcpy" => /\ out[1] = in[3] \o SubSeq(in[1], Len(in[3]) + 1, MaxArr)
                         /\ out[2] = in[2]
    /\ fn = "strcat" => Text(out) = Text(in[1]) \o in[2]
    /\ fn = "strncat" => Text(out) = Text(in[1]) \o Cut(in[2], in[3])
    /\ fn = "strlcat" =>
          /\ Len(Text(in[1])) < in[3] => Text(out.a) = Cut(Text(in[1]) \o in[2], in[3] - 1)
          /\ \A k \in 1..MaxArr : k > in[3] => out.a[k] = in[1][k]
          /\ out.ret = Len(in[2]) + Min({in[3], Len(Text(in[1]))})

\* The digits of n by their places: no recursion, no sign.
Numeral(n, b) ==
    LET size == Min({k \in 1..7 : b^k > n})
    IN  [i \in 1..size |-> DigitsOf(b)[((n \div b^(size - i)) % b) + 1]]

Upper(t) == [i \in DOMAIN t |-> HEX[CHOOSE k \in 1..16 : Hex[k] = t[i]]]

\* A piece of a format is bad if its modifiers are not known in that order, or
\* make it smaller than the conversion can be.
Small(p) == p.mods \in {<<"h">>, <<"h", "h">>}
BadPiece(p) ==
    \/ p.mods = <<"l", "l">>
    \/ Small(p) /\ p.conv \in {"s", "c", "p", "D"}

Shown(p) ==
    CASE p.conv = "lit" -> <<"-">>
      [] p.conv = "%" -> <<"%">>
      [] p.conv = "c" -> <<p.arg>>
      [] p.conv = "s" -> p.arg
      [] p.conv = "d" -> IF p.arg < 0 THEN <<"-">> \o Numeral(-p.arg, 10) ELSE Numeral(p.arg, 10)
      [] p.conv \in {"u", "D"} -> Numeral(p.arg % LONG, 10)
      [] p.conv = "x" -> Numeral(p.arg % LONG, 16)
      [] p.conv = "X" -> Upper(Numeral(p.arg % LONG, 16))
      [] p.conv = "p" -> <<"0", "x">> \o Numeral(p.arg % LONG, 16)
      [] p.conv = "b" -> <<"0", "b">> \o Numeral(p.arg % LONG, 2)

\* Numbers survive the way to text and back, the least one included, in every
\* base; printk writes each piece of a format as its conversion says, takes
\* one argument for each, and stops at the first bad one with the message and
\* the arguments after it untouched.
PrintOK ==
    /\ fn = "atoi" => out = in
    /\ fn = "atoi_base" => out = in[1]
    /\ fn = "itoa" => out = Numeral(in[1] % LONG, in[2])
    /\ fn = "printk" =>
          LET p == in[1]
              q == in[2]
          IN  /\ out.bad <=> BadPiece(p) \/ BadPiece(q)
              /\ out.out = IF BadPiece(p) THEN <<BAD>>
                           ELSE Shown(p) \o IF BadPiece(q) THEN <<BAD>> ELSE Shown(q)
              /\ out.args = IF BadPiece(p) THEN ArgsOf(p) \o ArgsOf(q)
                            ELSE IF BadPiece(q) THEN ArgsOf(q) ELSE <<>>

\* The pages of a region below 4 GB, whole ones only.
WholePages(r) ==
    {p \in Pages : r.addr.lo <= p * PAGE /\ (p + 1) * PAGE <= r.addr.lo + r.len.lo}
Aligned(r) == r.addr.lo % (PAGE * BITS) = 0

\* The bitmap never offers a page of the kernel, nor one that is not wholly in
\* an available region, as long as the regions begin on a byte of the bitmap;
\* where one does not, at most its first page and the byte before it are
\* wrong.  Of a region, fewer pages than a byte has are lost.
BitmapSound ==
    fn = "memory_init" /\ ~out.panic =>
       LET given == {r \in {in[3], in[4]} : r.type = "available"}
       IN  /\ out.free \cap kernel_pages(Kernel.start, Kernel.end) = {}
           /\ \A p \in out.free : \E r \in given :
                 \/ p \in WholePages(r)
                 \/ ~Aligned(r) /\ \E k \in 0..(BITS - 1) : p + k \in WholePages(r) \cup {r.addr.lo \div PAGE}
           /\ \A r \in given :
                 Cardinality((WholePages(r) \ kernel_pages(Kernel.start, Kernel.end)) \ out.free) < BITS

Usable(t) == t.sig = "FACP" /\ t.sum /\ t.dsdt.sig = "DSDT" /\ t.dsdt.sum /\ t.dsdt.s5 = "ok"

\* initAcpi arms the power switch if and only if the first valid root pointer
\* that is not 0 leads to a sound FACP whose DSDT has a sound _S5, with the registers of the
\* first such; every block it takes is back in the heap; it reads through NULL
\* only if the heap ran out.
AcpiOK ==
    fn = "initAcpi" =>
       LET fw    == in[1]
           roots == SelectSeq(fw.bios \o fw.ebda, LAMBDA r : r.sig /\ r.sum /\ r.rsdt.sig # "none")
           rsdt  == IF roots = <<>> THEN table_at_NULL ELSE roots[1].rsdt
           good  == IF rsdt.sig = "RSDT" /\ rsdt.sum THEN SelectSeq(rsdt.entries, Usable) ELSE <<>>
       IN  /\ in[2] >= 4 => ~out.fault
           /\ ~out.fault => out.room = in[2]
           /\ ~out.fault /\ in[2] >= 2 =>
                 /\ out.ret = 0 <=> good # <<>>
                 /\ out.reg = IF good = <<>> THEN NoAcpi
                              ELSE [SCI_EN |-> TRUE, SMI |-> good[1].SMI, PM1b |-> good[1].PM1b]
=============================================================================
