-------------------------------- MODULE CLib --------------------------------
(***************************************************************************)
(* The kernel's C library: lib/str, lib/mem, lib/char and lib/sstr.        *)
(*                                                                         *)
(* A byte is a number below BYTE, 2^8 in the code.  A string is the        *)
(* sequence of its bytes without the NUL; an array is a sequence of bytes. *)
(* A pointer into a string or an array is its offset, from 0.  A char is   *)
(* signed: the upper half of the bytes is negative.                        *)
(***************************************************************************)
EXTENDS Integers, Sequences, SequencesExt

CONSTANT BYTE

ASSUME CLibAssumption == BYTE \in Nat /\ BYTE >= 4 /\ BYTE % 2 = 0

NONE == -1      \* the NULL a search returns

signed(b) == IF b % BYTE < BYTE \div 2 THEN b % BYTE ELSE (b % BYTE) - BYTE

\* The byte at offset i of the string s, its NUL included.
At(s, i) == IF i < Len(s) THEN s[i + 1] ELSE 0

\* Where a loop that counts from 0 to at most n stops.
Stops(Goes(_), n) == Min({i \in 0..n : ~Goes(i) \/ i = n})

-----------------------------------------------------------------------------
(* Comparing *)

strlen(s) == Stops(LAMBDA i : At(s, i) # 0, Len(s))

strcmp(s, t) ==
    LET i == Stops(LAMBDA k : At(s, k) # 0 /\ At(t, k) # 0 /\ At(s, k) = At(t, k), Len(s))
    IN  At(s, i) - At(t, i)

\* The bytes are subtracted as the signed chars they are stored as.
strncmp_signed(s, t, n) ==
    LET i == Stops(LAMBDA k : k < n /\ At(s, k) # 0 /\ At(t, k) # 0 /\ At(s, k) = At(t, k), Len(s))
    IN  IF i = n THEN 0 ELSE signed(At(s, i)) - signed(At(t, i))

strncmp(s, t, n) ==
    LET i == Stops(LAMBDA k : k < n /\ At(s, k) # 0 /\ At(t, k) # 0 /\ At(s, k) = At(t, k), Len(s))
    IN  IF i = n THEN 0 ELSE At(s, i) - At(t, i)

strequ(s, t) ==
    LET i == Stops(LAMBDA k : At(s, k) = At(t, k) /\ At(s, k) # 0, Len(s))
    IN  i = strlen(s) /\ i = strlen(t)

strnequ(s, t, n) ==
    LET i == Stops(LAMBDA k : At(s, k) = At(t, k) /\ At(s, k) # 0 /\ k < n, Len(s))
    IN  (i = strlen(s) /\ i = strlen(t)) \/ i = n

\* Of two arrays of at least n bytes.
memcmp(a, b, n) ==
    LET i == Stops(LAMBDA k : At(a, k) = At(b, k), n)
    IN  IF i = n THEN 0 ELSE At(a, i) - At(b, i)

-----------------------------------------------------------------------------
(* Searching *)

\* The offset is cast to char on its way into the pointer, and a char of the
\* string is compared with an unsigned one.
strchr(s, c) ==
    LET found == {i \in 0..Len(s) : signed(At(s, i)) = c % BYTE}
    IN  IF found = {} THEN NONE ELSE signed(Min(found))

strrchr(s, c) ==
    LET found == {i \in 0..strlen(s) : signed(At(s, i)) = c % BYTE}
    IN  IF found = {} THEN NONE ELSE Max(found) % BYTE

memchr(a, c, n) ==
    LET found == {i \in 0..(n - 1) : At(a, i) = c % BYTE}
    IN  IF found = {} THEN NONE ELSE Min(found)

strstr(big, little) ==
    LET agree(i) == Stops(LAMBDA j : At(big, i + j) # 0 /\ At(little, j) # 0
                                       /\ At(big, i + j) = At(little, j), Len(little))
        found == {i \in 0..(Len(big) - 1) : At(little, agree(i)) = 0}
    IN  IF strlen(little) = 0 THEN 0 ELSE IF found = {} THEN NONE ELSE Min(found)

\* An empty string is not found in an empty one.
strnstr(big, little, len) ==
    LET agree(i) == Stops(LAMBDA j : /\ At(big, i + j) # 0 /\ At(little, j) # 0
                                     /\ At(big, i + j) = At(little, j) /\ i + j < len, Len(little))
        found == {i \in 0..(Len(big) - 1) : At(little, agree(i)) = 0 \/ agree(i) = len}
    IN  IF At(big, 0) # 0 /\ strlen(little) = 0 THEN 0
        ELSE IF len < strlen(little) \/ found = {} THEN NONE ELSE Min(found)

\* The first string that begins with find.
sstrstr(list, find) ==
    LET found == {i \in 1..Len(list) : strncmp(list[i], find, strlen(find)) = 0}
    IN  IF found = {} THEN NONE ELSE Min(found) - 1

\* One turn of the loop at i after another: a swap goes back to the start.
RECURSIVE sort_from(_, _)
sort_from(list, i) ==
    IF i >= Len(list) THEN list
    ELSE IF strcmp(list[i], list[i + 1]) > 0
         THEN sort_from([list EXCEPT ![i] = list[i + 1], ![i + 1] = list[i]], 1)
         ELSE sort_from(list, i + 1)

sstrsort(list) == sort_from(list, 1)

-----------------------------------------------------------------------------
(* Copying, in one array: dst and src are offsets *)

\* Byte after byte, upwards.
memcpy(a, dst, src, len) ==
    LET done[k \in 0..len] ==
            IF k = 0 THEN a ELSE [done[k - 1] EXCEPT ![dst + k] = done[k - 1][src + k]]
    IN  done[len]

memmove_up(a, dst, src, len) == memcpy(a, dst, src, len)

\* Downwards where the target lies above the source.
memmove(a, dst, src, len) ==
    LET done[k \in 0..len] ==
            IF k = len THEN a ELSE [done[k + 1] EXCEPT ![dst + k + 1] = done[k + 1][src + k + 1]]
    IN  IF dst <= src THEN memcpy(a, dst, src, len) ELSE done[0]

memset(a, c, n) == [k \in DOMAIN a |-> IF k <= n THEN c % BYTE ELSE a[k]]

bzero(a, n) == memset(a, 0, n)

\* The copy up to and with the byte c; the offset behind it, or NULL.
memccpy(a, src, c, len) ==
    LET i == Stops(LAMBDA k : At(src, k) # c % BYTE, len)
        n == IF i = len THEN len ELSE i + 1
    IN  [a |-> [k \in DOMAIN a |-> IF k <= n THEN src[k] ELSE a[k]],
         ret |-> IF i = len THEN NONE ELSE i + 1]

\* The string at the start of an array.
Text(a) == SubSeq(a, 1, Stops(LAMBDA i : At(a, i) # 0, Len(a)))

\* The bytes of t and then a NUL, from offset at on.
put(a, at, t) ==
    [k \in DOMAIN a |-> IF k - at \in 1..Len(t) THEN t[k - at]
                        ELSE IF k - at = Len(t) + 1 THEN 0 ELSE a[k]]

strcpy(a, src) == put(a, 0, src)

strncpy(a, src, n) ==
    [k \in DOMAIN a |-> IF k > n THEN a[k] ELSE IF k <= Len(src) THEN src[k] ELSE 0]

strcat(a, src) == put(a, Len(Text(a)), src)

strncat(a, src, n) == put(a, Len(Text(a)), SubSeq(src, 1, Min({n, Len(src)})))

\* Every byte of the string becomes a NUL.
strclr(a) == bzero(a, Len(Text(a)))

\* The characters of every string, without their NUL.
sstrcpy(dst, src) ==
    [y \in DOMAIN dst |-> [k \in DOMAIN dst[y] |->
        IF y <= Len(src) /\ k <= Len(src[y]) THEN src[y][k] ELSE dst[y][k]]]

strlcat(a, src, size) ==
    LET len == Len(Text(a))
    IN  IF size <= len THEN [a |-> a, ret |-> size + strlen(src)]
        ELSE [a |-> put(a, len, SubSeq(src, 1, Min({Len(src), size - len - 1}))),
              ret |-> len + strlen(src)]

-----------------------------------------------------------------------------
(* Classes of characters *)

isdigit(c) == c \in 48..57
isupper(c) == c \in 65..90
islower(c) == c \in 97..122
isalpha(c) == isupper(c) \/ islower(c)
isalnum(c) == isdigit(c) \/ isalpha(c)
isspace(c) == c = 32
ispunct(c) == c \in 33..47 \/ c \in 58..64 \/ c \in 91..96 \/ c \in 123..126
isprint(c) == isspace(c) \/ isalnum(c) \/ ispunct(c)
tolower(c) == IF c \in 65..90 THEN c + 32 ELSE c
toupper(c) == IF c \in 97..122 THEN c - 32 ELSE c
isascii(c) == c \in 0..127
iswhitespace(c) == c \in {32, 10, 9}

str_tolower(s) == [k \in DOMAIN s |-> tolower(s[k])]
str_toupper(s) == [k \in DOMAIN s |-> toupper(s[k])]
=============================================================================
