---------------------------- MODULE ConsoleProofs ----------------------------
(***************************************************************************)
(* The terminals for any size of screen, line and ring.                    *)
(*                                                                         *)
(* LineInv: what the shell has of a line, with what is left in the stream, *)
(* spells the lines that were typed and not yet run, whatever a store      *)
(* behind the screen has done to the line being typed.  CardInv: what the  *)
(* card shows at every step of a character, a switch and a cursor's move.  *)
(* CursorInv, up to the first key in the middle of a character or the      *)
(* first byte without a cell: where the cursor is at every such step, with *)
(* the echo of the line before it.                                         *)
(***************************************************************************)
EXTENDS Console, ListProofs

Printed == {"nl", "$", "w", "unknow"} \cup Layouts

\* What a line may be made of: what is typed, and what overwrites it.
Chars == Char \cup Beyond \cup Printed \cup {" ", "colour"}
Stages == {"idle", "enable", "poll_a", "poll_b", "outw"}
Powers == [pc : Stages, i : 0..MAX_POLL, smi : BOOLEAN, sci : SUBSET {"a", "b"}]

\* A part of a line: nothing that ends one.
Unended(s) == \A i \in 1..Len(s) : s[i] # "nl"

\* w is made of the lines L, each with its newline; line k ends at off[k].
Ends(off, w, L) ==
    /\ off[0] = 0 /\ off[Len(L)] = Len(w)
    /\ \A k \in 1..Len(L) :
         /\ off[k] = off[k - 1] + Len(L[k]) + 1
         /\ w[off[k]] = "nl"
         /\ \A j \in 1..Len(L[k]) : w[off[k - 1] + j] = L[k][j]

Spells(w, L) == \E off \in [0..Len(L) -> 0..Len(w)] : Ends(off, w, L)

\* A line the editor lets through.
Line(l) == l \in Seq(Chars) /\ Unended(l) /\ Len(l) <= STREAM_BUFF - 2
Lines(L) == L \in Seq(Seq(Chars)) /\ \A k \in 1..Len(L) : Line(L[k])

\* What of the terminal t has still to be run.
Pending(t) == IF t = current_tty /\ ~Busy THEN cmd \o input[t] ELSE input[t]

LEMMA Numerals ==
    /\ STREAM_BUFF \in Nat /\ STREAM_BUFF >= 2
    /\ SIZE_MAX_CMD \in Nat /\ SIZE_MAX_CMD >= STREAM_BUFF
    /\ VGA_WIDTH \in Nat \ {0} /\ VGA_HEIGHT \in Nat \ {0} /\ MAX_TTY \in Nat \ {0}
    /\ MAX_POLL \in Nat
  BY ConsoleAssumption

-----------------------------------------------------------------------------
(* Lines *)

\* The places of a concatenation.
Joined(x, w, u) ==
    /\ x \in Seq(Chars) /\ Len(x) \in Nat /\ Len(w) \in Nat /\ Len(u) \in Nat
    /\ Len(x) = Len(w) + Len(u)
    /\ \A i \in 1..Len(w) : x[i] = w[i]
    /\ \A i \in 1..Len(u) : x[Len(w) + i] = u[i]

LEMMA Joins ==
    ASSUME NEW w \in Seq(Chars), NEW u \in Seq(Chars)
    PROVE  Joined(w \o u, w, u)
  <1> DEFINE x == w \o u
  <1>1. /\ x \in Seq(Chars) /\ Len(x) = Len(w) + Len(u)
        /\ \A i \in 1..(Len(w) + Len(u)) : x[i] = IF i <= Len(w) THEN w[i] ELSE u[i - Len(w)]
    BY ConcatProperties
  <1>2. Len(x) \in Nat /\ Len(w) \in Nat /\ Len(u) \in Nat BY <1>1
  <1> HIDE DEF x
  <1>3. ASSUME NEW i \in 1..Len(w) PROVE x[i] = w[i]
    <2>1. i \in 1..(Len(w) + Len(u)) /\ i <= Len(w) BY <1>2
    <2>2. QED BY <1>1, <2>1
  <1>4. ASSUME NEW i \in 1..Len(u) PROVE x[Len(w) + i] = u[i]
    <2>1. Len(w) + i \in 1..(Len(w) + Len(u)) /\ ~(Len(w) + i <= Len(w)) /\ (Len(w) + i) - Len(w) = i BY <1>2
    <2>2. QED BY <1>1, <2>1
  <1>5. Joined(x, w, u) BY <1>1, <1>2, <1>3, <1>4 DEF Joined
  <1>6. QED BY <1>5 DEF x

LEMMA SpellsNothing == Spells(<<>>, <<>>)
  <1> DEFINE off == [k \in 0..0 |-> 0]
  <1>1. Len(<<>>) = 0 OBVIOUS
  <1>2. off \in [0..Len(<<>>) -> 0..Len(<<>>)] /\ off[0] = 0 BY <1>1
  <1> HIDE DEF off
  <1>3. Ends(off, <<>>, <<>>) BY <1>1, <1>2 DEF Ends
  <1>4. QED BY <1>2, <1>3 DEF Spells

\* stream_write: one more line at the end.
LEMMA SpellsOneMore ==
    ASSUME NEW w \in Seq(Chars), NEW L, Lines(L), Spells(w, L), NEW l, Line(l), "nl" \in Chars
    PROVE  /\ Spells(w \o Append(l, "nl"), Append(L, l)) /\ Lines(Append(L, l))
           /\ w \o Append(l, "nl") \in Seq(Chars)
  <1>1. PICK off \in [0..Len(L) -> 0..Len(w)] : Ends(off, w, L) BY DEF Spells
  <1> DEFINE n == Len(L)
             u == Append(l, "nl")
             x == w \o u
             M == Append(L, l)
             to == [k \in 0..Len(M) |-> IF k <= n THEN off[k] ELSE Len(x)]
  <1>2. /\ n \in Nat /\ Len(w) \in Nat /\ l \in Seq(Chars) /\ Len(l) \in Nat
        /\ M \in Seq(Seq(Chars)) /\ Len(M) = n + 1 /\ M[n + 1] = l
        /\ \A k \in 1..n : M[k] = L[k] /\ L[k] \in Seq(Chars)
    BY DEF Lines, Line
  <1>3. /\ u \in Seq(Chars) /\ Len(u) = Len(l) + 1 /\ u[Len(l) + 1] = "nl"
        /\ \A j \in 1..Len(l) : u[j] = l[j]
    BY <1>2
  <1> HIDE DEF u, n, M
  <1>4. /\ x \in Seq(Chars) /\ Len(x) \in Nat /\ Len(w) \in Nat /\ Len(u) \in Nat
        /\ Len(x) = Len(w) + Len(u)
        /\ \A i \in 1..Len(w) : x[i] = w[i]
        /\ \A i \in 1..Len(u) : x[Len(w) + i] = u[i]
    BY <1>3, Joins DEF Joined
  <1> HIDE DEF x
  <1>5. Lines(M)
    <2>1. \A k \in 1..Len(M) : k = n + 1 \/ k \in 1..n BY <1>2
    <2>2. \A k \in 1..n : Line(L[k]) BY DEF Lines, n
    <2>3. QED BY <1>2, <2>1, <2>2 DEF Lines
  <1>6. to \in [0..Len(M) -> 0..Len(x)]
    <2>1. \A k \in 0..n : off[k] \in 0..Len(x)
      <3>1. \A k \in 0..n : off[k] \in 0..Len(w) BY DEF n
      <3>2. 0..Len(w) \subseteq 0..Len(x) BY <1>4
      <3>3. QED BY <3>1, <3>2
    <2>2. QED BY <1>2, <1>3, <1>4, <2>1
  <1>7. Ends(to, x, M)
    <2>1. to[0] = 0 /\ to[n] = Len(w) /\ to[n + 1] = Len(x) /\ to[Len(M)] = Len(x)
      BY <1>1, <1>2 DEF Ends, n
    <2>2. ASSUME NEW k \in 1..Len(M)
          PROVE  /\ to[k] = to[k - 1] + Len(M[k]) + 1
                 /\ x[to[k]] = "nl"
                 /\ \A j \in 1..Len(M[k]) : x[to[k - 1] + j] = M[k][j]
      <3>1. CASE k = n + 1
        <4>1. to[k] = Len(x) /\ to[k - 1] = Len(w) /\ M[k] = l BY <1>2, <2>1, <3>1
        <4>2. x[Len(x)] = "nl"
          <5>1. Len(l) + 1 \in 1..Len(u) /\ Len(x) = Len(w) + (Len(l) + 1) BY <1>2, <1>3, <1>4
          <5>2. QED BY <1>3, <1>4, <5>1
        <4>3. ASSUME NEW j \in 1..Len(l) PROVE x[Len(w) + j] = l[j]
          <5>1. j \in 1..Len(u) BY <1>2, <1>3
          <5>2. QED BY <1>3, <1>4, <5>1
        <4>4. Len(x) = Len(w) + Len(l) + 1 BY <1>2, <1>3, <1>4
        <4>5. QED BY <4>1, <4>2, <4>3, <4>4
      <3>2. CASE k \in 1..n
        <4>1. to[k] = off[k] /\ to[k - 1] = off[k - 1] /\ M[k] = L[k] BY <1>2, <3>2
        <4>2. /\ off[k] = off[k - 1] + Len(L[k]) + 1 /\ w[off[k]] = "nl"
              /\ \A j \in 1..Len(L[k]) : w[off[k - 1] + j] = L[k][j]
          BY <1>1, <3>2 DEF Ends, n
        <4>3. off[k] \in 0..Len(w) /\ off[k - 1] \in 0..Len(w) /\ Len(L[k]) \in Nat
          <5>1. k \in 0..n /\ k - 1 \in 0..n BY <1>2, <3>2
          <5>2. QED BY <1>2, <3>2, <5>1 DEF n
        <4>4. x[off[k]] = w[off[k]]
          <5>1. off[k] \in 1..Len(w) BY <1>4, <4>2, <4>3, SMTT(30)
          <5>2. QED BY <1>4, <5>1
        <4>5. ASSUME NEW j \in 1..Len(L[k]) PROVE x[off[k - 1] + j] = L[k][j]
          <5>1. off[k - 1] + j \in 1..Len(w)
            <6>1. j \in Nat /\ j >= 1 /\ j <= Len(L[k]) BY <4>3
            <6>2. off[k - 1] \in Nat /\ off[k] <= Len(w) BY <1>4, <4>3
            <6>3. \A a, b, m, z \in Nat : (b = a + m + 1 /\ b <= z /\ j <= m) => a + j \in 1..z BY <6>1
            <6>4. /\ off[k] = off[k - 1] + Len(L[k]) + 1 /\ off[k] \in Nat /\ Len(L[k]) \in Nat
                  /\ Len(w) \in Nat
              BY <1>2, <4>2, <4>3
            <6>5. QED BY <6>1, <6>2, <6>3, <6>4
          <5>2. x[off[k - 1] + j] = w[off[k - 1] + j] BY <1>4, <5>1
          <5>3. QED BY <4>2, <5>2
        <4> HIDE DEF to
        <4>6. Len(M[k]) = Len(L[k]) /\ x[off[k]] = "nl" BY <4>1, <4>2, <4>4
        <4>7. \A j \in 1..Len(M[k]) : x[to[k - 1] + j] = M[k][j] BY <4>1, <4>5
        <4>8. to[k] = to[k - 1] + Len(M[k]) + 1 BY <4>1, <4>2
        <4>9. x[to[k]] = "nl" BY <4>1, <4>6
        <4>10. QED BY <4>7, <4>8, <4>9
      <3>3. k = n + 1 \/ k \in 1..n BY <1>2
      <3> HIDE DEF to
      <3>4. QED BY <3>1, <3>2, <3>3
    <2>3. QED BY <2>1, <2>2 DEF Ends
  <1> HIDE DEF to
  <1>8. Spells(x, M) BY <1>6, <1>7 DEF Spells
  <1>9. QED BY <1>4, <1>5, <1>8 DEF x, u, M

\* getc: c has no newline, q follows it.  The line being read is the first.
Reading(c, q, L) ==
    /\ L # <<>> /\ Len(L[1]) <= STREAM_BUFF - 2
    /\ Head(q) # "nl" => Len(c) < Len(L[1])
    /\ Head(q) = "nl" => c = L[1] /\ Lines(Tail(L)) /\ Spells(Tail(q), Tail(L))

LEMMA ReadsFirst ==
    ASSUME NEW c \in Seq(Chars), Unended(c), NEW q \in Seq(Chars), q # <<>>,
           NEW L, Lines(L), Spells(c \o q, L)
    PROVE  Reading(c, q, L)
  <1> DEFINE w == c \o q
             n == Len(L)
  <1>1. PICK off \in [0..Len(L) -> 0..Len(w)] : Ends(off, w, L) BY DEF Spells
  <1>2. /\ Len(c) \in Nat /\ Len(q) \in Nat /\ Len(q) > 0 /\ n \in Nat
        /\ \A k \in 1..n : L[k] \in Seq(Chars) /\ Len(L[k]) \in Nat /\ Line(L[k])
    BY DEF Lines
  <1>3. /\ w \in Seq(Chars) /\ Len(w) \in Nat /\ Len(w) = Len(c) + Len(q)
        /\ \A i \in 1..Len(c) : w[i] = c[i]
        /\ \A i \in 1..Len(q) : w[Len(c) + i] = q[i]
    BY Joins DEF Joined
  <1> HIDE DEF w
  <1>4. /\ off[0] = 0 /\ off[n] = Len(w)
        /\ \A k \in 1..n : off[k] = off[k - 1] + Len(L[k]) + 1
        /\ \A k \in 1..n : w[off[k]] = "nl"
        /\ \A k \in 1..n : \A j \in 1..Len(L[k]) : w[off[k - 1] + j] = L[k][j]
    BY <1>1 DEF Ends
  <1>5. n >= 1 /\ 1 \in 1..n BY <1>2, <1>3, <1>4
  <1> DEFINE m == Len(L[1])
  <1>6. /\ m \in Nat /\ m <= STREAM_BUFF - 2 /\ off[1] = m + 1 /\ w[m + 1] = "nl"
        /\ \A j \in 1..m : w[j] = L[1][j] /\ L[1][j] # "nl"
    <2>1. Line(L[1]) /\ L[1] \in Seq(Chars) BY <1>2, <1>5
    <2>2. m \in Nat /\ m <= STREAM_BUFF - 2 BY <2>1 DEF Line
    <2>3. off[1] = off[0] + m + 1 BY <1>4, <1>5
    <2>4. off[1] = m + 1 BY <1>4, <2>2, <2>3
    <2>5. \A j \in 1..m : w[off[0] + j] = L[1][j] BY <1>4, <1>5
    <2>6. \A j \in 1..m : off[0] + j = j BY <1>4
    <2>7. w[off[1]] = "nl" BY <1>4, <1>5
    <2>8. \A j \in 1..m : L[1][j] # "nl" BY <2>1 DEF Line, Unended
    <2>9. QED BY <2>2, <2>4, <2>5, <2>6, <2>7, <2>8
  <1>7. m + 1 \in 1..Len(w)
    <2>1. off[1] \in 0..Len(w) BY <1>2, <1>5
    <2>2. QED BY <1>3, <1>6, <2>1
  <1>8. Len(c) < m + 1
    <2>1. SUFFICES ASSUME m + 1 <= Len(c) PROVE FALSE BY <1>2, <1>6
    <2>2. w[m + 1] = c[m + 1] /\ m + 1 \in 1..Len(c) BY <1>2, <1>3, <1>6, <1>7, <2>1
    <2>3. QED BY <1>6, <2>2 DEF Unended
  <1>9. w[Len(c) + 1] = Head(q) /\ Head(q) = q[1]
    <2>1. Head(q) = q[1] /\ 1 \in 1..Len(q) BY <1>2
    <2>2. QED BY <1>3, <2>1
  <1>10. L # <<>> BY <1>2, <1>5
  <1>11. ASSUME Head(q) # "nl" PROVE Len(c) < m
    <2>1. Len(c) + 1 # m + 1 BY <1>6, <1>9, <1>11
    <2>2. QED BY <1>2, <1>6, <1>8, <2>1
  <1>12. ASSUME Head(q) = "nl" PROVE c = L[1] /\ Lines(Tail(L)) /\ Spells(Tail(q), Tail(L))
    <2>1. Len(c) = m
      <3>1. ~(Len(c) + 1 <= m)
        <4>1. SUFFICES ASSUME Len(c) + 1 <= m PROVE FALSE OBVIOUS
        <4>2. Len(c) + 1 \in 1..m BY <1>2, <1>6, <4>1
        <4>3. w[Len(c) + 1] # "nl" BY <1>6, <4>2
        <4>4. QED BY <1>9, <1>12, <4>3
      <3>2. QED BY <1>2, <1>6, <1>8, <3>1
    <2>2. c = L[1]
      <3>1. ASSUME NEW i \in 1..Len(c) PROVE c[i] = L[1][i]
        <4>1. i \in 1..m BY <2>1
        <4>2. w[i] = c[i] /\ w[i] = L[1][i] BY <1>3, <1>6, <4>1
        <4>3. QED BY <4>2
      <3>2. L[1] \in Seq(Chars) BY <1>2, <1>5
      <3>3. QED BY <2>1, <3>1, <3>2, SeqEqual
    <2> DEFINE T == Tail(L)
               u == Tail(q)
               to == [k \in 0..(n - 1) |-> off[k + 1] - off[1]]
    <2>3. /\ T \in Seq(Seq(Chars)) /\ Len(T) = n - 1 /\ \A k \in 1..(n - 1) : T[k] = L[k + 1]
      <3>1. L \in Seq(Seq(Chars)) BY DEF Lines
      <3>2. QED BY <1>10, <3>1, HeadTailProperties
    <2>4. /\ u \in Seq(Chars) /\ Len(u) = Len(q) - 1 /\ \A k \in 1..(Len(q) - 1) : u[k] = q[k + 1]
      BY HeadTailProperties
    <2> HIDE DEF T, u
    <2>5. Lines(T)
      <3>1. ASSUME NEW k \in 1..Len(T) PROVE Line(T[k])
        <4>1. k + 1 \in 1..n /\ T[k] = L[k + 1] BY <1>2, <1>5, <2>3
        <4>2. QED BY <1>2, <4>1
      <3>2. QED BY <2>3, <3>1 DEF Lines
    <2>6. ASSUME NEW i \in 1..Len(u) PROVE u[i] = w[off[1] + i] /\ off[1] + i \in 1..Len(w)
      <3>1. i \in 1..(Len(q) - 1) /\ i + 1 \in 1..Len(q) BY <1>2, <2>4
      <3>2. off[1] + i = Len(c) + (i + 1)
        <4>1. off[1] = Len(c) + 1 /\ i \in Nat BY <1>6, <2>1
        <4>2. \A a \in Nat : (a + 1) + i = a + (i + 1) BY <4>1
        <4>3. QED BY <1>2, <4>1, <4>2
      <3>3. off[1] + i \in 1..Len(w) BY <1>2, <1>3, <3>1, <3>2
      <3>4. u[i] = q[i + 1] /\ w[Len(c) + (i + 1)] = q[i + 1] BY <1>3, <2>4, <3>1
      <3>5. QED BY <3>2, <3>3, <3>4
    <2>7. \A k \in 0..(n - 1) : /\ k + 1 \in 1..n /\ off[k + 1] \in 0..Len(w)
                                /\ off[k + 1] >= off[1]
      <3>1. \A k \in 0..n : off[k] \in 0..Len(w) BY <1>2, <1>3
      <3>2. \A k \in 0..(n - 1) : k + 1 \in 1..n /\ k + 1 \in 0..n BY <1>2, <1>5
      <3>3. ASSUME NEW k \in 0..(n - 1) PROVE off[k + 1] >= off[1]
        <4>1. CASE k = 0 BY <1>6, <4>1
        <4>2. CASE k # 0
          <5> DEFINE B == {i \in 1..n : ~(off[i] >= off[1])}
          <5>1. B = {}
            <6>1. SUFFICES ASSUME B # {} PROVE FALSE OBVIOUS
            <6>2. B \subseteq Nat OBVIOUS
            <6>3. PICK i \in B : \A y \in B : i <= y BY <6>1, <6>2, LeastNatural
            <6>4. i \in 1..n /\ i # 1 /\ ~(off[i] >= off[1]) BY <1>6, <6>3
            <6>5. i - 1 \in 1..n BY <1>2, <6>4
            <6>6. off[i - 1] >= off[1]
              <7>1. i - 1 \notin B BY <6>3, <6>4, <6>5
              <7>2. QED BY <6>5, <7>1
            <6>7. off[i] = off[i - 1] + Len(L[i]) + 1 /\ Len(L[i]) \in Nat BY <1>2, <1>4, <6>4
            <6>8. off[i] \in Nat /\ off[i - 1] \in Nat /\ off[1] \in Nat BY <1>2, <1>5, <3>1, <6>4, <6>5
            <6>9. QED BY <6>4, <6>6, <6>7, <6>8
          <5>2. QED BY <3>2, <5>1
        <4>3. QED BY <4>1, <4>2
      <3>4. QED BY <3>1, <3>2, <3>3
    <2>8. Len(u) = Len(w) - off[1] /\ off[1] \in Nat BY <1>2, <1>3, <1>6, <2>1, <2>4
    <2>9. to \in [0..Len(T) -> 0..Len(u)]
      <3>1. \A k \in 0..(n - 1) : off[k + 1] - off[1] \in 0..Len(u) BY <1>2, <1>3, <2>7, <2>8
      <3>2. QED BY <2>3, <3>1
    <2>10. Ends(to, u, T)
      <3>1. to[0] = 0 /\ to[n - 1] = Len(u)
        <4>1. 0 \in 0..(n - 1) /\ n - 1 \in 0..(n - 1) /\ (n - 1) + 1 = n BY <1>2, <1>5
        <4>2. to[0] = off[0 + 1] - off[1] /\ to[n - 1] = off[n] - off[1] BY <4>1
        <4>3. QED BY <1>4, <2>8, <4>2
      <3>2. ASSUME NEW k \in 1..Len(T)
            PROVE  /\ to[k] = to[k - 1] + Len(T[k]) + 1
                   /\ u[to[k]] = "nl"
                   /\ \A j \in 1..Len(T[k]) : u[to[k - 1] + j] = T[k][j]
        <4>1. /\ k \in 0..(n - 1) /\ k - 1 \in 0..(n - 1) /\ (k - 1) + 1 = k
              /\ k + 1 \in 1..n /\ k \in 1..n /\ T[k] = L[k + 1] /\ (k + 1) - 1 = k
          <5>1. k \in 1..(n - 1) BY <2>3
          <5>2. QED BY <1>2, <1>5, <2>3, <5>1
        <4>2. to[k] = off[k + 1] - off[1] /\ to[k - 1] = off[k] - off[1] BY <4>1
        <4>3. /\ w[off[k + 1]] = "nl"
              /\ \A j \in 1..Len(L[k + 1]) : w[off[k] + j] = L[k + 1][j]
          BY <1>4, <4>1
        <4>9. off[k + 1] = off[k] + Len(L[k + 1]) + 1 BY <1>4, <4>1
        <4>10. \A a, b, d, l, z \in Nat : (b = a + l + 1 /\ b <= z /\ a >= d) =>
                 /\ b - d \in 1..(z - d) /\ d + (b - d) = b
                 /\ b - d = (a - d) + l + 1
                 /\ \A j \in 1..l : (a - d) + j \in 1..(z - d) /\ d + ((a - d) + j) = a + j
          OBVIOUS
        <4>4. /\ off[k + 1] \in 0..Len(w) /\ off[k] \in 0..Len(w) /\ off[k] >= off[1] /\ Len(L[k + 1]) \in Nat
          BY <1>2, <2>7, <4>1
        <4>11. /\ off[k + 1] \in Nat /\ off[k] \in Nat /\ off[k] >= off[1] /\ off[1] \in Nat
               /\ off[k + 1] <= Len(w) /\ Len(w) \in Nat /\ Len(L[k + 1]) \in Nat
          BY <1>3, <2>8, <4>4
        <4> DEFINE a == off[k]
                   b == off[k + 1]
                   d == off[1]
                   l == Len(L[k + 1])
                   z == Len(w)
        <4>12. /\ b = a + l + 1 /\ b <= z /\ a >= d
               /\ a \in Nat /\ b \in Nat /\ d \in Nat /\ l \in Nat /\ z \in Nat
          BY <4>9, <4>11
        <4>13. to[k] = b - d /\ to[k - 1] = a - d /\ Len(u) = z - d /\ T[k] = L[k + 1] BY <2>8, <4>1, <4>2
        <4> HIDE DEF a, b, d, l, z, to
        <4>14. /\ b - d \in 1..(z - d) /\ d + (b - d) = b
               /\ b - d = (a - d) + l + 1
               /\ \A j \in 1..l : (a - d) + j \in 1..(z - d) /\ d + ((a - d) + j) = a + j
          BY <4>10, <4>12
        <4>5. to[k] = to[k - 1] + Len(T[k]) + 1 BY <4>13, <4>14 DEF l
        <4>6. u[to[k]] = "nl"
          <5>1. b - d \in 1..Len(u) BY <4>13, <4>14
          <5>2. u[b - d] = w[d + (b - d)] BY <2>6, <5>1 DEF d
          <5>3. w[b] = "nl" BY <4>3 DEF b
          <5>4. QED BY <4>13, <4>14, <5>2, <5>3
        <4>7. ASSUME NEW j \in 1..Len(T[k]) PROVE u[to[k - 1] + j] = T[k][j]
          <5>0. j \in 1..l BY <4>13 DEF l
          <5>1. (a - d) + j \in 1..Len(u) BY <4>13, <4>14, <5>0
          <5>2. u[(a - d) + j] = w[d + ((a - d) + j)] BY <2>6, <5>1 DEF d
          <5>3. w[a + j] = L[k + 1][j] BY <4>3, <5>0 DEF a, l
          <5>4. QED BY <4>13, <4>14, <5>0, <5>2, <5>3
        <4>8. QED BY <4>5, <4>6, <4>7
      <3>3. QED BY <2>3, <3>1, <3>2 DEF Ends
    <2> HIDE DEF to
    <2>11. Spells(u, T) BY <2>9, <2>10 DEF Spells
    <2>12. QED BY <2>2, <2>5, <2>11 DEF T, u
  <1>13. QED BY <1>6, <1>10, <1>11, <1>12 DEF Reading

-----------------------------------------------------------------------------
(* What is written to the stream *)

LEMMA Lesser ==
    ASSUME NEW a \in Int, NEW b \in Int
    PROVE  /\ Min({a, b}) \in {a, b} /\ Min({a, b}) <= a /\ Min({a, b}) <= b
  <1>1. \E x \in {a, b} : \A y \in {a, b} : x <= y
    <2>1. CASE a <= b BY <2>1
    <2>2. CASE ~(a <= b) BY <2>2
    <2>3. QED BY <2>1, <2>2
  <1>2. QED BY <1>1 DEF Min

\* What fits of a line goes to the ring, and a line that finds it empty fits.
Streamed(w, q, line) ==
    /\ w \in Seq(Chars) /\ Len(w) < STREAM_BUFF
    /\ Len(line) + Len(q) < STREAM_BUFF => w = q \o line
    /\ q = <<>> /\ Len(line) < STREAM_BUFF => w = line

LEMMA StreamWrites ==
    ASSUME NEW q \in Seq(Chars), Len(q) < STREAM_BUFF, NEW line \in Seq(Chars)
    PROVE  Streamed(stream_write(q, line), q, line)
  <1> DEFINE room == STREAM_BUFF - 1 - Len(q)
             m == Min({Len(line), room})
             u == SubSeq(line, 1, m)
             w == q \o u
  <1>1. w = stream_write(q, line) BY DEF stream_write
  <1>2. Len(q) \in Nat /\ Len(line) \in Nat /\ STREAM_BUFF \in Nat BY Numerals
  <1>3. room \in Nat BY <1>2
  <1>4. m \in {Len(line), room} /\ m <= Len(line) /\ m <= room
    <2>1. Len(line) \in Int /\ room \in Int BY <1>2, <1>3
    <2> HIDE DEF room
    <2>2. QED BY <2>1, Lesser
  <1> HIDE DEF m
  <1>5. m \in 0..Len(line) BY <1>2, <1>3, <1>4
  <1>6. u \in Seq(Chars) /\ Len(u) = m BY <1>2, <1>5
  <1>7. m = Len(line) => u = line BY <1>2, SubSeqFull
  <1> HIDE DEF u
  <1>8. w \in Seq(Chars) /\ Len(w) = Len(q) + m BY <1>6, ConcatProperties
  <1>9. Len(w) < STREAM_BUFF BY <1>2, <1>4, <1>5, <1>8
  <1>10. Len(line) + Len(q) < STREAM_BUFF => w = q \o line
    <2>1. Len(line) + Len(q) < STREAM_BUFF => m = Len(line) BY <1>2, <1>3, <1>4
    <2>2. QED BY <1>7, <2>1
  <1>11. ASSUME q = <<>>, Len(line) < STREAM_BUFF PROVE w = line
    <2>1. Len(q) = 0 BY <1>11
    <2>2. w = q \o line BY <1>2, <1>10, <1>11, <2>1
    <2>3. QED BY <1>11, <2>2, ConcatEmptySeq
  <1> HIDE DEF w
  <1>12. Streamed(w, q, line) BY <1>8, <1>9, <1>10, <1>11 DEF Streamed
  <1>13. QED BY <1>1, <1>12

\* getc: a character goes from the stream to the shell's line.
LEMMA PassesOn ==
    ASSUME NEW c \in Seq(Chars), NEW q \in Seq(Chars), q # <<>>
    PROVE  Append(c, Head(q)) \o Tail(q) = c \o q
  <1> DEFINE a == Append(c, Head(q))
             b == Tail(q)
             x == a \o b
             y == c \o q
  <1>1. Head(q) \in Chars /\ Head(q) = q[1] /\ Len(q) \in Nat /\ Len(q) >= 1 OBVIOUS
  <1>2. /\ a \in Seq(Chars) /\ Len(a) = Len(c) + 1 /\ a[Len(c) + 1] = q[1] /\ Len(c) \in Nat
        /\ \A i \in 1..Len(c) : a[i] = c[i]
    BY <1>1
  <1>3. /\ b \in Seq(Chars) /\ Len(b) = Len(q) - 1 /\ \A i \in 1..Len(b) : b[i] = q[i + 1]
    BY HeadTailProperties
  <1>4. Joined(x, a, b) /\ Joined(y, c, q) BY <1>2, <1>3, Joins
  <1> HIDE DEF a, b, x, y
  <1>5. x \in Seq(Chars) /\ y \in Seq(Chars) /\ Len(x) = Len(y) /\ Len(x) \in Nat
    BY <1>1, <1>2, <1>3, <1>4 DEF Joined
  <1>6. ASSUME NEW i \in 1..Len(x) PROVE x[i] = y[i]
    <2>0. Len(x) = Len(c) + Len(q) /\ Len(a) \in Nat /\ Len(b) \in Nat BY <1>4, <1>5 DEF Joined
    <2>1. CASE i <= Len(c)
      <3>1. i \in 1..Len(c) /\ i \in 1..Len(a) BY <1>2, <2>1
      <3>2. QED BY <1>2, <1>4, <3>1 DEF Joined
    <2>2. CASE i = Len(c) + 1
      <3>1. i \in 1..Len(a) /\ 1 \in 1..Len(q) BY <1>1, <1>2, <2>2
      <3>2. x[i] = a[i] /\ y[Len(c) + 1] = q[1] BY <1>4, <3>1 DEF Joined
      <3>3. QED BY <1>2, <2>2, <3>2
    <2>3. CASE i > Len(c) + 1
      <3> DEFINE j == i - (Len(c) + 1)
      <3>1. /\ j \in 1..Len(b) /\ j + 1 \in 1..Len(q) /\ i = Len(a) + j /\ i = Len(c) + (j + 1)
        BY <1>1, <1>2, <1>3, <2>0, <2>3
      <3> HIDE DEF j
      <3>2. x[Len(a) + j] = b[j] /\ y[Len(c) + (j + 1)] = q[j + 1] BY <1>4, <3>1 DEF Joined
      <3>3. QED BY <1>3, <3>1, <3>2
    <2>4. QED BY <1>2, <1>5, <2>1, <2>2, <2>3
  <1>7. x = y BY <1>5, <1>6, SeqEqual
  <1>8. QED BY <1>7 DEF x, y, a, b

-----------------------------------------------------------------------------
(* The invariant of the lines *)

Machines == {"on", "halted", "off", "lost"}

\* A live key table holds entries of one layout at least.
Copied == (SUBSET Layouts) \ {{}}
Copying == (half # <<>> /\ half[1] \in {"shift", "plain"}) => half[2] \in Layouts

LineType ==
    /\ current_tty \in Ttys /\ machine \in Machines
    /\ input_raw \in [Ttys -> Seq(Chars)] /\ \A t \in Ttys : Line(input_raw[t])
    /\ input \in [Ttys -> Seq(Chars)] /\ \A t \in Ttys : Len(input[t]) < STREAM_BUFF
    /\ shift_locked \in BOOLEAN /\ layout_of \in [BOOLEAN -> Copied] /\ Copying
    /\ cmd \in Seq(Chars) /\ Unended(cmd) /\ Len(cmd) < SIZE_MAX_CMD
    /\ out \in Seq(Printed)
    /\ power \in Powers

\* Until a line is cut, what is pending on a terminal are the lines typed there.
LineBook ==
    ~cut => /\ lines \in [Ttys -> Seq(Seq(Chars))]
            /\ \A t \in Ttys : Lines(lines[t]) /\ Spells(Pending(t), lines[t])

LineInv == LineType /\ LineBook

LEMMA CopiesOne ==
    ASSUME NEW l \in Layouts
    PROVE  {l} \in Copied /\ \A ls \in Copied : ls \cup {l} \in Copied
  <1>1. ASSUME NEW ls, ls \subseteq Layouts, l \in ls PROVE ls \in Copied
    <2>1. ls # {} BY <1>1
    <2>2. ls \in SUBSET Layouts /\ ls \notin {{}} BY <1>1, <2>1
    <2>3. QED BY <2>2 DEF Copied
  <1>2. {l} \subseteq Layouts /\ l \in {l} OBVIOUS
  <1>3. \A ls \in Copied : ls \cup {l} \subseteq Layouts /\ l \in ls \cup {l} BY DEF Copied
  <1>4. QED BY <1>1, <1>2, <1>3

LEMMA InitLines == Init => LineInv
  <1> SUFFICES ASSUME Init PROVE LineInv OBVIOUS
  <1>1. current_tty = 0 /\ 0 \in Ttys BY Numerals DEF Init, init_tty, Ttys
  <1>2. /\ input_raw = [t \in Ttys |-> <<>>] /\ input = [t \in Ttys |-> <<>>]
        /\ lines = [t \in Ttys |-> <<>>] /\ cmd = <<>>
    BY DEF Init, init_tty
  <1>3. Line(<<>>) BY Numerals DEF Line, Unended
  <1>4. Lines(<<>>)
    <2>1. <<>> \in Seq(Seq(Chars)) /\ Len(<<>>) = 0 OBVIOUS
    <2>2. QED BY <2>1 DEF Lines
  <1>5. LineType
    <2>1. out \in Seq(Printed) /\ Copying BY DEF Init, Printed, Copying
    <2>2. power \in Powers BY Numerals DEF Init, Powers, Stages
    <2>3. layout_of \in [BOOLEAN -> Copied] /\ shift_locked \in BOOLEAN
      <3>1. {"qwerty"} \in Copied
        <4>1. "qwerty" \in Layouts BY DEF Layouts
        <4>2. QED BY <4>1, CopiesOne
      <3>2. layout_of = [s \in BOOLEAN |-> {"qwerty"}] /\ shift_locked = FALSE BY DEF Init
      <3>3. QED BY <3>1, <3>2
    <2>4. cmd \in Seq(Chars) /\ Unended(cmd) /\ Len(cmd) < SIZE_MAX_CMD
      BY <1>2, Numerals DEF Unended
    <2>5. machine \in Machines BY DEF Init, Machines
    <2>6. /\ input \in [Ttys -> Seq(Chars)] /\ input_raw \in [Ttys -> Seq(Chars)]
          /\ \A t \in Ttys : Len(input[t]) < STREAM_BUFF
      BY <1>2, Numerals
    <2>7. \A t \in Ttys : Line(input_raw[t]) BY <1>2, <1>3
    <2>8. QED BY <1>1, <2>1, <2>2, <2>3, <2>4, <2>5, <2>6, <2>7 DEF LineType
  <1>6. LineBook
    <2>1. lines \in [Ttys -> Seq(Seq(Chars))] BY <1>2
    <2>2. ASSUME NEW t \in Ttys PROVE Lines(lines[t]) /\ Spells(Pending(t), lines[t])
      <3>1. input[t] = <<>> /\ lines[t] = <<>> BY <1>2
      <3>2. <<>> \o <<>> = <<>> OBVIOUS
      <3>3. Pending(t) = <<>> BY <1>2, <3>1, <3>2 DEF Pending
      <3>4. QED BY <1>4, <3>1, <3>3, SpellsNothing
    <2>3. QED BY <2>1, <2>2 DEF LineBook
  <1>7. QED BY <1>5, <1>6 DEF LineInv

\* What is pending stays a sequence of characters.
LEMMA PendingType ==
    ASSUME LineType, NEW t \in Ttys
    PROVE  Pending(t) \in Seq(Chars)
  <1>1. input[t] \in Seq(Chars) /\ cmd \in Seq(Chars) BY DEF LineType
  <1>2. cmd \o input[t] \in Seq(Chars) BY <1>1, ConcatProperties
  <1>3. QED BY <1>1, <1>2 DEF Pending

\* A step that leaves the streams and the shell's line alone.
LEMMA BookKept ==
    ASSUME LineBook, input' = input, lines' = lines, cut' = cut,
           current_tty' = current_tty, cmd' = cmd, Busy' <=> Busy
    PROVE  LineBook'
  <1>1. \A t \in Ttys : Pending(t)' = Pending(t) BY DEF Pending
  <1>2. QED BY <1>1 DEF LineBook

\* A store behind the screen puts no end of line into the line being typed.
LEMMA OverwritesLine ==
    ASSUME NEW line, Line(line), NEW K, NEW t, NEW c \in Chars
    PROVE  /\ Line(overwritten(line, Stored(K, t, c), c))
           /\ Len(overwritten(line, Stored(K, t, c), c)) = Len(line)
  <1> DEFINE cells == Stored(K, t, c)
             first == {2 * (index - VGA_WIDTH * VGA_HEIGHT) + 1 : index \in cells}
             e(i) == IF i \in first THEN IF c = "bs" THEN " " ELSE c
                     ELSE IF i - 1 \in first THEN "colour" ELSE line[i]
             n == Len(line)
             f == [i \in 1..n |-> e(i)]
  <1>1. line \in Seq(Chars) /\ n \in Nat /\ DOMAIN line = 1..n /\ Unended(line) /\ n <= STREAM_BUFF - 2
    BY DEF Line
  <1>2. overwritten(line, Stored(K, t, c), c) = f BY <1>1 DEF overwritten
  <1>3. c = "nl" => first = {} BY DEF Stored, Printable
  <1>4. " " \in Chars /\ "colour" \in Chars BY DEF Chars
  <1> HIDE DEF first
  <1>5. ASSUME NEW i \in 1..n PROVE e(i) \in Chars /\ e(i) # "nl"
    <2>1. line[i] \in Chars /\ line[i] # "nl" BY <1>1 DEF Unended
    <2>2. QED BY <1>3, <1>4, <2>1
  <1> HIDE DEF e
  <1>6. f \in [1..n -> Chars] /\ \A i \in 1..n : f[i] # "nl" BY <1>5
  <1> HIDE DEF f
  <1>7. f \in Seq(Chars) BY <1>1, <1>6, SeqDef
  <1> HIDE DEF n
  <1>8. Len(f) = n
    <2>1. Len(f) \in Nat /\ DOMAIN f = 1..Len(f) BY <1>7, LenProperties
    <2>2. 1..Len(f) = 1..n BY <1>6, <2>1
    <2>3. \A a, b \in Nat : 1..a = 1..b => a = b
      <3>1. ASSUME NEW a \in Nat, NEW b \in Nat, 1..a = 1..b PROVE ~(a > b)
        <4>1. a > b => a \in 1..a /\ a \notin 1..b OBVIOUS
        <4>2. QED BY <3>1, <4>1
      <3>2. QED BY <3>1
    <2>4. n \in Nat /\ Len(f) \in Nat BY <1>1, <2>1
    <2>5. QED BY <2>2, <2>3, <2>4
  <1>9. Unended(f) BY <1>6, <1>8 DEF Unended
  <1>10. Line(f) BY <1>1, <1>7, <1>8, <1>9 DEF Line
  <1>11. QED BY <1>2, <1>8, <1>10 DEF n

\* A store of a terminal: its line, and whether the machine goes on.
LEMMA StoreLines ==
    ASSUME LineType, NEW line, Line(line), NEW K, NEW c \in Chars,
           input_raw' = [input_raw EXCEPT ![current_tty] =
                            overwritten(line, Stored(K, current_tty, c), c)],
           machine' = machine_after(Stored(K, current_tty, c))
    PROVE  /\ input_raw' \in [Ttys -> Seq(Chars)] /\ \A t \in Ttys : Line(input_raw'[t])
           /\ Len(input_raw'[current_tty]) = Len(line)
           /\ \A t \in Ttys \ {current_tty} : input_raw'[t] = input_raw[t]
           /\ machine' \in Machines
  <1> DEFINE w == overwritten(line, Stored(K, current_tty, c), c)
  <1>1. Line(w) /\ Len(w) = Len(line) BY OverwritesLine
  <1>2. input_raw' = [input_raw EXCEPT ![current_tty] = w] OBVIOUS
  <1> HIDE DEF w
  <1>3. w \in Seq(Chars) BY <1>1 DEF Line
  <1>4. /\ current_tty \in Ttys /\ input_raw \in [Ttys -> Seq(Chars)] /\ machine \in Machines
        /\ \A t \in Ttys : Line(input_raw[t])
    BY DEF LineType
  <1>5. machine' \in Machines BY <1>4 DEF machine_after, Machines
  <1>6. QED BY <1>1, <1>2, <1>3, <1>4, <1>5

LEMMA EchoLines ==
    ASSUME LineType, NEW line, Line(line), NEW c \in Chars, echo(current_tty, c, line)
    PROVE  /\ input_raw' \in [Ttys -> Seq(Chars)] /\ \A t \in Ttys : Line(input_raw'[t])
           /\ Len(input_raw'[current_tty]) = Len(line)
           /\ \A t \in Ttys \ {current_tty} : input_raw'[t] = input_raw[t]
           /\ machine' \in Machines
  <1>1. /\ input_raw' = [input_raw EXCEPT ![current_tty] =
                            overwritten(line, Stored(con, current_tty, c), c)]
        /\ machine' = machine_after(Stored(con, current_tty, c))
    BY DEF echo
  <1>2. QED BY <1>1, StoreLines

\* The keyboard interrupt: the line of the terminal in front, and its stream.
LEMMA InputLines ==
    ASSUME LineInv, NEW c \in Chars, tty_input_char(current_tty, c),
           current_tty' = current_tty, cmd' = cmd, power' = power
    PROVE  /\ input_raw' \in [Ttys -> Seq(Chars)] /\ \A t \in Ttys : Line(input_raw'[t])
           /\ input' \in [Ttys -> Seq(Chars)] /\ \A t \in Ttys : Len(input'[t]) < STREAM_BUFF
           /\ machine' \in Machines /\ LineBook'
  <1> DEFINE tt == current_tty
             raw == input_raw[tt]
             n == Len(raw)
             line == Append(raw, c)
             whole == Len(line) + Len(input[tt]) < STREAM_BUFF
  <1>0. /\ tt \in Ttys /\ input_raw \in [Ttys -> Seq(Chars)] /\ \A t \in Ttys : Line(input_raw[t])
        /\ input \in [Ttys -> Seq(Chars)] /\ \A t \in Ttys : Len(input[t]) < STREAM_BUFF
        /\ LineType /\ LineBook
    BY DEF LineInv, LineType
  <1>1. raw \in Seq(Chars) /\ n \in Nat /\ n <= STREAM_BUFF - 2 /\ Unended(raw) /\ STREAM_BUFF \in Nat
    BY <1>0, Numerals DEF Line
  <1>2. Busy' <=> Busy BY DEF Busy
  <1>3. line \in Seq(Chars) /\ Len(line) = n + 1 /\ \A i \in 1..n : line[i] = raw[i]
    BY <1>1
  <1>4. line[n + 1] = c BY <1>1
  <1>5. CASE UNCHANGED <<con, terms, machine, lines, cut>>
    <2>1. input_raw' = input_raw /\ input' = input /\ lines' = lines /\ cut' = cut BY <1>5 DEF terms
    <2>2. machine' \in Machines BY <1>0, <1>5 DEF LineType
    <2>3. QED BY <1>0, <1>2, <2>1, <2>2, BookKept
  <1>6. CASE /\ c = "bs" /\ may_erase(n)
             /\ echo(tt, c, SubSeq(raw, 1, n - 1))
             /\ UNCHANGED <<input, lines, cut>>
    <2> DEFINE u == SubSeq(raw, 1, n - 1)
    <2>1. u \in Seq(Chars) /\ Len(u) = n - 1 /\ \A i \in 1..(n - 1) : u[i] = raw[i]
      BY <1>1, <1>6 DEF may_erase
    <2>2. echo(tt, c, u) BY <1>6
    <2> HIDE DEF u
    <2>3. Line(u) BY <1>1, <1>6, <2>1 DEF Line, Unended, may_erase
    <2>4. input' = input /\ lines' = lines /\ cut' = cut BY <1>6
    <2>5. /\ input_raw' \in [Ttys -> Seq(Chars)] /\ \A t \in Ttys : Line(input_raw'[t])
          /\ machine' \in Machines
      BY <1>0, <2>2, <2>3, EchoLines
    <2>6. QED BY <1>0, <1>2, <2>4, <2>5, BookKept
  <1>7. CASE /\ c \notin {"nul", "bs", "nl"} /\ room_in_line(n, c)
             /\ echo(tt, c, line)
             /\ UNCHANGED <<input, lines, cut>>
    <2>1. n + 1 <= STREAM_BUFF - 2 BY <1>1, <1>7 DEF room_in_line
    <2>2. Unended(line)
      <3>1. \A i \in 1..(n + 1) : i \in 1..n \/ i = n + 1 BY <1>1
      <3> HIDE DEF line
      <3>2. QED BY <1>1, <1>3, <1>4, <1>7, <3>1 DEF Unended
    <2> HIDE DEF line
    <2>3. Line(line) BY <1>3, <2>1, <2>2 DEF Line
    <2>4. input' = input /\ lines' = lines /\ cut' = cut /\ echo(tt, c, line) BY <1>7
    <2>5. /\ input_raw' \in [Ttys -> Seq(Chars)] /\ \A t \in Ttys : Line(input_raw'[t])
          /\ machine' \in Machines
      BY <1>0, <2>3, <2>4, EchoLines
    <2>6. QED BY <1>0, <1>2, <2>4, <2>5, BookKept
  <1>8. CASE /\ c = "nl" /\ room_in_line(n, c)
             /\ input' = [input EXCEPT ![tt] = stream_write(@, line)]
             /\ echo(tt, c, <<>>)
             /\ lines' = IF whole THEN [lines EXCEPT ![tt] = Append(@, raw)] ELSE lines
             /\ cut' = (cut \/ ~whole)
    <2> DEFINE q == input[tt]
               w == stream_write(q, line)
    <2>1. q \in Seq(Chars) /\ Len(q) < STREAM_BUFF BY <1>0
    <2>2. input' = [input EXCEPT ![tt] = w] BY <1>8
    <2>3. Streamed(w, q, line) BY <1>3, <2>1, StreamWrites
    <2> HIDE DEF w
    <2>4. Line(<<>>) BY Numerals DEF Line, Unended
    <2>5. /\ input_raw' \in [Ttys -> Seq(Chars)] /\ \A t \in Ttys : Line(input_raw'[t])
          /\ machine' \in Machines
      BY <1>0, <1>8, <2>4, EchoLines
    <2>6. input' \in [Ttys -> Seq(Chars)] /\ \A t \in Ttys : Len(input'[t]) < STREAM_BUFF
      BY <1>0, <2>2, <2>3 DEF Streamed
    <2>7. ASSUME ~cut'
          PROVE  /\ lines' \in [Ttys -> Seq(Seq(Chars))]
                 /\ \A t \in Ttys : Lines(lines'[t]) /\ Spells(Pending(t)', lines'[t])
      <3>1. ~cut /\ whole BY <1>8, <2>7
      <3>2. lines' = [lines EXCEPT ![tt] = Append(lines[tt], raw)] BY <1>8, <3>1
      <3>3. lines \in [Ttys -> Seq(Seq(Chars))] /\ \A t \in Ttys : Lines(lines[t]) /\ Spells(Pending(t), lines[t])
        BY <1>0, <3>1 DEF LineBook
      <3>4. w = q \o line BY <2>3, <3>1 DEF Streamed
      <3>5. Line(raw) BY <1>0
      <3>6. line = Append(raw, "nl") /\ "nl" \in Chars BY <1>8
      <3> DEFINE P == Pending(tt)
      <3>7. P \in Seq(Chars) BY <1>0, PendingType
      <3> HIDE DEF P, raw
      <3>8. /\ Spells(P \o Append(raw, "nl"), Append(lines[tt], raw)) /\ Lines(Append(lines[tt], raw))
        BY <1>0, <3>3, <3>5, <3>6, <3>7, SpellsOneMore DEF P
      <3> HIDE DEF line
      <3>9. Pending(tt)' = P \o line
        <4>1. input'[tt] = q \o line BY <1>0, <2>2, <3>4
        <4>2. (cmd \o q) \o line = cmd \o (q \o line)
          <5>1. cmd \in Seq(Chars) BY <1>0 DEF LineType
          <5> HIDE DEF q
          <5>2. QED BY <1>3, <2>1, <5>1, ConcatAssociative, SMTT(30)
        <4>3. QED BY <1>2, <4>1, <4>2 DEF P, Pending
      <3>10. ASSUME NEW t \in Ttys PROVE Lines(lines'[t]) /\ Spells(Pending(t)', lines'[t])
        <4>1. CASE t = tt
          <5>1. lines'[t] = Append(lines[tt], raw) BY <1>0, <3>2, <3>3, <4>1
          <5>2. QED BY <3>6, <3>8, <3>9, <4>1, <5>1
        <4>2. CASE t # tt
          <5>1. lines'[t] = lines[t] /\ input'[t] = input[t] BY <1>0, <2>2, <3>2, <3>3, <4>2
          <5>2. Pending(t)' = Pending(t) BY <4>2, <5>1 DEF Pending
          <5>3. QED BY <3>3, <5>1, <5>2
        <4>3. QED BY <4>1, <4>2
      <3>11. Append(lines[tt], raw) \in Seq(Seq(Chars)) BY <3>8 DEF Lines
      <3>12. lines' \in [Ttys -> Seq(Seq(Chars))] BY <3>2, <3>3, <3>11
      <3>13. QED BY <3>10, <3>12
    <2>8. LineBook' BY <2>7 DEF LineBook
    <2>9. QED BY <2>5, <2>6, <2>8
  <1>9. QED BY <1>5, <1>6, <1>7, <1>8 DEF tty_input_char

\* What a key gives the line editor.
LEMMA KeyInput ==
    ASSUME LineType, NEW key \in Keys \cup {"shift", "beyond"}, NEW released \in BOOLEAN,
           irq_keybord(key, released)
    PROVE  /\ \E c \in Chars : tty_input_char(current_tty, c)
           /\ UNCHANGED <<current_tty, layout_of, cmd, out, half, power>> /\ shift_locked' \in BOOLEAN
  <1> DEFINE cs == IF released \/ key = "shift" THEN {"nul"}
                   ELSE IF key = "beyond" THEN Beyond
                   ELSE {value_table[l][shift_locked][key] : l \in layout_of[shift_locked]}
  <1>1. PICK c \in cs : tty_input_char(current_tty, c)
    BY DEF irq_keybord, key_layout
  <1>2. c \in Chars
    <2>1. CASE released \/ key = "shift" BY <2>1 DEF Chars, Beyond
    <2>2. CASE ~(released \/ key = "shift") /\ key = "beyond" BY <2>2 DEF Chars
    <2>3. CASE ~(released \/ key = "shift") /\ key # "beyond"
      <3>1. key \in Keys BY <2>3
      <3>2. PICK l \in layout_of[shift_locked] : c = value_table[l][shift_locked][key] BY <2>3
      <3>3. shift_locked \in BOOLEAN /\ l \in Layouts BY <3>2 DEF LineType, Copied
      <3>4. c \in Char BY <3>1, <3>2, <3>3 DEF Char
      <3>5. QED BY <3>4 DEF Chars
    <2>4. QED BY <2>1, <2>2, <2>3
  <1>3. UNCHANGED <<current_tty, layout_of, cmd, out, half, power>> /\ shift_locked' \in BOOLEAN
    BY DEF irq_keybord, key_layout, shell, LineType
  <1> HIDE DEF cs
  <1>4. QED BY <1>1, <1>2, <1>3

LEMMA KeyLines ==
    ASSUME LineInv, NEW key \in Keys \cup {"shift", "beyond"}, NEW released \in BOOLEAN,
           irq_keybord(key, released)
    PROVE  LineInv'
  <1>0. LineType /\ LineBook BY DEF LineInv
  <1>1. PICK c \in Chars : tty_input_char(current_tty, c) BY <1>0, KeyInput
  <1>2. UNCHANGED <<current_tty, layout_of, cmd, out, half, power>> /\ shift_locked' \in BOOLEAN
    BY <1>0, KeyInput
  <1>3. /\ input_raw' \in [Ttys -> Seq(Chars)] /\ \A t \in Ttys : Line(input_raw'[t])
        /\ input' \in [Ttys -> Seq(Chars)] /\ \A t \in Ttys : Len(input'[t]) < STREAM_BUFF
        /\ machine' \in Machines /\ LineBook'
    BY <1>1, <1>2, InputLines
  <1>4. LineType' BY <1>0, <1>2, <1>3 DEF LineType, Copying
  <1>5. QED BY <1>3, <1>4 DEF LineInv

\* The steps of the shell in the middle of something that only draw.
Drawing == printk_step \/ printk_wrap \/ printk_scroll \/ printk_up \/ move_cursor \/ render_cell

LEMMA DrawingLeaves ==
    ASSUME Drawing
    PROVE  /\ UNCHANGED <<current_tty, terms, keyboard, cmd, out, power, machine, typed>>
           /\ Copying'
  <1>1. PICK K, next : Draws(K, next) /\ ~(next # <<>> /\ next[1] \in {"shift", "plain"})
    <2>1. CASE printk_step BY <2>1 DEF printk_step
    <2>2. CASE printk_wrap
      <3>1. \/ Draws(con, CursorNext(con))
            \/ Draws(NextRow(Column(con, current_tty, 0), current_tty), <<"scroll", "w">>)
        BY <2>2 DEF printk_wrap
      <3>2. QED BY <3>1 DEF CursorNext
    <2>3. ASSUME NEW K, NEW c, EndOfScroll(K, c)
          PROVE  \E M, next : Draws(M, next) /\ ~(next # <<>> /\ next[1] \in {"shift", "plain"})
      BY <2>3 DEF EndOfScroll, CursorNext
    <2>4. CASE printk_scroll
      <3>1. \/ EndOfScroll(con, half[2])
            \/ Draws(ScrolledUp(con, current_tty), <<"up", half[2]>>)
        BY <2>4 DEF printk_scroll
      <3>2. QED BY <2>3, <3>1
    <2>5. CASE printk_up BY <2>3, <2>5 DEF printk_up
    <2>6. CASE move_cursor BY <2>6 DEF move_cursor
    <2>7. CASE render_cell
      <3>1. PICK K : \/ Draws(K, <<"render", half[2] + 1>>) \/ Draws(K, CursorNext(K))
        BY <2>7 DEF render_cell
      <3>2. QED BY <3>1 DEF CursorNext
    <2>8. QED BY <2>1, <2>2, <2>4, <2>5, <2>6, <2>7 DEF Drawing
  <1>2. QED BY <1>1 DEF Draws, Drawn, terms, typed, Copying

\* The first access of printk to a terminal, a character stored or a row begun.
LEMMA FirstLines ==
    ASSUME LineType, printk_first
    PROVE  /\ input_raw' \in [Ttys -> Seq(Chars)] /\ \A t \in Ttys : Line(input_raw'[t])
           /\ \A t \in Ttys : Len(input_raw'[t]) = Len(input_raw[t])
           /\ machine' \in Machines /\ out' \in Seq(Printed) /\ Copying'
           /\ UNCHANGED <<current_tty, input, keyboard, cmd, power, typed>>
  <1> DEFINE t == current_tty
             c == Head(out)
  <1>1. out \in Seq(Printed) /\ out # <<>> /\ out' = Tail(out) BY DEF LineType, printk_first
  <1>2. c \in Printed /\ Tail(out) \in Seq(Printed) BY <1>1, HeadTailProperties
  <1>3. c \in Chars BY <1>2 DEF Chars
  <1>4. /\ t \in Ttys /\ input_raw \in [Ttys -> Seq(Chars)] /\ machine \in Machines
        /\ \A u \in Ttys : Line(input_raw[u])
    BY DEF LineType
  <1>5. UNCHANGED <<current_tty, input, keyboard, cmd, power, typed>> BY DEF printk_first, Drawn
  <1>6. /\ input_raw' \in [Ttys -> Seq(Chars)] /\ \A u \in Ttys : Line(input_raw'[u])
        /\ \A u \in Ttys : Len(input_raw'[u]) = Len(input_raw[u])
        /\ machine' \in Machines /\ Copying'
    <2>1. CASE c = "nl"
      <3>1. half' = <<"scroll", c>> /\ UNCHANGED <<input_raw, machine>> BY <2>1 DEF printk_first
      <3>2. QED BY <1>4, <3>1 DEF Copying
    <2>2. CASE c # "nl"
      <3>1. /\ half' = <<"step", con.column[t]>>
            /\ input_raw' = [input_raw EXCEPT ![t] = overwritten(input_raw[t], Stored(con, t, c), c)]
            /\ machine' = machine_after(Stored(con, t, c))
        BY <2>2 DEF printk_first
      <3>2. Copying' BY <3>1 DEF Copying
      <3>3. Line(input_raw[t]) BY <1>4
      <3> HIDE DEF c
      <3>4. /\ input_raw' \in [Ttys -> Seq(Chars)] /\ \A u \in Ttys : Line(input_raw'[u])
            /\ Len(input_raw'[t]) = Len(input_raw[t])
            /\ \A u \in Ttys \ {t} : input_raw'[u] = input_raw[u]
            /\ machine' \in Machines
        BY <1>3, <3>1, <3>3, StoreLines
      <3>5. ASSUME NEW u \in Ttys PROVE Len(input_raw'[u]) = Len(input_raw[u]) BY <3>4
      <3>6. QED BY <3>2, <3>4, <3>5
    <2>3. QED BY <2>1, <2>2
  <1>7. QED BY <1>1, <1>2, <1>5, <1>6

\* The two memcpy of set_layout.
LEMMA CopyLines ==
    ASSUME LineType, memcpy_shift \/ memcpy_plain
    PROVE  /\ layout_of' \in [BOOLEAN -> Copied] /\ Copying'
           /\ UNCHANGED <<con, current_tty, terms, shift_locked, cmd, out, power, machine, typed>>
  <1>1. half # <<>> /\ half[1] \in {"shift", "plain"} BY DEF memcpy_shift, memcpy_plain, InMiddle
  <1>2. layout_of \in [BOOLEAN -> Copied] /\ half[2] \in Layouts BY <1>1 DEF LineType, Copying
  <1>3. {half[2]} \in Copied /\ \A ls \in Copied : ls \cup {half[2]} \in Copied BY <1>2, CopiesOne
  <1>4. UNCHANGED <<con, current_tty, terms, shift_locked, cmd, out, power, machine, typed>>
    BY DEF memcpy_shift, memcpy_plain, Copies
  <1>5. CASE memcpy_shift
    <2>1. /\ layout_of' = [layout_of EXCEPT ![TRUE] = {half[2]}, ![FALSE] = @ \cup {half[2]}]
          /\ half' = <<"plain", half[2]>>
      BY <1>5 DEF memcpy_shift, Copies
    <2>2. layout_of' \in [BOOLEAN -> Copied] BY <1>2, <1>3, <2>1
    <2>3. Copying' BY <1>2, <2>1 DEF Copying
    <2>4. QED BY <1>4, <2>2, <2>3
  <1>6. CASE memcpy_plain
    <2>1. layout_of' = [layout_of EXCEPT ![FALSE] = {half[2]}] /\ half' = <<>>
      BY <1>6 DEF memcpy_plain, Copies
    <2>2. layout_of' \in [BOOLEAN -> Copied] BY <1>2, <1>3, <2>1
    <2>3. Copying' BY <2>1 DEF Copying
    <2>4. QED BY <1>4, <2>2, <2>3
  <1>7. QED BY <1>5, <1>6

LEMMA PrintLines ==
    ASSUME LineInv, printk_first \/ Drawing \/ memcpy_shift \/ memcpy_plain
    PROVE  LineInv'
  <1>0. LineType /\ LineBook BY DEF LineInv
  <1>1. LineType' /\ UNCHANGED <<current_tty, input, cmd, power, typed>>
    <2>1. CASE printk_first
      <3>1. /\ input_raw' \in [Ttys -> Seq(Chars)] /\ \A t \in Ttys : Line(input_raw'[t])
            /\ machine' \in Machines /\ out' \in Seq(Printed) /\ Copying'
            /\ UNCHANGED <<current_tty, input, keyboard, cmd, power, typed>>
        BY <1>0, <2>1, FirstLines
      <3>2. QED BY <1>0, <3>1 DEF LineType, keyboard
    <2>2. CASE Drawing
      <3>1. /\ UNCHANGED <<current_tty, terms, keyboard, cmd, out, power, machine, typed>>
            /\ Copying'
        BY <2>2, DrawingLeaves
      <3>2. QED BY <1>0, <3>1 DEF LineType, keyboard, terms
    <2>3. CASE memcpy_shift \/ memcpy_plain
      <3>1. /\ layout_of' \in [BOOLEAN -> Copied] /\ Copying'
            /\ UNCHANGED <<con, current_tty, terms, shift_locked, cmd, out, power, machine, typed>>
        BY <1>0, <2>3, CopyLines
      <3>2. QED BY <1>0, <3>1 DEF LineType, terms
    <2>4. QED BY <2>1, <2>2, <2>3
  <1>2. LineBook'
    <2>1. input' = input /\ lines' = lines /\ cut' = cut /\ current_tty' = current_tty /\ cmd' = cmd
      BY <1>1 DEF typed
    <2>2. Busy' <=> Busy BY <1>1 DEF Busy
    <2>3. QED BY <1>0, <2>1, <2>2, BookKept
  <1>3. QED BY <1>1, <1>2 DEF LineInv

\* The stream of the terminal in front after getc.
LEMMA GetcLines ==
    ASSUME LineInv, Reads, getc
    PROVE  /\ input[current_tty] \in Seq(Chars) /\ input[current_tty] # <<>> /\ ~Busy
           /\ Head(input[current_tty]) \in Chars
           /\ input' = [input EXCEPT ![current_tty] = Tail(input[current_tty])]
           /\ input' \in [Ttys -> Seq(Chars)] /\ \A t \in Ttys : Len(input'[t]) < STREAM_BUFF
           /\ ~cut => Reading(cmd, input[current_tty], lines[current_tty])
  <1> DEFINE q == input[current_tty]
  <1>0. LineType /\ LineBook BY DEF LineInv
  <1>1. current_tty \in Ttys /\ q \in Seq(Chars) /\ Len(q) < STREAM_BUFF BY <1>0 DEF LineType
  <1>2. q # <<>> /\ ~Busy BY DEF Reads
  <1>3. input' = [input EXCEPT ![current_tty] = Tail(q)] BY DEF getc
  <1>4. /\ Head(q) \in Chars /\ Tail(q) \in Seq(Chars) /\ Len(Tail(q)) = Len(q) - 1 /\ Len(q) \in Nat
    <2> HIDE DEF q
    <2>1. QED BY <1>1, <1>2, HeadTailProperties
  <1>5. Len(Tail(q)) < STREAM_BUFF BY <1>1, <1>4, Numerals
  <1>6. input' \in [Ttys -> Seq(Chars)] /\ \A t \in Ttys : Len(input'[t]) < STREAM_BUFF
    <2>1. input \in [Ttys -> Seq(Chars)] /\ \A t \in Ttys : Len(input[t]) < STREAM_BUFF BY <1>0 DEF LineType
    <2> HIDE DEF q
    <2>2. QED BY <1>1, <1>3, <1>4, <1>5, <2>1
  <1>7. ASSUME ~cut PROVE Reading(cmd, q, lines[current_tty])
    <2>1. Lines(lines[current_tty]) /\ Spells(Pending(current_tty), lines[current_tty])
      BY <1>0, <1>1, <1>7 DEF LineBook
    <2>2. Pending(current_tty) = cmd \o q BY <1>2 DEF Pending
    <2>3. cmd \in Seq(Chars) /\ Unended(cmd) BY <1>0 DEF LineType
    <2> HIDE DEF q
    <2>4. QED BY <1>1, <1>2, <2>1, <2>2, <2>3, ReadsFirst
  <1>8. QED BY <1>1, <1>2, <1>3, <1>4, <1>6, <1>7

LEMMA PushbackLines ==
    ASSUME LineInv, pushback_char
    PROVE  LineInv'
  <1> DEFINE tt == current_tty
             q == input[tt]
             L == lines[tt]
  <1>0. LineType /\ LineBook BY DEF LineInv
  <1>1. /\ q \in Seq(Chars) /\ q # <<>> /\ ~Busy /\ Head(q) \in Chars
        /\ input' = [input EXCEPT ![tt] = Tail(q)]
        /\ input' \in [Ttys -> Seq(Chars)] /\ \A t \in Ttys : Len(input'[t]) < STREAM_BUFF
        /\ ~cut => Reading(cmd, q, L)
    <2>1. Reads /\ getc BY DEF pushback_char
    <2>2. QED BY <2>1, GetcLines
  <1>2. /\ UNCHANGED <<current_tty, input_raw, keyboard, out, half, power, machine, typed>>
        /\ Head(q) # "nl"
        /\ cmd' = IF Len(cmd) + 1 = SIZE_MAX_CMD THEN cmd ELSE Append(cmd, Head(q))
    BY DEF pushback_char
  <1>3. cmd \in Seq(Chars) /\ Unended(cmd) /\ Len(cmd) < SIZE_MAX_CMD /\ Len(cmd) \in Nat /\ tt \in Ttys
        /\ input \in [Ttys -> Seq(Chars)]
    BY <1>0 DEF LineType
  <1> HIDE DEF q, L
  <1>4. cmd' \in Seq(Chars) /\ Unended(cmd') /\ Len(cmd') < SIZE_MAX_CMD
    <2>1. CASE Len(cmd) + 1 = SIZE_MAX_CMD BY <1>2, <1>3, <2>1
    <2>2. CASE Len(cmd) + 1 # SIZE_MAX_CMD
      <3> DEFINE a == Append(cmd, Head(q))
      <3>1. cmd' = a BY <1>2, <2>2
      <3>2. /\ a \in Seq(Chars) /\ Len(a) = Len(cmd) + 1 /\ a[Len(cmd) + 1] = Head(q)
            /\ \A i \in 1..Len(cmd) : a[i] = cmd[i]
        BY <1>1, <1>3
      <3> HIDE DEF a
      <3>3. \A i \in 1..(Len(cmd) + 1) : i \in 1..Len(cmd) \/ i = Len(cmd) + 1 BY <1>3
      <3>4. Unended(a) BY <1>2, <1>3, <3>2, <3>3 DEF Unended
      <3>5. Len(a) < SIZE_MAX_CMD BY <1>3, <2>2, <3>2, Numerals
      <3>6. QED BY <3>1, <3>2, <3>4, <3>5
    <2>3. QED BY <2>1, <2>2
  <1>5. LineType' BY <1>0, <1>1, <1>2, <1>4 DEF LineType, keyboard, Copying
  <1>6. ASSUME ~cut' PROVE \A t \in Ttys : Pending(t)' = Pending(t)
    <2>1. ~cut BY <1>2, <1>6 DEF typed
    <2>2. Len(cmd) + 1 # SIZE_MAX_CMD
      <3>1. Reading(cmd, q, L) BY <1>1, <2>1
      <3>2. L # <<>> /\ Len(L[1]) <= STREAM_BUFF - 2 /\ Len(cmd) < Len(L[1]) BY <1>2, <3>1 DEF Reading
      <3>3. Len(L[1]) \in Nat
        <4>1. Lines(L) BY <1>0, <1>3, <2>1 DEF LineBook, L
        <4>2. Len(L) \in Nat /\ Len(L) >= 1 BY <3>2, <4>1 DEF Lines
        <4>3. L[1] \in Seq(Chars) BY <4>1, <4>2 DEF Lines
        <4>4. QED BY <4>3
      <3>4. QED BY <1>3, <3>2, <3>3, Numerals
    <2>3. cmd' = Append(cmd, Head(q)) BY <1>2, <2>2
    <2>4. cmd' \o Tail(q) = cmd \o q BY <1>1, <1>3, <2>3, PassesOn
    <2>5. input'[tt] = Tail(q) /\ \A t \in Ttys \ {tt} : input'[t] = input[t] BY <1>1, <1>3
    <2>6. current_tty' = tt /\ ~Busy' BY <1>1, <1>2 DEF Busy
    <2>7. Pending(tt) = cmd \o q BY <1>1 DEF Pending, q
    <2>8. ASSUME NEW t \in Ttys PROVE Pending(t)' = Pending(t)
      <3>1. CASE t = tt
        <4>1. Pending(t)' = cmd' \o input'[t] BY <2>6, <3>1 DEF Pending
        <4>2. QED BY <2>4, <2>5, <2>7, <3>1, <4>1
      <3>2. CASE t # tt BY <2>5, <2>6, <3>2 DEF Pending
      <3>3. QED BY <3>1, <3>2
    <2>9. QED BY <2>8
  <1>7. LineBook'
    <2>1. lines' = lines /\ cut' = cut BY <1>2 DEF typed
    <2>2. QED BY <1>0, <1>6, <2>1 DEF LineBook
  <1>8. QED BY <1>5, <1>7 DEF LineInv

-----------------------------------------------------------------------------
(* The commands *)

\* What a command may do to the state it shares with the rest.
Commanded ==
    /\ current_tty' \in Ttys /\ machine' \in Machines
    /\ layout_of' \in [BOOLEAN -> Copied] /\ Copying' /\ out' \in Seq(Printed) /\ power' \in Powers

LEMMA Prints ==
    /\ Prompt \in Seq(Printed)
    /\ \A x \in Printed : <<x>> \o Prompt \in Seq(Printed)
    /\ \A x, y \in Printed : <<x, y>> \o Prompt \in Seq(Printed)
    /\ \A x, y, z \in Printed : <<x, y, z>> \o Prompt \in Seq(Printed)
  <1>1. Prompt \in Seq(Printed) BY DEF Prompt, Printed
  <1> HIDE DEF Prompt
  <1>2. ASSUME NEW x \in Printed PROVE <<x>> \o Prompt \in Seq(Printed)
    <2>1. <<x>> \in Seq(Printed) OBVIOUS
    <2>2. QED BY <1>1, <2>1, ConcatProperties
  <1>3. ASSUME NEW x \in Printed, NEW y \in Printed PROVE <<x, y>> \o Prompt \in Seq(Printed)
    <2>1. <<x, y>> \in Seq(Printed) OBVIOUS
    <2>2. QED BY <1>1, <2>1, ConcatProperties
  <1>4. ASSUME NEW x \in Printed, NEW y \in Printed, NEW z \in Printed
        PROVE  <<x, y, z>> \o Prompt \in Seq(Printed)
    <2>1. <<x, y, z>> \in Seq(Printed) OBVIOUS
    <2>2. QED BY <1>1, <2>1, ConcatProperties
  <1>5. QED BY <1>1, <1>2, <1>3, <1>4

LEMMA CommandTypes ==
    ASSUME LineType, half = <<>>,
           reboot \/ halt \/ switchtty_cmd \/ mem_debug \/ layout \/ acpiPowerOff \/ unknow_command
    PROVE  Commanded
  <1>0. /\ current_tty \in Ttys /\ machine \in Machines
        /\ layout_of \in [BOOLEAN -> Copied] /\ out \in Seq(Printed) /\ power \in Powers
    BY DEF LineType
  <1>h. half' = half => Copying' BY DEF Copying
  <1>p. "w" \in Printed /\ "nl" \in Printed /\ "unknow" \in Printed /\ Layouts \subseteq Printed
    BY DEF Printed
  <1>1. CASE reboot BY <1>0, <1>h, <1>1 DEF reboot, Commanded, Machines
  <1>2. CASE halt BY <1>0, <1>h, <1>2 DEF halt, Commanded, Machines
  <1>3. CASE switchtty_cmd
    <2>1. current_tty' \in Ttys
      <3>1. tty_number \in Nat
        <4>1. \A n \in DOMAIN Numbers : Numbers[n] \in Nat BY DEF Numbers
        <4> HIDE DEF Numbers
        <4>2. QED BY <4>1 DEF tty_number
      <3>2. CASE Len(cmd) >= 2 /\ cmd[2] \in Spaced /\ tty_number < MAX_TTY
        <4>1. current_tty' = tty_number BY <1>3, <3>2 DEF switchtty_cmd, switch_tty
        <4>2. QED BY <3>1, <3>2, <4>1, Numerals DEF Ttys
      <3>3. CASE ~(Len(cmd) >= 2 /\ cmd[2] \in Spaced /\ tty_number < MAX_TTY)
        BY <1>0, <1>3, <3>3 DEF switchtty_cmd
      <3>4. QED BY <3>2, <3>3
    <2>2. out' = Prompt /\ layout_of' = layout_of /\ power' = power /\ machine' = machine
      BY <1>3 DEF switchtty_cmd
    <2>3. half' = half \/ half' = <<"render", 0>> BY <1>3 DEF switchtty_cmd, switch_tty
    <2>4. Copying' BY <1>h, <2>3 DEF Copying
    <2>5. QED BY <1>0, <2>1, <2>2, <2>4, Prints DEF Commanded
  <1>4. CASE mem_debug
    <2>1. out' = <<"nl", "w", "nl">> \o Prompt BY <1>4 DEF mem_debug
    <2>2. out' \in Seq(Printed) BY <1>p, <2>1, Prints
    <2>3. QED BY <1>0, <1>h, <1>4, <2>2 DEF mem_debug, Commanded
  <1>5. CASE layout
    <2>1. layout_of' \in [BOOLEAN -> Copied] /\ Copying'
      <3>1. CASE Len(argument) = 1 /\ argument[1] \in Layouts
        <4> DEFINE name == argument[1]
        <4>1. /\ layout_of' = [layout_of EXCEPT ![TRUE] = @ \cup {name}] /\ half' = <<"shift", name>>
          BY <1>5, <3>1 DEF layout, set_layout
        <4>2. name \in Layouts BY <3>1
        <4> HIDE DEF name
        <4>3. \A ls \in Copied : ls \cup {name} \in Copied BY <4>2, CopiesOne
        <4>4. QED BY <1>0, <4>1, <4>2, <4>3 DEF Copying
      <3>2. CASE ~(Len(argument) = 1 /\ argument[1] \in Layouts) BY <1>0, <1>h, <1>5, <3>2 DEF layout
      <3>3. QED BY <3>1, <3>2
    <2>2. out' \in Seq(Printed)
      <3>1. get_layout \in Printed BY <1>p DEF get_layout
      <3>2. out' = <<get_layout>> \o Prompt \/ out' = <<"w", "nl">> \o Prompt BY <1>5 DEF layout
      <3>3. <<get_layout>> \o Prompt \in Seq(Printed) BY <3>1, Prints
      <3>4. <<"w", "nl">> \o Prompt \in Seq(Printed) BY <1>p, Prints
      <3>5. QED BY <3>2, <3>3, <3>4
    <2>3. QED BY <1>0, <1>5, <2>1, <2>2 DEF layout, Commanded
  <1>6. CASE acpiPowerOff
    <2>1. power' \in Powers
      <3>1. [power EXCEPT !.pc = "enable"] \in Powers BY <1>0 DEF Powers, Stages
      <3>2. QED BY <1>0, <1>6, <3>1 DEF acpiPowerOff
    <2>2. out' = <<>> \/ out' = Prompt BY <1>6 DEF acpiPowerOff
    <2>3. out' \in Seq(Printed)
      <3>1. Prompt \in Seq(Printed) BY Prints
      <3>2. <<>> \in Seq(Printed) OBVIOUS
      <3>3. QED BY <2>2, <3>1, <3>2
    <2>4. QED BY <1>0, <1>h, <1>6, <2>1, <2>3 DEF acpiPowerOff, Commanded
  <1>7. CASE unknow_command
    <2>1. out' = <<"w", "nl">> \o Prompt BY <1>7 DEF unknow_command
    <2>2. out' \in Seq(Printed) BY <1>p, <2>1, Prints
    <2>3. QED BY <1>0, <1>h, <1>7, <2>2 DEF unknow_command, Commanded
  <1>8. QED BY <1>1, <1>2, <1>3, <1>4, <1>5, <1>6, <1>7

\* clear_cmd, or a line that is kept.
LEMMA CommandLine ==
    ASSUME LineType, cmd' = <<>> \/ cmd' = cmd
    PROVE  cmd' \in Seq(Chars) /\ Unended(cmd') /\ Len(cmd') < SIZE_MAX_CMD
  <1>1. CASE cmd' = cmd BY <1>1 DEF LineType
  <1>2. CASE cmd' = <<>>
    <2>1. <<>> \in Seq(Chars) /\ Len(<<>>) = 0 OBVIOUS
    <2>2. Unended(<<>>) BY <2>1 DEF Unended
    <2>3. 0 < SIZE_MAX_CMD BY Numerals
    <2>4. QED BY <1>2, <2>1, <2>2, <2>3
  <1>3. QED BY <1>1, <1>2

LEMMA ExecLines ==
    ASSUME LineInv, exec_cmd
    PROVE  LineInv'
  <1> DEFINE tt == current_tty
             q == input[tt]
             L == lines[tt]
  <1>0. LineType /\ LineBook /\ tt \in Ttys BY DEF LineInv, LineType
  <1>1. /\ q \in Seq(Chars) /\ q # <<>> /\ ~Busy
        /\ input' = [input EXCEPT ![tt] = Tail(q)]
        /\ input' \in [Ttys -> Seq(Chars)] /\ \A t \in Ttys : Len(input'[t]) < STREAM_BUFF
        /\ ~cut => Reading(cmd, q, L)
    <2>1. Reads /\ getc BY DEF exec_cmd
    <2>2. QED BY <2>1, GetcLines
  <1>2. /\ UNCHANGED <<input_raw, shift_locked, cut>>
        /\ Head(q) = "nl" /\ lines' = [lines EXCEPT ![tt] = Tail(L)]
        /\ cmd' = IF power'.pc = "idle" THEN <<>> ELSE cmd
        /\ reboot \/ halt \/ switchtty_cmd \/ mem_debug \/ layout \/ acpiPowerOff \/ unknow_command
    BY DEF exec_cmd, clear_cmd
  <1>3. Commanded
    <2>1. half = <<>> BY DEF exec_cmd, Reads
    <2>2. QED BY <1>0, <1>2, <2>1, CommandTypes
  <1> HIDE DEF q, L
  <1>4. LineType'
    <2>1. cmd' = cmd \/ cmd' = <<>> BY <1>2
    <2>2. cmd' \in Seq(Chars) /\ Unended(cmd') /\ Len(cmd') < SIZE_MAX_CMD
      BY <1>0, <2>1, CommandLine
    <2>3. QED BY <1>0, <1>1, <1>2, <1>3, <2>2 DEF LineType, Commanded
  <1>5. ASSUME ~cut'
        PROVE  /\ lines' \in [Ttys -> Seq(Seq(Chars))]
               /\ \A t \in Ttys : Lines(lines'[t]) /\ Spells(Pending(t)', lines'[t])
    <2>1. /\ ~cut /\ lines \in [Ttys -> Seq(Seq(Chars))]
          /\ \A t \in Ttys : Lines(lines[t]) /\ Spells(Pending(t), lines[t])
      BY <1>0, <1>2, <1>5 DEF LineBook
    <2>2. Lines(Tail(L)) /\ Spells(Tail(q), Tail(L)) BY <1>1, <1>2, <2>1 DEF Reading
    <2>3. lines' \in [Ttys -> Seq(Seq(Chars))]
      <3>1. Tail(L) \in Seq(Seq(Chars)) BY <2>2 DEF Lines
      <3>2. QED BY <1>2, <2>1, <3>1
    <2>4. ASSUME NEW t \in Ttys PROVE Pending(t)' = input'[t]
      <3>1. CASE ~Busy'
        <4>1. cmd' = <<>> BY <1>2, <3>1 DEF Busy
        <4>2. input'[t] \in Seq(Chars) BY <1>1
        <4>3. <<>> \o input'[t] = input'[t] BY <4>2, ConcatEmptySeq
        <4>4. QED BY <4>1, <4>3 DEF Pending
      <3>2. CASE Busy' BY <3>2 DEF Pending
      <3>3. QED BY <3>1, <3>2
    <2>5. ASSUME NEW t \in Ttys PROVE Lines(lines'[t]) /\ Spells(Pending(t)', lines'[t])
      <3>1. CASE t = tt
        <4>1. lines'[t] = Tail(L) /\ input'[t] = Tail(q)
          <5>1. input \in [Ttys -> Seq(Chars)] BY <1>0 DEF LineType
          <5>2. QED BY <1>0, <1>1, <1>2, <2>1, <3>1, <5>1
        <4>2. QED BY <2>2, <2>4, <4>1
      <3>2. CASE t # tt
        <4>1. lines'[t] = lines[t] /\ input'[t] = input[t]
          <5>1. input \in [Ttys -> Seq(Chars)] BY <1>0 DEF LineType
          <5>2. QED BY <1>1, <1>2, <2>1, <3>2, <5>1
        <4>2. Pending(t) = input[t] BY <3>2 DEF Pending
        <4>3. QED BY <2>1, <2>4, <4>1, <4>2
      <3>3. QED BY <3>1, <3>2
    <2>6. QED BY <2>3, <2>5
  <1>6. LineBook' BY <1>5 DEF LineBook
  <1>7. QED BY <1>4, <1>6 DEF LineInv

\* The power-off sequence keeps the shell waiting, its line is not pending.
LEMMA PowerLines ==
    ASSUME LineInv, acpiEnable \/ poll_a \/ poll_b \/ outw_slp
    PROVE  LineInv'
  <1>0. LineType /\ LineBook BY DEF LineInv
  <1>1. /\ PowerLeaves /\ Busy
    BY DEF acpiEnable, poll_a, poll_b, poll, outw_slp, InPower, Busy
  <1>2. power \in Powers /\ out \in Seq(Printed) /\ MAX_POLL \in Nat BY <1>0, Numerals DEF LineType
  <1>3. /\ power' \in Powers /\ machine' \in Machines
        /\ out' \in Seq(Printed)
        /\ cmd' = <<>> \/ (cmd' = cmd /\ Busy')
    <2>a. machine \in Machines BY <1>0 DEF LineType
    <2>b. /\ <<"w", "nl">> \in Seq(Printed) /\ <<>> \in Seq(Printed)
          /\ <<"w", "nl">> \o Prompt \in Seq(Printed)
      <3>1. "w" \in Printed /\ "nl" \in Printed BY DEF Printed
      <3>2. <<"w", "nl">> \o Prompt \in Seq(Printed) BY <3>1, Prints
      <3>3. QED BY <3>1, <3>2
    <2>1. CASE acpiEnable
      <3>1. \/ power' = [power EXCEPT !.pc = "outw"] /\ out' = <<"w", "nl">>
            \/ power' = [power EXCEPT !.pc = "poll_a", !.i = 0, !.smi = TRUE] /\ out' = <<>>
        BY <2>1 DEF acpiEnable
      <3>2. power' \in Powers /\ Busy'
        <4>1. CASE power' = [power EXCEPT !.pc = "outw"] BY <1>2, <4>1 DEF Powers, Stages, Busy
        <4>2. CASE power' = [power EXCEPT !.pc = "poll_a", !.i = 0, !.smi = TRUE]
          <5>1. 0 \in 0..MAX_POLL BY <1>2
          <5>2. QED BY <1>2, <4>2, <5>1 DEF Powers, Stages, Busy
        <4>3. QED BY <3>1, <4>1, <4>2
      <3>3. QED BY <2>1, <2>a, <2>b, <3>1, <3>2 DEF acpiEnable
    <2>2. ASSUME NEW port, NEW next \in Stages \ {"idle"}, poll(port, next)
          PROVE  /\ power' \in Powers /\ machine' \in Machines
                 /\ out' \in Seq(Printed) /\ cmd' = cmd /\ Busy'
      <3>1. \/ /\ power' = [power EXCEPT !.pc = next]
               /\ out' = <<"w", "nl">> \/ out' = <<>>
            \/ /\ power.i < MAX_POLL /\ power' = [power EXCEPT !.i = power.i + 1] /\ out' = out
        BY <2>2 DEF poll
      <3>2. power' \in Powers /\ Busy'
        <4>1. CASE power' = [power EXCEPT !.pc = next] BY <1>2, <2>2, <4>1 DEF Powers, Stages, Busy
        <4>2. CASE power.i < MAX_POLL /\ power' = [power EXCEPT !.i = power.i + 1]
          <5>1. power.i + 1 \in 0..MAX_POLL BY <1>2, <4>2 DEF Powers
          <5>2. QED BY <1>1, <1>2, <4>2, <5>1 DEF Powers, Busy
        <4>3. QED BY <3>1, <4>1, <4>2
      <3>3. out' \in Seq(Printed) BY <1>2, <2>b, <3>1
      <3>4. cmd' = cmd /\ machine' = machine BY <2>2 DEF poll
      <3>5. QED BY <2>a, <3>2, <3>3, <3>4
    <2>3. CASE poll_a
      <3>1. "poll_b" \in Stages \ {"idle"} /\ "outw" \in Stages \ {"idle"} BY DEF Stages
      <3>2. CASE acpi.PM1b
        <4>1. poll("a", "poll_b") BY <2>3, <3>2 DEF poll_a
        <4>2. QED BY <2>2, <3>1, <4>1
      <3>3. CASE ~acpi.PM1b
        <4>1. poll("a", "outw") BY <2>3, <3>3 DEF poll_a
        <4>2. QED BY <2>2, <3>1, <4>1
      <3>4. QED BY <3>2, <3>3
    <2>4. CASE poll_b
      <3>1. "outw" \in Stages \ {"idle"} /\ poll("b", "outw") BY <2>4 DEF Stages, poll_b
      <3>2. QED BY <2>2, <3>1
    <2>5. CASE outw_slp
      <3>1. CASE machine' = "off" /\ UNCHANGED <<power, cmd, out>>
        BY <1>1, <1>2, <3>1 DEF Busy, Machines
      <3>2. CASE /\ power' = [power EXCEPT !.pc = "idle"]
                 /\ cmd' = clear_cmd(cmd) /\ out' = <<"w", "nl">> \o Prompt
                 /\ UNCHANGED machine
        <4>1. power' \in Powers BY <1>2, <3>2 DEF Powers, Stages
        <4>2. cmd' = <<>> BY <3>2 DEF clear_cmd
        <4>3. QED BY <2>a, <2>b, <3>2, <4>1, <4>2
      <3>3. QED BY <2>5, <3>1, <3>2 DEF outw_slp
    <2>6. QED BY <2>1, <2>3, <2>4, <2>5
  <1>4. LineType'
    <2>1. cmd' \in Seq(Chars) /\ Unended(cmd') /\ Len(cmd') < SIZE_MAX_CMD
      BY <1>0, <1>3, CommandLine
    <2>2. QED BY <1>0, <1>1, <1>3, <2>1 DEF LineType, PowerLeaves, terms, keyboard, Copying
  <1>5. LineBook'
    <2>1. input' = input /\ lines' = lines /\ cut' = cut /\ current_tty' = current_tty
      BY <1>1 DEF PowerLeaves, terms, typed
    <2>2. ASSUME NEW t \in Ttys PROVE Pending(t)' = Pending(t)
      <3>1. Pending(t) = input[t] BY <1>1 DEF Pending
      <3>2. CASE cmd' = <<>>
        <4>1. input[t] \in Seq(Chars) BY <1>0 DEF LineType
        <4>2. <<>> \o input[t] = input[t] BY <4>1, ConcatEmptySeq
        <4>3. QED BY <2>1, <3>1, <3>2, <4>2 DEF Pending
      <3>3. CASE Busy' BY <2>1, <3>1, <3>3 DEF Pending
      <3>4. QED BY <1>3, <3>2, <3>3
    <2>3. QED BY <1>0, <2>1, <2>2 DEF LineBook
  <1>6. QED BY <1>4, <1>5 DEF LineInv

LEMMA SciLines ==
    ASSUME LineInv, NEW port \in {"a", "b"}, sci_enabled(port)
    PROVE  LineInv'
  <1>0. LineType /\ LineBook BY DEF LineInv
  <1>1. power' = [power EXCEPT !.sci = power.sci \cup {port}] BY DEF sci_enabled
  <1>2. power' \in Powers /\ (Busy' <=> Busy) BY <1>0, <1>1 DEF LineType, Powers, Busy
  <1>3. UNCHANGED <<current_tty, terms, keyboard, shell, machine, typed>> BY DEF sci_enabled
  <1>4. LineType' BY <1>0, <1>2, <1>3 DEF LineType, terms, keyboard, shell, Copying
  <1>5. LineBook' BY <1>0, <1>2, <1>3, BookKept DEF terms, shell, typed
  <1>6. QED BY <1>4, <1>5 DEF LineInv

LEMMA StutterLines ==
    ASSUME LineInv, UNCHANGED vars
    PROVE  LineInv'
  <1>0. LineType /\ LineBook BY DEF LineInv
  <1>1. LineType' BY <1>0 DEF LineType, vars, Copying
  <1>2. Busy' <=> Busy BY DEF Busy, vars
  <1>3. LineBook' BY <1>0, <1>2, BookKept DEF vars
  <1>4. QED BY <1>1, <1>3 DEF LineInv

LEMMA NextLines == LineInv /\ [Next]_vars => LineInv'
  <1> SUFFICES ASSUME LineInv, [Next]_vars PROVE LineInv' OBVIOUS
  <1>1. ASSUME NEW key \in Keys \cup {"shift", "beyond"}, NEW released \in BOOLEAN, irq_keybord(key, released)
        PROVE  LineInv'
    BY <1>1, KeyLines
  <1>2. CASE printk_first \/ Drawing \/ memcpy_shift \/ memcpy_plain BY <1>2, PrintLines
  <1>3. CASE pushback_char BY <1>3, PushbackLines
  <1>4. CASE exec_cmd BY <1>4, ExecLines
  <1>5. CASE acpiEnable \/ poll_a \/ poll_b \/ outw_slp BY <1>5, PowerLines
  <1>6. ASSUME NEW port \in {"a", "b"}, sci_enabled(port) PROVE LineInv' BY <1>6, SciLines
  <1>7. CASE UNCHANGED vars BY <1>7, StutterLines
  <1>8. QED BY <1>1, <1>2, <1>3, <1>4, <1>5, <1>6, <1>7
        DEF Next, Shell, Drawing, Stopped, Waiting

LEMMA LinesInvariant == ConsoleSpec => []LineInv
  <1>1. QED BY InitLines, NextLines, PTL DEF ConsoleSpec

\* tty_input_char, stream_write: a line that finds the terminal's stream empty
\* gets there whole, its newline at the end.
THEOREM LinesArriveWhole == ConsoleSpec => WholeLine
  <1> DEFINE A == \A t \in Ttys : (input[t] = <<>> /\ input'[t] # <<>>) => Last(input'[t]) = "nl"
  <1>1. LineInv /\ [Next]_vars => [A]_vars
    <2> SUFFICES ASSUME LineInv, Next, NEW t \in Ttys, input[t] = <<>>, input'[t] # <<>>
                 PROVE  Last(input'[t]) = "nl"
      OBVIOUS
    <2>0. LineType /\ LineBook BY DEF LineInv
    <2>1. ASSUME NEW key, NEW released, irq_keybord(key, released)
          PROVE  Last(input'[t]) = "nl"
      <3>1. PICK c : tty_input_char(current_tty, c) BY <2>1 DEF irq_keybord, key_layout
      <3> DEFINE tt == current_tty
                 raw == input_raw[tt]
                 n == Len(raw)
                 line == Append(raw, c)
      <3>2. tt \in Ttys /\ raw \in Seq(Chars) /\ n \in Nat /\ input \in [Ttys -> Seq(Chars)]
            /\ STREAM_BUFF \in Nat
        BY <2>0, Numerals DEF LineType
      <3>3. CASE input' = input BY <3>3
      <3>4. CASE c = "nl" /\ room_in_line(n, c) /\ input' = [input EXCEPT ![tt] = stream_write(@, line)]
        <4>1. t = tt BY <3>2, <3>4
        <4>2. n + 1 < STREAM_BUFF BY <3>2, <3>4 DEF room_in_line
        <4>3. "nl" \in Chars BY DEF Chars, Beyond
        <4>4. line \in Seq(Chars) /\ Len(line) = n + 1 /\ line[n + 1] = "nl" BY <3>2, <3>4, <4>3
        <4>5. input'[t] = stream_write(<<>>, line) BY <3>2, <3>4, <4>1
        <4> HIDE DEF line
        <4>6. Streamed(stream_write(<<>>, line), <<>>, line)
          <5>1. <<>> \in Seq(Chars) /\ Len(<<>>) < STREAM_BUFF BY Numerals
          <5>2. QED BY <4>4, <5>1, StreamWrites
        <4>7. input'[t] = line BY <4>2, <4>4, <4>5, <4>6 DEF Streamed
        <4>8. QED BY <4>4, <4>7 DEF Last
      <3>5. QED BY <3>1, <3>3, <3>4 DEF tty_input_char, terms
    <2>2. CASE pushback_char \/ exec_cmd
      <3>1. getc /\ input[current_tty] # <<>> BY <2>2 DEF pushback_char, exec_cmd, Reads
      <3>2. input'[t] = input[t] BY <2>0, <3>1 DEF getc, LineType
      <3>3. QED BY <3>2
    <2>3. CASE printk_first \/ Drawing \/ memcpy_shift \/ memcpy_plain
      <3>1. input' = input BY <2>0, <2>3, FirstLines, DrawingLeaves, CopyLines DEF terms
      <3>2. QED BY <3>1
    <2>4. CASE acpiEnable \/ poll_a \/ poll_b \/ outw_slp
      BY <2>4 DEF acpiEnable, poll_a, poll_b, poll, outw_slp, PowerLeaves, terms
    <2>5. ASSUME NEW port, sci_enabled(port) PROVE Last(input'[t]) = "nl"
      BY <2>5 DEF sci_enabled, terms
    <2>6. CASE UNCHANGED vars BY <2>6 DEF vars
    <2>7. QED BY <2>1, <2>2, <2>3, <2>4, <2>5, <2>6
          DEF Next, Shell, Drawing, Stopped, Waiting
  <1>2. QED BY <1>1, LinesInvariant, PTL DEF ConsoleSpec, WholeLine

\* getc, exec_cmd, tty_putentryat: until a line is cut or a store falls behind the
\* screen, where the line being typed lies, the line the shell runs is the oldest
\* one typed on the terminal in front, with keys at any moment.
THEOREM ShellRunsWhatWasTyped == ConsoleSpec => RunsWhatWasTyped
  <1> DEFINE A == \A t \in Ttys : (lines'[t] # lines[t] /\ Len(lines'[t]) < Len(lines[t]) /\ ~cut /\ ~con.wild)
                      => t = current_tty /\ cmd = Head(lines[t])
  <1>1. LineInv /\ [Next]_vars => [A]_vars
    <2> SUFFICES ASSUME LineInv, Next, NEW t \in Ttys,
                        lines'[t] # lines[t], Len(lines'[t]) < Len(lines[t]), ~cut
                 PROVE  t = current_tty /\ cmd = Head(lines[t])
      OBVIOUS
    <2>0. /\ LineType /\ LineBook /\ current_tty \in Ttys
          /\ lines \in [Ttys -> Seq(Seq(Chars))] /\ input_raw \in [Ttys -> Seq(Chars)]
      BY DEF LineInv, LineType, LineBook
    <2>1. ASSUME NEW key, NEW released, irq_keybord(key, released) PROVE FALSE
      <3>1. PICK c : tty_input_char(current_tty, c) BY <2>1 DEF irq_keybord, key_layout
      <3>2. \/ lines' = lines
            \/ lines' = [lines EXCEPT ![current_tty] = Append(@, input_raw[current_tty])]
        BY <3>1 DEF tty_input_char
      <3>3. CASE lines' = [lines EXCEPT ![current_tty] = Append(@, input_raw[current_tty])]
        <4>1. t = current_tty /\ lines'[t] = Append(lines[t], input_raw[t]) BY <2>0, <3>3
        <4>2. lines[t] \in Seq(Seq(Chars)) /\ input_raw[t] \in Seq(Chars) BY <2>0
        <4>3. Len(lines'[t]) = Len(lines[t]) + 1 /\ Len(lines[t]) \in Nat BY <4>1, <4>2
        <4>4. QED BY <4>3
      <3>4. QED BY <3>2, <3>3
    <2>2. CASE exec_cmd
      <3> DEFINE q == input[current_tty]
                 L == lines[current_tty]
      <3>1. Reads /\ getc /\ Head(q) = "nl" /\ lines' = [lines EXCEPT ![current_tty] = Tail(L)]
        BY <2>2 DEF exec_cmd
      <3>2. t = current_tty BY <2>0, <3>1
      <3>3. Reading(cmd, q, L) BY <3>1, GetcLines
      <3>4. cmd = L[1] /\ L # <<>> BY <3>1, <3>3 DEF Reading
      <3>5. L \in Seq(Seq(Chars)) BY <2>0
      <3> HIDE DEF q, L
      <3>6. Head(L) = L[1] BY <3>4, <3>5
      <3>7. QED BY <3>2, <3>4, <3>6 DEF L
    <2>3. CASE printk_first \/ Drawing \/ memcpy_shift \/ memcpy_plain \/ pushback_char
      <3>1. lines' = lines BY <2>0, <2>3, FirstLines, DrawingLeaves, CopyLines DEF pushback_char, typed
      <3>2. QED BY <3>1
    <2>4. CASE acpiEnable \/ poll_a \/ poll_b \/ outw_slp
      BY <2>4 DEF acpiEnable, poll_a, poll_b, poll, outw_slp, PowerLeaves, typed
    <2>5. ASSUME NEW port, sci_enabled(port) PROVE FALSE BY <2>5 DEF sci_enabled, typed
    <2>6. CASE UNCHANGED vars BY <2>6 DEF vars
    <2>7. QED BY <2>1, <2>2, <2>3, <2>4, <2>5, <2>6
          DEF Next, Shell, Drawing, Stopped, Waiting
  <1>2. QED BY <1>1, LinesInvariant, PTL DEF ConsoleSpec, RunsWhatWasTyped

-----------------------------------------------------------------------------
(* The display *)

Cell == BOOLEAN \X Int
Display == [row : [Ttys -> Int], column : [Ttys -> Int], screen : [Ttys -> [Cells -> Cell]],
            vga_buffer : [Cells -> Cell], cursor : Int,
            wild : BOOLEAN, raced : BOOLEAN, silent : BOOLEAN, torn : BOOLEAN]

At(K, t, y, x) == K.row[t] = y /\ K.column[t] = x
OnScreen(K, t) == K.row[t] \in 0..(VGA_HEIGHT - 1) /\ K.column[t] \in 0..(VGA_WIDTH - 1)

\* The card shows the terminal t, except for what the loader left.
Shown(K, t) == \A i \in Cells : K.vga_buffer[i] \in {K.screen[t][i], Left}

\* From K to N something was done to the terminal t, which the card follows.
Follows(K, N, t) ==
    /\ N \in Display
    /\ N.raced = K.raced /\ N.silent = K.silent /\ N.torn = K.torn
    /\ Shown(K, t) => Shown(N, t)
    /\ \A u \in Ttys \ {t} : N.row[u] = K.row[u] /\ N.column[u] = K.column[u]

\* Nothing fell outside the screen, and the cursor of t went to (y, x).
Moved(K, N, t, y, x) == Follows(K, N, t) /\ At(N, t, y, x) /\ N.wild = K.wild

LEMMA FollowsOn ==
    ASSUME NEW K, NEW M, NEW N, NEW t, Follows(K, M, t), Follows(M, N, t)
    PROVE  Follows(K, N, t)
  BY DEF Follows

LEMMA MovedOn ==
    ASSUME NEW K, NEW M, NEW N, NEW t, NEW b, NEW a, NEW y, NEW x,
           Moved(K, M, t, b, a), Moved(M, N, t, y, x)
    PROVE  Moved(K, N, t, y, x)
  BY FollowsOn DEF Moved

LEMMA MovedNowhere ==
    ASSUME NEW K \in Display, NEW t
    PROVE  Moved(K, K, t, K.row[t], K.column[t])
  BY DEF Moved, Follows, At

\* The sizes and the cursor of a terminal.
LEMMA Sizes ==
    ASSUME NEW K \in Display, NEW t \in Ttys
    PROVE  /\ K.row[t] \in Int /\ K.column[t] \in Int
           /\ VGA_WIDTH \in Nat \ {0} /\ VGA_HEIGHT \in Nat \ {0}
           /\ Position(K, t) \in Int
  <1>1. K.row[t] \in Int /\ K.column[t] \in Int BY DEF Display
  <1>2. VGA_WIDTH \in Nat \ {0} /\ VGA_HEIGHT \in Nat \ {0} BY Numerals
  <1>3. K.row[t] * VGA_WIDTH \in Int BY <1>1, <1>2
  <1>4. QED BY <1>1, <1>2, <1>3 DEF Position

\* The places of the screen.
LEMMA RowsOf ==
    ASSUME NEW y \in Nat, NEW x \in 0..(VGA_WIDTH - 1), y < VGA_HEIGHT
    PROVE  y * VGA_WIDTH + x \in Cells
  <1>1. VGA_WIDTH \in Nat \ {0} /\ VGA_HEIGHT \in Nat \ {0} BY Numerals
  <1> DEFINE W == VGA_WIDTH
             d == VGA_HEIGHT - 1 - y
  <1>2. d \in Nat /\ VGA_HEIGHT = y + 1 + d BY <1>1
  <1> HIDE DEF d, W
  <1>3. W \in Nat \ {0} /\ x \in 0..(W - 1) BY <1>1 DEF W
  <1>4. W * VGA_HEIGHT = y * W + W + d * W BY <1>2, <1>3
  <1>5. y * W \in Nat /\ d * W \in Nat BY <1>2, <1>3
  <1>6. y * W + x \in 0..(W * VGA_HEIGHT - 1) BY <1>3, <1>4, <1>5
  <1>7. QED BY <1>6 DEF Cells, W

LEMMA SetsPlace ==
    ASSUME NEW K \in Display, NEW t \in Ttys, NEW y \in Int, NEW x \in Int
    PROVE  /\ Moved(K, [K EXCEPT !.row[t] = y], t, y, K.column[t])
           /\ Moved(K, [K EXCEPT !.column[t] = x], t, K.row[t], x)
           /\ Moved(K, [K EXCEPT !.column[t] = x, !.row[t] = y], t, y, x)
  BY DEF Display, Moved, Follows, At, Shown

LEMMA SetsColumn ==
    ASSUME NEW K \in Display, NEW t \in Ttys, NEW x \in Int
    PROVE  Moved(K, Column(K, t, x), t, K.row[t], x)
  <1>1. 0 \in Int OBVIOUS
  <1>2. QED BY <1>1, SetsPlace DEF Column

\* A store: on the screen it leaves con.wild alone.
LEMMA PutsEntry ==
    ASSUME NEW K \in Display, NEW blank \in BOOLEAN, NEW y \in Int, NEW x \in Int,
           current_tty \in Ttys
    PROVE  LET N == tty_putentryat(K, current_tty, blank, x, y)
           IN  /\ Follows(K, N, current_tty)
               /\ At(N, current_tty, K.row[current_tty], K.column[current_tty])
               /\ y * VGA_WIDTH + x \in Cells => N.wild = K.wild
  <1> DEFINE t == current_tty
             i == y * VGA_WIDTH + x
             e == vga_entry(blank, t)
             K1 == [K EXCEPT !.screen[t][i] = e]
             N == [K1 EXCEPT !.vga_buffer[i] = e]
             Z == [K EXCEPT !.wild = TRUE]
  <1>1. CASE i \notin Cells
    <2>1. tty_putentryat(K, t, blank, x, y) = Z BY <1>1 DEF tty_putentryat
    <2>2. /\ Z \in Display /\ Z.row = K.row /\ Z.column = K.column /\ Z.screen = K.screen
          /\ Z.vga_buffer = K.vga_buffer
          /\ Z.raced = K.raced /\ Z.silent = K.silent /\ Z.torn = K.torn
      BY DEF Display
    <2> HIDE DEF Z, i
    <2>3. Follows(K, Z, t) BY <2>2 DEF Follows, Shown
    <2>4. At(Z, t, K.row[t], K.column[t]) BY <2>2 DEF At
    <2>5. QED BY <1>1, <2>1, <2>3, <2>4 DEF i
  <1>2. CASE i \in Cells
    <2>1. tty_putentryat(K, t, blank, x, y) = N BY <1>2 DEF tty_putentryat
    <2>2. e \in Cell
      <3>1. t \in Int BY Numerals DEF Ttys
      <3>2. QED BY <3>1 DEF vga_entry, Cell
    <2> HIDE DEF i, e
    <2>3. /\ K1 \in Display /\ K1.row = K.row /\ K1.column = K.column /\ K1.wild = K.wild
          /\ K1.raced = K.raced /\ K1.silent = K.silent /\ K1.torn = K.torn
          /\ K1.screen[t] = [K.screen[t] EXCEPT ![i] = e] /\ K1.vga_buffer = K.vga_buffer
      BY <1>2, <2>2 DEF Display
    <2> HIDE DEF K1
    <2>4. /\ N \in Display /\ N.row = K1.row /\ N.column = K1.column /\ N.wild = K1.wild
          /\ N.raced = K1.raced /\ N.silent = K1.silent /\ N.torn = K1.torn
          /\ N.screen = K1.screen /\ N.vga_buffer = [K1.vga_buffer EXCEPT ![i] = e]
      BY <1>2, <2>2, <2>3 DEF Display
    <2> HIDE DEF N
    <2>5. ASSUME Shown(K, t) PROVE Shown(N, t)
      <3> SUFFICES ASSUME NEW j \in Cells PROVE N.vga_buffer[j] \in {N.screen[t][j], Left} BY DEF Shown
      <3>1. K.screen[t] \in [Cells -> Cell] /\ K.vga_buffer \in [Cells -> Cell] BY DEF Display
      <3>2. CASE j = i BY <1>2, <2>3, <2>4, <3>1, <3>2
      <3>3. CASE j # i BY <2>3, <2>4, <2>5, <3>1, <3>3 DEF Shown
      <3>4. QED BY <3>2, <3>3
    <2>6. Follows(K, N, t) BY <2>3, <2>4, <2>5 DEF Follows
    <2>7. At(N, t, K.row[t], K.column[t]) BY <2>3, <2>4 DEF At
    <2>8. QED BY <2>1, <2>3, <2>4, <2>6, <2>7
  <1>3. QED BY <1>1, <1>2

\* tty_scrollup of the terminal in front, rendered.
LEMMA ScrollsUp ==
    ASSUME NEW K \in Display, current_tty \in Ttys
    PROVE  Moved(K, ScrolledUp(K, current_tty), current_tty, K.row[current_tty], K.column[current_tty])
  <1> DEFINE t == current_tty
             s == [i \in Cells |-> IF i + VGA_WIDTH \in Cells THEN K.screen[t][i + VGA_WIDTH]
                                   ELSE vga_entry(TRUE, t)]
             K1 == [K EXCEPT !.screen[t] = s]
             N == [K1 EXCEPT !.vga_buffer = K1.screen[t]]
  <1>1. ScrolledUp(K, t) = N BY DEF ScrolledUp, tty_render_vga, tty_scrollup
  <1>2. s \in [Cells -> Cell]
    <2>1. vga_entry(TRUE, t) \in Cell
      <3>1. t \in Int BY Numerals DEF Ttys
      <3>2. QED BY <3>1 DEF vga_entry, Cell
    <2>2. K.screen[t] \in [Cells -> Cell] BY DEF Display
    <2>3. QED BY <2>1, <2>2
  <1> HIDE DEF s
  <1>3. K1 \in Display /\ K1.row = K.row /\ K1.column = K.column /\ K1.wild = K.wild
        /\ K1.raced = K.raced /\ K1.silent = K.silent /\ K1.torn = K.torn
        /\ K1.screen[t] = s
    BY <1>2 DEF Display
  <1> HIDE DEF K1
  <1>4. N \in Display /\ N.row = K1.row /\ N.column = K1.column /\ N.wild = K1.wild
        /\ N.raced = K1.raced /\ N.silent = K1.silent /\ N.torn = K1.torn
        /\ N.screen = K1.screen /\ N.vga_buffer = s
    BY <1>2, <1>3 DEF Display
  <1> HIDE DEF N
  <1>5. Shown(N, t) BY <1>3, <1>4 DEF Shown
  <1>6. Follows(K, N, t) BY <1>3, <1>4, <1>5 DEF Follows
  <1>7. At(N, t, K.row[t], K.column[t]) /\ N.wild = K.wild BY <1>3, <1>4 DEF At
  <1>8. QED BY <1>1, <1>6, <1>7 DEF Moved

\* The card's cursor at p.
LEMMA SetsCursor ==
    ASSUME NEW K \in Display, NEW t \in Ttys, NEW p \in Int
    PROVE  LET N == [K EXCEPT !.cursor = p]
           IN  Moved(K, N, t, K.row[t], K.column[t]) /\ N.cursor = p
  <1> DEFINE N == [K EXCEPT !.cursor = p]
  <1>1. /\ N \in Display /\ N.row = K.row /\ N.column = K.column /\ N.wild = K.wild
        /\ N.raced = K.raced /\ N.silent = K.silent /\ N.torn = K.torn
        /\ N.screen = K.screen /\ N.vga_buffer = K.vga_buffer /\ N.cursor = p
    BY DEF Display
  <1> HIDE DEF N
  <1>2. Follows(K, N, t) BY <1>1 DEF Follows, Shown
  <1>3. Moved(K, N, t, K.row[t], K.column[t]) BY <1>1, <1>2 DEF Moved, At
  <1>4. QED BY <1>1, <1>3 DEF N

\* CursorOf of the terminal in front.
LEMMA MovesCursor ==
    ASSUME NEW K \in Display, current_tty \in Ttys
    PROVE  LET N == CursorOf(K, current_tty)
           IN  /\ Moved(K, N, current_tty, K.row[current_tty], K.column[current_tty])
               /\ N.cursor = Position(N, current_tty)
  <1> DEFINE t == current_tty
             p == Position(K, t)
             N == [K EXCEPT !.cursor = p]
  <1>1. CursorOf(K, t) = N BY DEF CursorOf, vga_move_cursor, Position
  <1>2. p \in Int BY Sizes
  <1> HIDE DEF p
  <1>3. Moved(K, N, t, K.row[t], K.column[t]) /\ N.cursor = p BY <1>2, SetsCursor
  <1> HIDE DEF N
  <1>4. Position(N, t) = p BY <1>3 DEF Moved, At, Position, p
  <1>5. QED BY <1>1, <1>3, <1>4

\* A row behind the last one becomes the last one; none is begun behind it.
Row(y) == IF y = VGA_HEIGHT THEN VGA_HEIGHT - 1 ELSE y
Below(y) == IF y # VGA_HEIGHT THEN y + 1 ELSE y

LEMMA BeginsRow ==
    ASSUME NEW K \in Display, NEW t \in Ttys
    PROVE  /\ Moved(K, NextRow(K, t), t, Below(K.row[t]), K.column[t])
           /\ Below(K.row[t]) \in Int
  <1>0. K.row[t] \in Int BY Sizes
  <1>1. CASE K.row[t] # VGA_HEIGHT
    <2> DEFINE y == K.row[t] + 1
    <2>1. NextRow(K, t) = [K EXCEPT !.row[t] = y] /\ Below(K.row[t]) = y BY <1>1 DEF NextRow, Below
    <2>2. y \in Int BY <1>0
    <2> HIDE DEF y
    <2>3. 0 \in Int OBVIOUS
    <2>4. Moved(K, [K EXCEPT !.row[t] = y], t, y, K.column[t]) BY <2>2, <2>3, SetsPlace
    <2>5. QED BY <2>1, <2>2, <2>4
  <1>2. CASE K.row[t] = VGA_HEIGHT
    <2>1. NextRow(K, t) = K /\ Below(K.row[t]) = K.row[t] BY <1>2 DEF NextRow, Below
    <2>2. QED BY <1>0, <2>1, MovedNowhere
  <1>3. QED BY <1>1, <1>2

LEMMA TakesRowBack ==
    ASSUME NEW K \in Display, NEW t \in Ttys
    PROVE  Moved(K, RowBack(K, t), t, K.row[t] - 1, K.column[t])
  <1> DEFINE y == K.row[t] - 1
  <1>1. RowBack(K, t) = [K EXCEPT !.row[t] = y] BY DEF RowBack
  <1>2. y \in Int BY Sizes
  <1> HIDE DEF y
  <1>3. 0 \in Int OBVIOUS
  <1>4. Moved(K, [K EXCEPT !.row[t] = y], t, y, K.column[t]) BY <1>2, <1>3, SetsPlace
  <1>5. QED BY <1>1, <1>4 DEF y

LEMMA Scrolls ==
    ASSUME NEW K \in Display, current_tty \in Ttys
    PROVE  /\ Moved(K, Scrolled(K, current_tty), current_tty, Row(K.row[current_tty]), K.column[current_tty])
           /\ Row(K.row[current_tty]) \in Int
  <1> DEFINE t == current_tty
  <1>0. K.row[t] \in Int /\ VGA_HEIGHT \in Nat BY Sizes
  <1>1. CASE K.row[t] # VGA_HEIGHT
    <2>1. Scrolled(K, t) = K /\ Row(K.row[t]) = K.row[t] BY <1>1 DEF Scrolled, Row
    <2>2. QED BY <1>0, <2>1, MovedNowhere
  <1>2. CASE K.row[t] = VGA_HEIGHT
    <2> DEFINE M == ScrolledUp(K, t)
               N == RowBack(M, t)
    <2>1. Scrolled(K, t) = N /\ Row(K.row[t]) = VGA_HEIGHT - 1 BY <1>2 DEF Scrolled, Row
    <2>2. Moved(K, M, t, K.row[t], K.column[t]) BY ScrollsUp
    <2> HIDE DEF M
    <2>3. M \in Display /\ M.row[t] = VGA_HEIGHT /\ M.column[t] = K.column[t]
      BY <1>2, <2>2 DEF Moved, Follows, At
    <2>4. Moved(M, N, t, M.row[t] - 1, M.column[t]) BY <2>3, TakesRowBack
    <2> HIDE DEF N
    <2>5. Moved(K, N, t, VGA_HEIGHT - 1, K.column[t]) BY <2>2, <2>3, <2>4, MovedOn
    <2>6. VGA_HEIGHT - 1 \in Int BY <1>0
    <2>7. QED BY <2>1, <2>5, <2>6
  <1>3. QED BY <1>1, <1>2

-----------------------------------------------------------------------------
(* Whole characters, as the keyboard interrupt echoes them *)

LastRow == (VGA_HEIGHT - 1) * VGA_WIDTH

\* Room for the longest line before the cursor that scrolling leaves.
LEMMA RoomAbove == STREAM_BUFF - 2 <= LastRow /\ LastRow \in Nat
  <1>1. STREAM_BUFF - 2 <= (VGA_HEIGHT - 1) * VGA_WIDTH BY ConsoleAssumption
  <1>2. (VGA_HEIGHT - 1) * VGA_WIDTH \in Nat BY Numerals
  <1>3. QED BY <1>1, <1>2 DEF LastRow

\* The card and its cursor follow.
Shows(K, N, t) == Follows(K, N, t) /\ N.cursor = Position(N, t)

LEMMA ShowsOn ==
    ASSUME NEW K, NEW M, current_tty \in Ttys, Follows(K, M, current_tty)
    PROVE  /\ Shows(K, CursorOf(M, current_tty), current_tty)
           /\ At(CursorOf(M, current_tty), current_tty, M.row[current_tty], M.column[current_tty])
           /\ CursorOf(M, current_tty).wild = M.wild
  <1> DEFINE t == current_tty
             N == CursorOf(M, t)
  <1>1. M \in Display BY DEF Follows
  <1>2. Moved(M, N, t, M.row[t], M.column[t]) /\ N.cursor = Position(N, t) BY <1>1, MovesCursor
  <1> HIDE DEF N
  <1>3. Follows(K, N, t) BY <1>2, FollowsOn DEF Moved
  <1>4. QED BY <1>2, <1>3 DEF Shows, Moved, N

\* A column behind the last one: the next row, scrolled.
LEMMA WrapsRow ==
    ASSUME NEW K \in Display, current_tty \in Ttys
    PROVE  LET N == Scrolled(NextRow(Column(K, current_tty, 0), current_tty), current_tty)
           IN  Moved(K, N, current_tty, Row(Below(K.row[current_tty])), 0)
  <1> DEFINE t == current_tty
             M1 == Column(K, t, 0)
             M2 == NextRow(M1, t)
             N == Scrolled(M2, t)
  <1>1. Moved(K, M1, t, K.row[t], 0)
    <2>1. 0 \in Int OBVIOUS
    <2>2. QED BY <2>1, SetsColumn
  <1> HIDE DEF M1
  <1>2. M1 \in Display /\ M1.row[t] = K.row[t] /\ M1.column[t] = 0 BY <1>1 DEF Moved, Follows, At
  <1>3. Moved(M1, M2, t, Below(M1.row[t]), M1.column[t]) BY <1>2, BeginsRow
  <1> HIDE DEF M2
  <1>4. M2 \in Display /\ M2.row[t] = Below(K.row[t]) /\ M2.column[t] = 0
    BY <1>2, <1>3 DEF Moved, Follows, At
  <1>5. Moved(M2, N, t, Row(M2.row[t]), M2.column[t]) BY <1>4, Scrolls
  <1> HIDE DEF N
  <1>6. Moved(K, M2, t, Below(K.row[t]), 0) BY <1>1, <1>2, <1>3, MovedOn
  <1>7. Moved(K, N, t, Row(Below(K.row[t])), 0) BY <1>4, <1>5, <1>6, MovedOn
  <1>8. QED BY <1>7 DEF N, M2, M1

\* Where the next character goes.
LEMMA NextPlace ==
    ASSUME NEW y \in 0..(VGA_HEIGHT - 1), NEW K, NEW t, NEW N, NEW x \in 0..VGA_WIDTH,
           At(K, t, y, x),
           IF x = VGA_WIDTH THEN At(N, t, Row(Below(y)), 0) ELSE At(N, t, y, x)
    PROVE  OnScreen(N, t) /\ Position(N, t) \in {Position(K, t), LastRow}
  <1>0. /\ VGA_WIDTH \in Nat \ {0} /\ VGA_HEIGHT \in Nat \ {0} /\ y \in Nat /\ x \in Nat
        /\ y <= VGA_HEIGHT - 1 /\ x <= VGA_WIDTH
    BY Numerals
  <1>1. CASE x # VGA_WIDTH
    <2>1. x \in 0..(VGA_WIDTH - 1) BY <1>0, <1>1
    <2>2. At(N, t, y, x) BY <1>1
    <2>3. QED BY <2>1, <2>2 DEF OnScreen, At, Position
  <1>2. CASE x = VGA_WIDTH
    <2>1. At(N, t, Row(Below(y)), 0) BY <1>2
    <2>2. Below(y) = y + 1 BY <1>0 DEF Below
    <2>3. CASE y + 1 = VGA_HEIGHT
      <3>1. Row(Below(y)) = VGA_HEIGHT - 1 BY <2>2, <2>3 DEF Row
      <3>2. N.row[t] = VGA_HEIGHT - 1 /\ N.column[t] = 0 BY <2>1, <3>1 DEF At
      <3>3. LastRow \in Nat BY RoomAbove
      <3>4. Position(N, t) = LastRow BY <3>2, <3>3 DEF Position, LastRow
      <3>5. OnScreen(N, t) BY <1>0, <3>2 DEF OnScreen
      <3>6. QED BY <3>4, <3>5
    <2>4. CASE y + 1 # VGA_HEIGHT
      <3>1. Row(Below(y)) = y + 1 BY <2>2, <2>4 DEF Row
      <3>2. N.row[t] = y + 1 /\ N.column[t] = 0 BY <2>1, <3>1 DEF At
      <3>3. (y + 1) * VGA_WIDTH + 0 = y * VGA_WIDTH + VGA_WIDTH BY <1>0
      <3>4. Position(N, t) = Position(K, t) BY <1>2, <3>2, <3>3 DEF Position, At
      <3>5. OnScreen(N, t) BY <1>0, <2>4, <3>2 DEF OnScreen
      <3>6. QED BY <3>4, <3>5
    <2>5. QED BY <2>3, <2>4
  <1>3. QED BY <1>1, <1>2

\* The store of a character and ++column.
LEMMA Stores ==
    ASSUME NEW K \in Display, current_tty \in Ttys
    PROVE  LET N == Column(tty_putentryat(K, current_tty, FALSE, K.column[current_tty], K.row[current_tty]),
                           current_tty, K.column[current_tty] + 1)
           IN  /\ Follows(K, N, current_tty)
               /\ At(N, current_tty, K.row[current_tty], K.column[current_tty] + 1)
               /\ OnScreen(K, current_tty) => N.wild = K.wild
  <1> DEFINE t == current_tty
             x == K.column[t]
             y == K.row[t]
             z == x + 1
             M == tty_putentryat(K, t, FALSE, x, y)
             N == Column(M, t, z)
  <1>1. x \in Int /\ y \in Int /\ z \in Int BY Sizes
  <1>2. Follows(K, M, t) /\ At(M, t, y, x) /\ (y * VGA_WIDTH + x \in Cells => M.wild = K.wild)
    <2> HIDE DEF x, y
    <2>1. \A b \in BOOLEAN : LET Z == tty_putentryat(K, t, b, x, y)
                             IN  /\ Follows(K, Z, t) /\ At(Z, t, K.row[t], K.column[t])
                                 /\ y * VGA_WIDTH + x \in Cells => Z.wild = K.wild
      BY <1>1, PutsEntry
    <2>2. QED BY <2>1 DEF x, y
  <1> HIDE DEF M
  <1>3. M \in Display /\ M.row[t] = y BY <1>2 DEF Follows, At
  <1> HIDE DEF z
  <1>4. Moved(M, N, t, M.row[t], z) BY <1>1, <1>3, SetsColumn
  <1> HIDE DEF N
  <1>5. Follows(K, N, t) /\ At(N, t, y, z) /\ N.wild = M.wild
    BY <1>2, <1>3, <1>4, FollowsOn DEF Moved
  <1>6. OnScreen(K, t) => y * VGA_WIDTH + x \in Cells
    <2>1. OnScreen(K, t) => y \in Nat /\ x \in 0..(VGA_WIDTH - 1) /\ y < VGA_HEIGHT
      BY Numerals DEF OnScreen
    <2> HIDE DEF x, y
    <2>2. QED BY <2>1, RowsOf
  <1>7. QED BY <1>2, <1>5, <1>6 DEF N, M, z

LEMMA PrintsChar ==
    ASSUME NEW K \in Display, current_tty \in Ttys
    PROVE  LET N == tty_printchar(K, current_tty)
           IN  /\ Shows(K, N, current_tty)
               /\ OnScreen(K, current_tty) =>
                    /\ N.wild = K.wild /\ OnScreen(N, current_tty)
                    /\ Position(N, current_tty) \in {Position(K, current_tty) + 1, LastRow}
  <1> DEFINE t == current_tty
             x == K.column[t]
             y == K.row[t]
             K1 == Column(tty_putentryat(K, t, FALSE, x, y), t, x + 1)
             M == IF K1.column[t] # VGA_WIDTH THEN K1
                  ELSE Scrolled(NextRow(Column(K1, t, 0), t), t)
             N == CursorOf(M, t)
  <1>1. tty_printchar(K, t) = N BY DEF tty_printchar
  <1>2. Follows(K, K1, t) /\ At(K1, t, y, x + 1) /\ (OnScreen(K, t) => K1.wild = K.wild) BY Stores
  <1>3. x \in Int /\ y \in Int BY Sizes
  <1> HIDE DEF K1
  <1>4. K1 \in Display /\ K1.row[t] = y /\ K1.column[t] = x + 1 BY <1>2 DEF Follows, At
  <1>5. /\ Follows(K1, M, t) /\ M.wild = K1.wild
        /\ IF x + 1 = VGA_WIDTH THEN At(M, t, Row(Below(y)), 0) ELSE At(M, t, y, x + 1)
    <2>1. CASE x + 1 # VGA_WIDTH
      <3>1. M = K1 BY <1>4, <2>1
      <3>2. Moved(K1, K1, t, y, x + 1) BY <1>4, MovedNowhere
      <3>3. QED BY <2>1, <3>1, <3>2 DEF Moved
    <2>2. CASE x + 1 = VGA_WIDTH
      <3>1. M = Scrolled(NextRow(Column(K1, t, 0), t), t) BY <1>4, <2>2
      <3> HIDE DEF M, x, y
      <3>2. Moved(K1, M, t, Row(Below(K1.row[t])), 0) BY <1>4, <3>1, WrapsRow
      <3>3. QED BY <1>4, <2>2, <3>2 DEF Moved
    <2>3. QED BY <2>1, <2>2
  <1> HIDE DEF M
  <1>6. Follows(K, M, t) BY <1>2, <1>5, FollowsOn
  <1>7. Shows(K, N, t) /\ At(N, t, M.row[t], M.column[t]) /\ N.wild = M.wild BY <1>6, ShowsOn
  <1> HIDE DEF N
  <1>8. ASSUME OnScreen(K, t)
        PROVE  N.wild = K.wild /\ OnScreen(N, t) /\ Position(N, t) \in {Position(K, t) + 1, LastRow}
    <2>1. y \in 0..(VGA_HEIGHT - 1) /\ x + 1 \in 0..VGA_WIDTH
      <3>1. y \in 0..(VGA_HEIGHT - 1) /\ x \in 0..(VGA_WIDTH - 1) BY <1>8 DEF OnScreen
      <3>2. QED BY <3>1, Numerals
    <2>2. At(K1, t, y, x + 1) BY <1>2
    <2>3. OnScreen(M, t) /\ Position(M, t) \in {Position(K1, t), LastRow}
      <3> DEFINE z == x + 1
      <3>1. z \in 0..VGA_WIDTH /\ At(K1, t, y, z) BY <2>1, <2>2
      <3>2. IF z = VGA_WIDTH THEN At(M, t, Row(Below(y)), 0) ELSE At(M, t, y, z) BY <1>5
      <3> HIDE DEF z, x, y
      <3>3. QED BY <2>1, <3>1, <3>2, NextPlace
    <2>4. OnScreen(N, t) /\ Position(N, t) = Position(M, t) BY <1>7, <2>3 DEF OnScreen, At, Position
    <2>5. Position(K1, t) = Position(K, t) + 1
      <3>1. y * VGA_WIDTH \in Int BY <1>3, Numerals
      <3>2. y * VGA_WIDTH + (x + 1) = y * VGA_WIDTH + x + 1 BY <1>3, <3>1
      <3>3. QED BY <1>4, <3>2 DEF Position
    <2>6. N.wild = K.wild BY <1>2, <1>5, <1>7, <1>8
    <2>7. QED BY <2>3, <2>4, <2>5, <2>6
  <1>9. QED BY <1>1, <1>7, <1>8

\* The end of tty_putendl, and of tty_printchar when it has scrolled.
LEMMA EndsRow ==
    ASSUME NEW K \in Display, current_tty \in Ttys
    PROVE  LET N == tty_putendl(K, current_tty)
           IN  /\ Shows(K, N, current_tty) /\ N.wild = K.wild
               /\ OnScreen(K, current_tty) => OnScreen(N, current_tty)
  <1> DEFINE t == current_tty
             M1 == NextRow(K, t)
             M2 == Scrolled(M1, t)
             M3 == Column(M2, t, 0)
             N == CursorOf(M3, t)
  <1>1. tty_putendl(K, t) = N BY DEF tty_putendl
  <1>2. Moved(K, M1, t, Below(K.row[t]), K.column[t]) BY BeginsRow
  <1> HIDE DEF M1
  <1>3. M1 \in Display /\ M1.row[t] = Below(K.row[t]) BY <1>2 DEF Moved, Follows, At
  <1>4. Moved(M1, M2, t, Row(M1.row[t]), M1.column[t]) BY <1>3, Scrolls
  <1> HIDE DEF M2
  <1>5. M2 \in Display /\ M2.row[t] = Row(Below(K.row[t])) BY <1>3, <1>4 DEF Moved, Follows, At
  <1>6. Moved(M2, M3, t, M2.row[t], 0)
    <2>1. 0 \in Int OBVIOUS
    <2>2. QED BY <1>5, <2>1, SetsColumn
  <1> HIDE DEF M3
  <1>7. Follows(K, M3, t) /\ At(M3, t, Row(Below(K.row[t])), 0) /\ M3.wild = K.wild
    <2>1. Moved(M1, M3, t, M2.row[t], 0) BY <1>4, <1>6, MovedOn
    <2>2. Moved(K, M3, t, M2.row[t], 0) BY <1>2, <2>1, MovedOn
    <2>3. QED BY <1>5, <2>2 DEF Moved
  <1>8. Shows(K, N, t) /\ At(N, t, M3.row[t], M3.column[t]) /\ N.wild = M3.wild BY <1>7, ShowsOn
  <1> HIDE DEF N
  <1>9. ASSUME OnScreen(K, t) PROVE OnScreen(N, t)
    <2>1. /\ VGA_WIDTH \in Nat \ {0} /\ VGA_HEIGHT \in Nat \ {0}
          /\ K.row[t] \in 0..(VGA_HEIGHT - 1)
      BY <1>9, Numerals DEF OnScreen
    <2>2. Row(Below(K.row[t])) \in 0..(VGA_HEIGHT - 1) BY <2>1 DEF Row, Below
    <2>3. QED BY <1>7, <1>8, <2>1, <2>2 DEF OnScreen, At
  <1>10. QED BY <1>1, <1>7, <1>8, <1>9

\* Where tty_backspace goes.
Before(K, t) == IF K.column[t] = 0 /\ K.row[t] # 0 THEN <<K.row[t] - 1, VGA_WIDTH - 1>>
                ELSE <<K.row[t], K.column[t] - 1>>

LEMMA BeforeIt ==
    ASSUME NEW K \in Display, NEW t \in Ttys
    PROVE  /\ Before(K, t)[1] \in Int /\ Before(K, t)[2] \in Int
           /\ OnScreen(K, t) /\ Position(K, t) >= 1 =>
                /\ Before(K, t)[1] \in 0..(VGA_HEIGHT - 1) /\ Before(K, t)[2] \in 0..(VGA_WIDTH - 1)
                /\ Before(K, t)[1] * VGA_WIDTH + Before(K, t)[2] = Position(K, t) - 1
  <1> DEFINE x == K.column[t]
             y == K.row[t]
  <1>0. /\ VGA_WIDTH \in Nat \ {0} /\ VGA_HEIGHT \in Nat \ {0} /\ x \in Int /\ y \in Int
        /\ Position(K, t) = y * VGA_WIDTH + x
    BY Sizes DEF Position
  <1>1. OnScreen(K, t) => x \in 0..(VGA_WIDTH - 1) /\ y \in 0..(VGA_HEIGHT - 1) BY DEF OnScreen
  <1>2. CASE x = 0 /\ y # 0
    <2>1. Before(K, t) = <<y - 1, VGA_WIDTH - 1>> BY <1>2 DEF Before
    <2> HIDE DEF x, y
    <2>2. (y - 1) * VGA_WIDTH + (VGA_WIDTH - 1) = y * VGA_WIDTH + 0 - 1 BY <1>0
    <2>3. QED BY <1>0, <1>1, <1>2, <2>1, <2>2
  <1>3. CASE ~(x = 0 /\ y # 0)
    <2>1. Before(K, t) = <<y, x - 1>> BY <1>3 DEF Before
    <2> HIDE DEF x, y
    <2>2. y * VGA_WIDTH \in Int BY <1>0
    <2>3. y * VGA_WIDTH + (x - 1) = y * VGA_WIDTH + x - 1 BY <1>0, <2>2
    <2>4. x = 0 => Position(K, t) = 0 BY <1>0, <1>3
    <2>5. QED BY <1>0, <1>1, <2>1, <2>3, <2>4
  <1>4. QED BY <1>2, <1>3

LEMMA Erases ==
    ASSUME NEW K \in Display, current_tty \in Ttys
    PROVE  LET N == tty_backspace(K, current_tty)
           IN  /\ Shows(K, N, current_tty)
               /\ OnScreen(K, current_tty) /\ Position(K, current_tty) >= 1 =>
                    /\ N.wild = K.wild /\ OnScreen(N, current_tty)
                    /\ Position(N, current_tty) = Position(K, current_tty) - 1
  <1> DEFINE t == current_tty
             y == Before(K, t)[1]
             x == Before(K, t)[2]
             M == IF K.column[t] = 0 /\ K.row[t] # 0
                  THEN [Column(K, t, VGA_WIDTH - 1) EXCEPT !.row[t] = @ - 1]
                  ELSE Column(K, t, K.column[t] - 1)
             P == tty_putentryat(M, t, TRUE, M.column[t], M.row[t])
             N == CursorOf(P, t)
  <1>1. tty_backspace(K, t) = N BY DEF tty_backspace
  <1>2. /\ y \in Int /\ x \in Int
        /\ OnScreen(K, t) /\ Position(K, t) >= 1 =>
             /\ y \in 0..(VGA_HEIGHT - 1) /\ x \in 0..(VGA_WIDTH - 1)
             /\ y * VGA_WIDTH + x = Position(K, t) - 1
    BY BeforeIt
  <1>3. Moved(K, M, t, y, x)
    <2>1. CASE K.column[t] = 0 /\ K.row[t] # 0
      <3>1. y = K.row[t] - 1 /\ x = VGA_WIDTH - 1 BY <2>1 DEF Before
      <3>2. M = [K EXCEPT !.column[t] = x, !.row[t] = y]
        <4>1. M = [Column(K, t, x) EXCEPT !.row[t] = @ - 1] BY <2>1, <3>1
        <4>2. Column(K, t, x).row[t] = K.row[t] BY DEF Column, Display
        <4>3. QED BY <3>1, <4>1, <4>2 DEF Column
      <3> HIDE DEF M, x, y
      <3>3. QED BY <1>2, <3>2, SetsPlace
    <2>2. CASE ~(K.column[t] = 0 /\ K.row[t] # 0)
      <3>1. y = K.row[t] /\ x = K.column[t] - 1 BY <2>2 DEF Before
      <3>2. M = Column(K, t, x) BY <2>2, <3>1
      <3> HIDE DEF M, x, y
      <3>3. Moved(K, M, t, K.row[t], x) BY <1>2, <3>2, SetsColumn
      <3>4. QED BY <3>1, <3>3
    <2>3. QED BY <2>1, <2>2
  <1> HIDE DEF M, x, y
  <1>4. M \in Display /\ M.row[t] = y /\ M.column[t] = x BY <1>3 DEF Moved, Follows, At
  <1>5. /\ Follows(M, P, t) /\ At(P, t, y, x)
        /\ y * VGA_WIDTH + x \in Cells => P.wild = M.wild
    <2>1. \A b \in BOOLEAN : LET Z == tty_putentryat(M, t, b, x, y)
                             IN  /\ Follows(M, Z, t) /\ At(Z, t, M.row[t], M.column[t])
                                 /\ y * VGA_WIDTH + x \in Cells => Z.wild = M.wild
      BY <1>2, <1>4, PutsEntry
    <2>2. QED BY <1>4, <2>1
  <1> HIDE DEF P
  <1>6. Follows(K, P, t) BY <1>3, <1>5, FollowsOn DEF Moved
  <1>7. Shows(K, N, t) /\ At(N, t, P.row[t], P.column[t]) /\ N.wild = P.wild BY <1>6, ShowsOn
  <1> HIDE DEF N
  <1>8. ASSUME OnScreen(K, t), Position(K, t) >= 1
        PROVE  N.wild = K.wild /\ OnScreen(N, t) /\ Position(N, t) = Position(K, t) - 1
    <2>1. y \in 0..(VGA_HEIGHT - 1) /\ x \in 0..(VGA_WIDTH - 1) /\ y * VGA_WIDTH + x = Position(K, t) - 1
      BY <1>2, <1>8
    <2>2. y \in Nat /\ y < VGA_HEIGHT BY <2>1, Numerals
    <2>3. y * VGA_WIDTH + x \in Cells BY <2>1, <2>2, RowsOf
    <2>4. N.wild = K.wild BY <1>3, <1>5, <1>7, <2>3 DEF Moved
    <2>5. N.row[t] = y /\ N.column[t] = x BY <1>5, <1>7 DEF At
    <2>6. QED BY <2>1, <2>4, <2>5 DEF OnScreen, Position
  <1>9. QED BY <1>1, <1>7, <1>8

\* tty_putchar of any byte.
Puts(K, N, t, c) ==
    /\ Follows(K, N, t)
    /\ c # "cr" /\ K.cursor = Position(K, t) => N.cursor = Position(N, t)
    /\ OnScreen(K, t) /\ (c = "bs" => Position(K, t) >= 1) =>
         /\ N.wild = K.wild /\ OnScreen(N, t)
         /\ Printable(c) => Position(N, t) \in {Position(K, t) + 1, LastRow}
         /\ c = "bs" => Position(N, t) = Position(K, t) - 1

LEMMA PutsChar ==
    ASSUME NEW K \in Display, current_tty \in Ttys, NEW c
    PROVE  Puts(K, tty_putchar(K, current_tty, c), current_tty, c)
  <1> DEFINE t == current_tty
             N == tty_putchar(K, t, c)
  <1>1. CASE Printable(c)
    <2>1. N = tty_printchar(K, t) /\ c # "bs" BY <1>1 DEF tty_putchar, Printable
    <2> HIDE DEF N
    <2>2. Shows(K, N, t)
          /\ (OnScreen(K, t) =>
                /\ N.wild = K.wild /\ OnScreen(N, t)
                /\ Position(N, t) \in {Position(K, t) + 1, LastRow})
      BY <2>1, PrintsChar
    <2>3. QED BY <2>1, <2>2 DEF Puts, Shows, N
  <1>2. CASE c = "nl"
    <2>1. N = tty_putendl(K, t) /\ ~Printable(c) BY <1>2 DEF tty_putchar, Printable
    <2> HIDE DEF N
    <2>2. Shows(K, N, t) /\ N.wild = K.wild /\ (OnScreen(K, t) => OnScreen(N, t)) BY <2>1, EndsRow
    <2>3. QED BY <1>2, <2>1, <2>2 DEF Puts, Shows, N
  <1>3. CASE c = "cr"
    <2>1. N = Column(K, t, 0) /\ ~Printable(c) BY <1>3 DEF tty_putchar, tty_putretchariot, Printable
    <2> HIDE DEF N
    <2>2. Moved(K, N, t, K.row[t], 0)
      <3>1. 0 \in Int OBVIOUS
      <3>2. QED BY <2>1, <3>1, SetsColumn
    <2>3. OnScreen(K, t) => OnScreen(N, t) BY <2>2, Numerals DEF Moved, At, OnScreen
    <2>4. QED BY <1>3, <2>1, <2>2, <2>3 DEF Puts, Moved, N
  <1>4. CASE c = "bs"
    <2>1. N = tty_backspace(K, t) /\ ~Printable(c) BY <1>4 DEF tty_putchar, Printable
    <2> HIDE DEF N
    <2>2. Shows(K, N, t)
          /\ (OnScreen(K, t) /\ Position(K, t) >= 1 =>
                /\ N.wild = K.wild /\ OnScreen(N, t)
                /\ Position(N, t) = Position(K, t) - 1)
      BY <2>1, Erases
    <2>3. QED BY <1>4, <2>1, <2>2 DEF Puts, Shows, N
  <1>5. CASE c = "silent"
    <2>1. N = K /\ ~Printable(c) BY <1>5 DEF tty_putchar, Printable
    <2> HIDE DEF N
    <2>2. Follows(K, K, t) BY MovedNowhere DEF Moved
    <2>3. QED BY <1>5, <2>1, <2>2 DEF Puts, N
  <1>6. QED BY <1>1, <1>2, <1>3, <1>4, <1>5 DEF Printable

\* The echo of a key, with what the properties remember of it.
LEMMA Echoes ==
    ASSUME con \in Display, current_tty \in Ttys, NEW c, NEW line, echo(current_tty, c, line)
    PROVE  \E N \in Display :
             /\ Puts(con, N, current_tty, c)
             /\ con' \in Display /\ con'.row = N.row /\ con'.column = N.column /\ con'.screen = N.screen
             /\ con'.vga_buffer = N.vga_buffer /\ con'.cursor = N.cursor /\ con'.wild = N.wild
             /\ con'.raced \/ (con'.raced = con.raced /\ ~InCharacter)
             /\ con'.silent \/ (con'.silent = con.silent /\ c \notin {"cr", "silent"})
             /\ con'.torn \/ (con'.torn = con.torn /\ ~InCharacter /\ ~OnCard /\ c # "cr")
  <1> DEFINE N == tty_putchar(con, current_tty, c)
             r == N.raced \/ InCharacter
             s == N.silent \/ c \in {"cr", "silent"}
             o == N.torn \/ InCharacter \/ OnCard \/ c = "cr"
  <1>1. Puts(con, N, current_tty, c) BY PutsChar
  <1>2. con' = [N EXCEPT !.raced = r, !.silent = s, !.torn = o] BY DEF echo
  <1> HIDE DEF N
  <1>3. N \in Display /\ N.raced = con.raced /\ N.silent = con.silent /\ N.torn = con.torn
    BY <1>1 DEF Puts, Follows
  <1>4. r \in BOOLEAN /\ s \in BOOLEAN /\ o \in BOOLEAN BY ZenonT(30)
  <1>5. /\ r \/ (r = con.raced /\ ~InCharacter)
        /\ s \/ (s = con.silent /\ c \notin {"cr", "silent"})
        /\ o \/ (o = con.torn /\ ~InCharacter /\ ~OnCard /\ c # "cr")
    <2>1. con.raced \in BOOLEAN /\ con.silent \in BOOLEAN /\ con.torn \in BOOLEAN BY DEF Display
    <2>2. r \/ (r = con.raced /\ ~InCharacter)
      <3>1. CASE con.raced \/ InCharacter BY <1>3, <3>1
      <3>2. CASE ~con.raced /\ ~InCharacter
        <4>1. con.raced = FALSE /\ r = FALSE BY <1>3, <2>1, <3>2
        <4>2. QED BY <3>2, <4>1
      <3>3. QED BY <3>1, <3>2
    <2>3. s \/ (s = con.silent /\ c \notin {"cr", "silent"})
      <3>1. CASE con.silent \/ c \in {"cr", "silent"} BY <1>3, <3>1
      <3>2. CASE ~con.silent /\ c \notin {"cr", "silent"}
        <4>1. con.silent = FALSE /\ s = FALSE BY <1>3, <2>1, <3>2
        <4>2. QED BY <3>2, <4>1
      <3>3. QED BY <3>1, <3>2
    <2>4. o \/ (o = con.torn /\ ~InCharacter /\ ~OnCard /\ c # "cr")
      <3>1. CASE con.torn \/ InCharacter \/ OnCard \/ c = "cr" BY <1>3, <3>1
      <3>2. CASE ~con.torn /\ ~InCharacter /\ ~OnCard /\ c # "cr"
        <4>1. con.torn = FALSE /\ o = FALSE BY <1>3, <2>1, <3>2
        <4>2. QED BY <3>2, <4>1
      <3>3. QED BY <3>1, <3>2
    <2>5. QED BY <2>2, <2>3, <2>4
  <1> HIDE DEF r, s, o
  <1>6. /\ con' \in Display /\ con'.row = N.row /\ con'.column = N.column /\ con'.screen = N.screen
        /\ con'.vga_buffer = N.vga_buffer /\ con'.cursor = N.cursor /\ con'.wild = N.wild
        /\ con'.raced = r /\ con'.silent = s /\ con'.torn = o
    BY <1>2, <1>3, <1>4 DEF Display
  <1>7. QED BY <1>1, <1>3, <1>5, <1>6

-----------------------------------------------------------------------------
(* What the card shows, and where the cursor is, at every step of the shell *)

\* The shell is at this step of what it is in the middle of.
Stage(h, at) == h # <<>> /\ h[1] \in at
Resting(h) == h = <<>> \/ Stage(h, {"shift", "plain"})

HalfType ==
    /\ half # <<>> => half[1] \in {"step", "wrap", "scroll", "up", "cursor", "render", "shift", "plain"}
    /\ Stage(half, {"step", "cursor"}) => half[2] \in Int
    /\ Stage(half, {"render"}) => half[2] \in Cells

\* A switch has rendered the cells up to its own; the cursor goes where it has to.
Faithful(K, h, t) ==
    /\ Stage(h, {"render"}) =>
         \A i \in Cells : i < h[2] => K.vga_buffer[i] \in {K.screen[t][i], Left}
    /\ ~Stage(h, {"render"}) => Shown(K, t)
    /\ Stage(h, {"cursor"}) => h[2] = Position(K, t)
    /\ Resting(h) => K.cursor = Position(K, t)

CardInv ==
    /\ con \in Display /\ HalfType
    /\ con.torn \/ Faithful(con, half, current_tty)

\* The cursor of the terminal in front with n characters of its line before it.
Midway(K, h, t, n) ==
    /\ ~Stage(h, {"wrap", "scroll", "up"}) => OnScreen(K, t) /\ Position(K, t) >= n
    /\ Stage(h, {"step"}) => h[2] = K.column[t]
    /\ Stage(h, {"wrap"}) =>
         K.row[t] \in 0..(VGA_HEIGHT - 1) /\ K.column[t] \in 0..VGA_WIDTH /\ Position(K, t) >= n
    /\ Stage(h, {"scroll"}) =>
         /\ K.row[t] \in 0..VGA_HEIGHT /\ K.column[t] \in 0..(VGA_WIDTH - 1)
         /\ K.row[t] * VGA_WIDTH >= n /\ (h[2] # "nl" => K.column[t] = 0)
    /\ Stage(h, {"up"}) =>
         /\ K.row[t] = VGA_HEIGHT /\ K.column[t] \in 0..(VGA_WIDTH - 1)
         /\ (h[2] # "nl" => K.column[t] = 0)

Behind(K, u, n) == OnScreen(K, u) /\ Position(K, u) >= n

Cursors ==
    /\ ~con.wild
    /\ \A u \in Ttys \ {current_tty} : Behind(con, u, Len(input_raw[u]))
    /\ Midway(con, half, current_tty, Len(input_raw[current_tty]))

CursorInv == con.raced \/ con.silent \/ Cursors

LEMMA InitScreens == Init => CardInv /\ CursorInv
  <1> SUFFICES ASSUME Init PROVE CardInv /\ CursorInv OBVIOUS
  <1> DEFINE t == current_tty
  <1>0. /\ t = 0 /\ half = <<>> /\ input_raw = [u \in Ttys |-> <<>>]
        /\ con = [row |-> [u \in Ttys |-> tty_clear_screen(u).row],
                  column |-> [u \in Ttys |-> tty_clear_screen(u).column],
                  screen |-> [u \in Ttys |-> tty_clear_screen(u).screen],
                  vga_buffer |-> [i \in Cells |-> Left], cursor |-> 0,
                  wild |-> FALSE, raced |-> FALSE, silent |-> FALSE, torn |-> FALSE]
    BY DEF Init, init_tty
  <1>1. t \in Ttys BY <1>0, Numerals DEF Ttys
  <1>2. /\ con.row = [u \in Ttys |-> 0] /\ con.column = [u \in Ttys |-> 0]
        /\ con.screen = [u \in Ttys |-> [i \in Cells |-> vga_entry(TRUE, u)]]
        /\ con.vga_buffer = [i \in Cells |-> Left] /\ con.cursor = 0 /\ con.wild = FALSE
    BY <1>0 DEF tty_clear_screen
  <1>3. con \in Display
    <2>1. Left \in Cell /\ \A u \in Ttys : vga_entry(TRUE, u) \in Cell
      <3>1. \A u \in Ttys : u \in Int BY Numerals DEF Ttys
      <3>2. -1 \in Int OBVIOUS
      <3>3. QED BY <3>1, <3>2 DEF Left, vga_entry, Cell
    <2>2. /\ con.row \in [Ttys -> Int] /\ con.column \in [Ttys -> Int]
          /\ con.screen \in [Ttys -> [Cells -> Cell]] /\ con.vga_buffer \in [Cells -> Cell]
      <3>1. con.row \in [Ttys -> Int] /\ con.column \in [Ttys -> Int] BY <1>2
      <3>2. \A u \in Ttys : [i \in Cells |-> vga_entry(TRUE, u)] \in [Cells -> Cell] BY <2>1
      <3>3. con.screen \in [Ttys -> [Cells -> Cell]] BY <1>2, <3>2
      <3>4. con.vga_buffer \in [Cells -> Cell] BY <1>2, <2>1
      <3>5. QED BY <3>1, <3>3, <3>4
    <2> DEFINE y == con.row
               x == con.column
               s == con.screen
               v == con.vga_buffer
    <2>3. con = [row |-> y, column |-> x, screen |-> s, vga_buffer |-> v, cursor |-> 0,
                 wild |-> FALSE, raced |-> FALSE, silent |-> FALSE, torn |-> FALSE]
      BY <1>0
    <2>4. /\ y \in [Ttys -> Int] /\ x \in [Ttys -> Int]
          /\ s \in [Ttys -> [Cells -> Cell]] /\ v \in [Cells -> Cell]
      BY <2>2
    <2> HIDE DEF y, x, s, v
    <2>5. QED BY <2>3, <2>4 DEF Display
  <1>4. Shown(con, t)
    <2>1. \A i \in Cells : con.vga_buffer[i] = Left BY <1>2
    <2>2. QED BY <2>1 DEF Shown
  <1>5. ASSUME NEW u \in Ttys PROVE OnScreen(con, u) /\ Position(con, u) = 0
    <2>1. con.row[u] = 0 /\ con.column[u] = 0 BY <1>2
    <2>2. VGA_WIDTH \in Nat \ {0} /\ VGA_HEIGHT \in Nat \ {0} BY Numerals
    <2>3. QED BY <2>1, <2>2 DEF OnScreen, Position
  <1>6. CardInv
    <2>1. con.cursor = Position(con, t) BY <1>1, <1>2, <1>5
    <2>2. QED BY <1>0, <1>3, <1>4, <2>1 DEF CardInv, HalfType, Faithful, Stage
  <1>7. CursorInv
    <2>1. ASSUME NEW u \in Ttys PROVE Behind(con, u, Len(input_raw[u]))
      <3>1. Len(input_raw[u]) = 0 BY <1>0
      <3>2. QED BY <1>5, <3>1 DEF Behind
    <2>2. Midway(con, half, t, Len(input_raw[t])) BY <1>0, <1>1, <2>1 DEF Midway, Stage, Behind
    <2>3. QED BY <1>2, <2>1, <2>2 DEF CursorInv, Cursors
  <1>8. QED BY <1>6, <1>7

\* A step that leaves the display alone.
LEMMA ScreensKept ==
    ASSUME con' = con, half' = half, input_raw' = input_raw, current_tty' = current_tty
    PROVE  (CardInv => CardInv') /\ (CursorInv => CursorInv')
  BY DEF CardInv, CursorInv, HalfType, Cursors

\* From one step of the shell to the next, with the card.
LEMMA CardGoesOn ==
    ASSUME CardInv, con' \in Display, HalfType', current_tty' = current_tty,
           con'.torn \/ con'.torn = con.torn,
           con'.torn \/ ~Stage(half', {"render"}),
           con'.torn \/ (Shown(con, current_tty) /\ ~Stage(half, {"render"}) => Shown(con', current_tty)),
           con'.torn \/ (Stage(half, {"render"}) /\ Faithful(con, half, current_tty) => Shown(con', current_tty)),
           con'.torn \/ (Stage(half', {"cursor"}) => half'[2] = Position(con', current_tty)),
           con'.torn \/ (Faithful(con, half, current_tty) /\ Resting(half') =>
                            con'.cursor = Position(con', current_tty))
    PROVE  CardInv'
  <1>1. CASE con'.torn BY <1>1 DEF CardInv
  <1>2. CASE ~con'.torn
    <2>1. Faithful(con, half, current_tty) BY <1>2 DEF CardInv
    <2>2. Shown(con', current_tty) BY <1>2, <2>1 DEF Faithful
    <2>3. Faithful(con', half', current_tty) BY <1>2, <2>1, <2>2 DEF Faithful
    <2>4. QED BY <2>3 DEF CardInv
  <1>3. QED BY <1>1, <1>2

\* The same for the cursors: the other terminals are left alone.
LEMMA CursorsGoOn ==
    ASSUME CursorInv, current_tty' = current_tty,
           con'.raced \/ con'.raced = con.raced, con'.silent \/ con'.silent = con.silent,
           \A u \in Ttys \ {current_tty} :
               /\ con'.row[u] = con.row[u] /\ con'.column[u] = con.column[u]
               /\ Len(input_raw'[u]) = Len(input_raw[u]),
           con'.raced \/ con'.silent \/
               (Cursors => /\ con'.wild = con.wild
                           /\ Midway(con', half', current_tty, Len(input_raw'[current_tty])))
    PROVE  CursorInv'
  <1>1. CASE con'.raced \/ con'.silent BY <1>1 DEF CursorInv
  <1>2. CASE ~con'.raced /\ ~con'.silent
    <2>1. Cursors BY <1>2 DEF CursorInv
    <2>2. ~con'.wild BY <1>2, <2>1 DEF Cursors
    <2>3. ASSUME NEW u \in Ttys \ {current_tty} PROVE Behind(con', u, Len(input_raw'[u]))
      <3>1. Behind(con, u, Len(input_raw[u])) BY <2>1 DEF Cursors
      <3>2. QED BY <3>1 DEF Behind, OnScreen, Position
    <2>4. Midway(con', half', current_tty, Len(input_raw'[current_tty])) BY <1>2, <2>1
    <2>5. Cursors' BY <2>2, <2>3, <2>4 DEF Cursors
    <2>6. QED BY <2>5 DEF CursorInv
  <1>3. QED BY <1>1, <1>2

\* The echo of a key, wherever the shell is.
LEMMA EchoScreens ==
    ASSUME LineType, CardInv, CursorInv, NEW c \in Chars, NEW line, Line(line),
           echo(current_tty, c, line), half' = half, current_tty' = current_tty,
           c = "bs" => Len(input_raw[current_tty]) >= 1 /\ Len(line) = Len(input_raw[current_tty]) - 1,
           c = "nl" => Len(line) = 0,
           c \notin {"bs", "nl"} => Len(line) = Len(input_raw[current_tty]) + 1
    PROVE  CardInv' /\ CursorInv'
  <1> DEFINE t == current_tty
             n == Len(input_raw[t])
  <1>0. t \in Ttys /\ con \in Display /\ HalfType BY DEF LineType, CardInv
  <1>1. PICK N \in Display :
          /\ Puts(con, N, t, c)
          /\ con' \in Display /\ con'.row = N.row /\ con'.column = N.column /\ con'.screen = N.screen
          /\ con'.vga_buffer = N.vga_buffer /\ con'.cursor = N.cursor /\ con'.wild = N.wild
          /\ con'.raced \/ (con'.raced = con.raced /\ ~InCharacter)
          /\ con'.silent \/ (con'.silent = con.silent /\ c \notin {"cr", "silent"})
          /\ con'.torn \/ (con'.torn = con.torn /\ ~InCharacter /\ ~OnCard /\ c # "cr")
    BY <1>0, Echoes
  <1>2. Position(con', t) = Position(N, t) /\ (OnScreen(N, t) => OnScreen(con', t))
        /\ (Shown(N, t) => Shown(con', t))
    BY <1>1 DEF Position, OnScreen, Shown
  <1>3. CardInv'
    <2>1. HalfType' BY <1>0 DEF HalfType
    <2>2. con'.torn \/ (~Stage(half, {"render"}) /\ ~Stage(half, {"cursor"}))
      BY <1>1 DEF OnCard, Stage
    <2>3. Shown(con, t) => Shown(con', t) BY <1>1, <1>2 DEF Puts, Follows
    <2>4. c # "cr" /\ con.cursor = Position(con, t) => con'.cursor = Position(con', t)
      BY <1>1, <1>2 DEF Puts
    <2>5. Faithful(con, half, t) /\ Resting(half) => con.cursor = Position(con, t) BY DEF Faithful
    <2>6. QED BY <1>1, <2>1, <2>2, <2>3, <2>4, <2>5, CardGoesOn
  <1>4. CursorInv'
    <2>1. Len(input_raw'[t]) = Len(line) /\ \A u \in Ttys \ {t} : input_raw'[u] = input_raw[u]
      BY EchoLines
    <2>2. \A u \in Ttys \ {t} : con'.row[u] = con.row[u] /\ con'.column[u] = con.column[u]
      BY <1>1 DEF Puts, Follows
    <2>3. ASSUME ~con'.raced, ~con'.silent, Cursors
          PROVE  con'.wild = con.wild /\ Midway(con', half', t, Len(line))
      <3>1. ~InCharacter /\ c \notin {"cr", "silent"} BY <1>1, <2>3
      <3>2. \A at \in SUBSET {"step", "wrap", "scroll", "up"} : ~Stage(half, at)
        BY <3>1 DEF InCharacter, Stage
      <3>3. ~Stage(half, {"wrap", "scroll", "up"}) /\ ~Stage(half, {"step"}) /\ ~Stage(half, {"wrap"})
            /\ ~Stage(half, {"scroll"}) /\ ~Stage(half, {"up"})
        BY <3>2
      <3>4. OnScreen(con, t) /\ Position(con, t) >= n BY <2>3, <3>3 DEF Cursors, Midway
      <3>5. n \in Nat /\ Position(con, t) \in Int /\ Len(line) \in Nat /\ Len(line) <= STREAM_BUFF - 2
        BY <1>0, Sizes DEF LineType, Line
      <3>6. c = "bs" => Position(con, t) >= 1
        <4> HIDE DEF n
        <4>1. c = "bs" => n >= 1 BY DEF n
        <4>2. QED BY <3>4, <3>5, <4>1
      <3>7. /\ N.wild = con.wild /\ OnScreen(N, t)
            /\ Printable(c) => Position(N, t) \in {Position(con, t) + 1, LastRow}
            /\ c = "bs" => Position(N, t) = Position(con, t) - 1
        BY <1>1, <3>4, <3>6 DEF Puts
      <3>8. Position(N, t) >= Len(line)
        <4>0. STREAM_BUFF - 2 <= LastRow /\ LastRow \in Nat /\ STREAM_BUFF \in Nat BY RoomAbove, Numerals
        <4>1. CASE Printable(c)
          <5>1. Len(line) = n + 1 BY <4>1 DEF Printable
          <5> HIDE DEF n
          <5>2. QED BY <3>4, <3>5, <3>7, <4>0, <4>1, <5>1
        <4>2. CASE c = "bs"
          <5>1. Len(line) = n - 1 BY <4>2
          <5> HIDE DEF n
          <5>2. QED BY <3>4, <3>5, <3>7, <4>2, <5>1
        <4>3. CASE c = "nl"
          <5>1. Position(N, t) >= 0
            <6>1. N.row[t] \in Nat /\ N.column[t] \in Nat /\ VGA_WIDTH \in Nat
              BY <3>7, Numerals DEF OnScreen
            <6>2. N.row[t] * VGA_WIDTH \in Nat BY <6>1
            <6>3. QED BY <6>1, <6>2 DEF Position
          <5>2. QED BY <4>3, <5>1
        <4>4. QED BY <3>1, <4>1, <4>2, <4>3 DEF Printable
      <3>9. OnScreen(con', t) /\ Position(con', t) >= Len(line) BY <1>2, <3>7, <3>8
      <3>10. QED BY <1>1, <3>3, <3>7, <3>9 DEF Midway
    <2>4. QED BY <1>1, <2>1, <2>2, <2>3, CursorsGoOn
  <1>5. QED BY <1>3, <1>4

LEMMA InputScreens ==
    ASSUME LineType, CardInv, CursorInv, NEW c \in Chars, tty_input_char(current_tty, c),
           half' = half, current_tty' = current_tty
    PROVE  CardInv' /\ CursorInv'
  <1> DEFINE t == current_tty
             raw == input_raw[t]
             n == Len(raw)
             line == Append(raw, c)
             u == SubSeq(raw, 1, n - 1)
  <1>1. raw \in Seq(Chars) /\ n \in Nat /\ n <= STREAM_BUFF - 2 /\ Unended(raw) /\ STREAM_BUFF \in Nat
    BY Numerals DEF LineType, Line
  <1>2. CASE UNCHANGED <<con, terms, machine, lines, cut>> BY <1>2, ScreensKept DEF terms
  <1>3. CASE c = "bs" /\ may_erase(n) /\ echo(t, c, u)
    <2>1. u \in Seq(Chars) /\ Len(u) = n - 1 /\ \A i \in 1..(n - 1) : u[i] = raw[i]
      BY <1>1, <1>3 DEF may_erase
    <2>2. n >= 1 BY <1>1, <1>3 DEF may_erase
    <2>3. echo(t, c, u) BY <1>3
    <2> HIDE DEF u
    <2>4. Line(u) BY <1>1, <2>1, <2>2 DEF Line, Unended
    <2>5. QED BY <1>3, <2>1, <2>2, <2>3, <2>4, EchoScreens
  <1>4. CASE c \notin {"nul", "bs", "nl"} /\ room_in_line(n, c) /\ echo(t, c, line)
    <2>1. n + 1 <= STREAM_BUFF - 2 BY <1>1, <1>4 DEF room_in_line
    <2>2. line \in Seq(Chars) /\ Len(line) = n + 1 /\ line[n + 1] = c /\ \A i \in 1..n : line[i] = raw[i]
      BY <1>1
    <2>3. Unended(line)
      <3>1. \A i \in 1..(n + 1) : i \in 1..n \/ i = n + 1 BY <1>1
      <3> HIDE DEF line
      <3>2. QED BY <1>1, <1>4, <2>2, <3>1 DEF Unended
    <2>4. echo(t, c, line) BY <1>4
    <2> HIDE DEF line
    <2>5. Line(line) BY <2>1, <2>2, <2>3 DEF Line
    <2>6. QED BY <1>4, <2>2, <2>4, <2>5, EchoScreens
  <1>5. CASE c = "nl" /\ echo(t, c, <<>>)
    <2>1. Line(<<>>) /\ Len(<<>>) = 0 BY Numerals DEF Line, Unended
    <2>2. QED BY <1>5, <2>1, EchoScreens
  <1>6. QED BY <1>2, <1>3, <1>4, <1>5 DEF tty_input_char

\* One access of the shell to the terminal in front, which the card follows.
LEMMA DrawsOn ==
    ASSUME LineType, CardInv, CursorInv, current_tty' = current_tty,
           \A u \in Ttys : Len(input_raw'[u]) = Len(input_raw[u]),
           Follows(con, con', current_tty), HalfType',
           ~Stage(half, {"render"}), ~Stage(half', {"render"}),
           Stage(half', {"cursor"}) => half'[2] = Position(con', current_tty),
           Faithful(con, half, current_tty) /\ Resting(half') => con'.cursor = Position(con', current_tty),
           Cursors => /\ con'.wild = con.wild
                      /\ Midway(con', half', current_tty, Len(input_raw[current_tty]))
    PROVE  CardInv' /\ CursorInv'
  <1>0. current_tty \in Ttys BY DEF LineType
  <1>1. /\ con' \in Display
        /\ con'.raced = con.raced /\ con'.silent = con.silent /\ con'.torn = con.torn
        /\ Shown(con, current_tty) => Shown(con', current_tty)
        /\ \A u \in Ttys \ {current_tty} : con'.row[u] = con.row[u] /\ con'.column[u] = con.column[u]
    BY DEF Follows
  <1>2. CardInv' BY <1>1, CardGoesOn
  <1>3. \A u \in Ttys \ {current_tty} :
               /\ con'.row[u] = con.row[u] /\ con'.column[u] = con.column[u]
               /\ Len(input_raw'[u]) = Len(input_raw[u])
    BY <1>1
  <1>4. Cursors => /\ con'.wild = con.wild
                   /\ Midway(con', half', current_tty, Len(input_raw'[current_tty]))
    BY <1>0
  <1>5. CursorInv' BY <1>1, <1>3, <1>4, CursorsGoOn
  <1>6. QED BY <1>2, <1>5

\* The length of the line being typed.
LEMMA LineLength ==
    ASSUME LineType
    PROVE  /\ Len(input_raw[current_tty]) \in Nat
           /\ Len(input_raw[current_tty]) <= LastRow /\ LastRow \in Nat
  <1>1. Line(input_raw[current_tty]) BY DEF LineType
  <1>2. Len(input_raw[current_tty]) \in Nat /\ Len(input_raw[current_tty]) <= STREAM_BUFF - 2
    BY <1>1 DEF Line
  <1>3. STREAM_BUFF - 2 <= LastRow /\ LastRow \in Nat /\ STREAM_BUFF \in Nat BY RoomAbove, Numerals
  <1> DEFINE n == Len(input_raw[current_tty])
  <1> HIDE DEF n
  <1>4. n \in Nat /\ n <= STREAM_BUFF - 2 BY <1>2 DEF n
  <1>5. n \in Nat /\ n <= LastRow BY <1>3, <1>4
  <1>6. QED BY <1>3, <1>5 DEF n

\* A row below one with n characters before its end.
LEMMA RowBelow ==
    ASSUME NEW y \in 0..(VGA_HEIGHT - 1), NEW x \in 0..VGA_WIDTH, NEW n \in Nat,
           y * VGA_WIDTH + x >= n
    PROVE  /\ Below(y) \in 0..VGA_HEIGHT /\ Below(y) \in Nat
           /\ Below(y) * VGA_WIDTH >= n
  <1>1. VGA_WIDTH \in Nat \ {0} /\ VGA_HEIGHT \in Nat \ {0} /\ y \in Nat /\ x \in Nat
        /\ y <= VGA_HEIGHT - 1 /\ x <= VGA_WIDTH
    BY Numerals
  <1>2. Below(y) = y + 1 /\ y + 1 \in 0..VGA_HEIGHT BY <1>1 DEF Below
  <1>3. (y + 1) * VGA_WIDTH = y * VGA_WIDTH + VGA_WIDTH /\ y * VGA_WIDTH \in Nat BY <1>1
  <1>4. (y + 1) * VGA_WIDTH >= n BY <1>1, <1>3
  <1>5. QED BY <1>1, <1>2, <1>4

\* printk_first: the store, or the first ++row of a newline.
LEMMA FirstScreens ==
    ASSUME LineType, CardInv, CursorInv, printk_first
    PROVE  CardInv' /\ CursorInv'
  <1> DEFINE t == current_tty
             c == Head(out)
             n == Len(input_raw[t])
             x == con.column[t]
             y == con.row[t]
  <1>0. /\ half = <<>> /\ current_tty' = t /\ t \in Ttys /\ con \in Display
        /\ \A u \in Ttys : Len(input_raw'[u]) = Len(input_raw[u])
    BY FirstLines DEF printk_first, LineType, CardInv
  <1>1. x \in Int /\ y \in Int /\ n \in Nat BY <1>0, Sizes, LineLength
  <1>2. ~Stage(half, {"render"}) /\ ~Stage(half, {"wrap", "scroll", "up"}) BY <1>0 DEF Stage
  <1>3. Cursors => y \in 0..(VGA_HEIGHT - 1) /\ x \in 0..(VGA_WIDTH - 1) /\ Position(con, t) >= n
    BY <1>2 DEF Cursors, Midway, OnScreen
  <1>4. CASE c = "nl"
    <2>1. con' = NextRow(con, t) /\ half' = <<"scroll", "nl">> BY <1>4 DEF printk_first
    <2>2. Moved(con, con', t, Below(y), x) BY <1>0, <2>1, BeginsRow
    <2>3. HalfType' /\ ~Stage(half', {"render"}) /\ ~Stage(half', {"cursor"}) /\ ~Resting(half')
      BY <2>1 DEF HalfType, Stage, Resting
    <2>4. ASSUME Cursors PROVE con'.wild = con.wild /\ Midway(con', half', t, n)
      <3>1. y \in 0..(VGA_HEIGHT - 1) /\ x \in 0..(VGA_WIDTH - 1) /\ Position(con, t) >= n BY <1>3, <2>4
      <3>2. x \in 0..VGA_WIDTH /\ y * VGA_WIDTH + x >= n BY <3>1, Numerals DEF Position
      <3>3. con'.row[t] = Below(y) /\ con'.column[t] = x /\ con'.wild = con.wild BY <2>2 DEF Moved, At
      <3> HIDE DEF n, x, y
      <3>4. Below(y) \in 0..VGA_HEIGHT /\ Below(y) * VGA_WIDTH >= n BY <1>1, <3>1, <3>2, RowBelow
      <3>5. QED BY <2>1, <3>1, <3>3, <3>4 DEF Midway, Stage
    <2>5. QED BY <1>0, <1>2, <2>2, <2>3, <2>4, DrawsOn DEF Moved
  <1>5. CASE c # "nl"
    <2>1. con' = tty_putentryat(con, t, FALSE, x, y) /\ half' = <<"step", x>> BY <1>5 DEF printk_first
    <2>2. Follows(con, con', t) /\ At(con', t, y, x) /\ (y * VGA_WIDTH + x \in Cells => con'.wild = con.wild)
      <3> HIDE DEF x, y
      <3>1. \A b \in BOOLEAN : LET Z == tty_putentryat(con, t, b, x, y)
                               IN  /\ Follows(con, Z, t) /\ At(Z, t, con.row[t], con.column[t])
                                   /\ y * VGA_WIDTH + x \in Cells => Z.wild = con.wild
        BY <1>0, <1>1, PutsEntry
      <3>2. QED BY <2>1, <3>1 DEF x, y
    <2>3. HalfType' /\ ~Stage(half', {"render"}) /\ ~Stage(half', {"cursor"}) /\ ~Resting(half')
      BY <1>1, <2>1 DEF HalfType, Stage, Resting
    <2>4. ASSUME Cursors PROVE con'.wild = con.wild /\ Midway(con', half', t, n)
      <3>1. y \in 0..(VGA_HEIGHT - 1) /\ x \in 0..(VGA_WIDTH - 1) /\ Position(con, t) >= n BY <1>3, <2>4
      <3>2. con'.row[t] = y /\ con'.column[t] = x BY <2>2 DEF At
      <3>3. OnScreen(con', t) /\ Position(con', t) >= n BY <3>1, <3>2 DEF OnScreen, Position
      <3>4. y * VGA_WIDTH + x \in Cells
        <4> HIDE DEF x, y
        <4>1. y \in Nat /\ y < VGA_HEIGHT BY <3>1, Numerals
        <4>2. QED BY <3>1, <4>1, RowsOf
      <3>5. QED BY <2>1, <2>2, <3>2, <3>3, <3>4 DEF Midway, Stage
    <2>5. QED BY <1>0, <1>2, <2>2, <2>3, <2>4, DrawsOn
  <1>6. QED BY <1>4, <1>5

LEMMA StepScreens ==
    ASSUME LineType, CardInv, CursorInv, printk_step \/ printk_wrap
    PROVE  CardInv' /\ CursorInv'
  <1> DEFINE t == current_tty
             n == Len(input_raw[t])
             x == con.column[t]
             y == con.row[t]
  <1>0. /\ current_tty' = t /\ t \in Ttys /\ con \in Display /\ HalfType
        /\ \A u \in Ttys : Len(input_raw'[u]) = Len(input_raw[u])
    BY DrawingLeaves DEF Drawing, LineType, CardInv, terms
  <1>1. x \in Int /\ y \in Int /\ n \in Nat /\ VGA_WIDTH \in Nat \ {0} BY <1>0, Sizes, LineLength
  <1>2. CASE printk_step
    <2>1. half # <<>> /\ half[1] = "step" BY <1>2 DEF printk_step, InMiddle
    <2>2. Stage(half, {"step"}) /\ ~Stage(half, {"render"}) /\ ~Stage(half, {"wrap", "scroll", "up"})
      BY <2>1 DEF Stage
    <2> DEFINE z == half[2] + 1
    <2>3. half[2] \in Int /\ z \in Int BY <1>0, <2>1 DEF HalfType, Stage
    <2>4. con' = Column(con, t, z) /\ half' = <<"wrap">> BY <1>2 DEF printk_step, Draws
    <2> HIDE DEF z
    <2>5. Moved(con, con', t, y, z) BY <1>0, <2>3, <2>4, SetsColumn
    <2>6. HalfType' /\ ~Stage(half', {"render"}) /\ ~Stage(half', {"cursor"}) /\ ~Resting(half')
      BY <2>4 DEF HalfType, Stage, Resting
    <2>7. ASSUME Cursors PROVE con'.wild = con.wild /\ Midway(con', half', t, n)
      <3>1. /\ y \in 0..(VGA_HEIGHT - 1) /\ x \in 0..(VGA_WIDTH - 1) /\ y * VGA_WIDTH + x >= n
            /\ half[2] = x
        BY <2>2, <2>7 DEF Cursors, Midway, OnScreen, Position
      <3>2. con'.row[t] = y /\ con'.column[t] = z /\ con'.wild = con.wild BY <2>5 DEF Moved, At
      <3>3. z = x + 1 BY <3>1 DEF z
      <3> HIDE DEF n, x, y
      <3>4. z \in 0..VGA_WIDTH BY <1>1, <3>1, <3>3
      <3>5. y * VGA_WIDTH + z >= n
        <4>1. y * VGA_WIDTH \in Int BY <1>1
        <4>2. QED BY <1>1, <3>1, <3>3, <4>1
      <3>6. Position(con', t) >= n BY <3>2, <3>5 DEF Position
      <3>7. QED BY <2>4, <3>1, <3>2, <3>4, <3>6 DEF Midway, Stage
    <2>8. QED BY <1>0, <2>2, <2>5, <2>6, <2>7, DrawsOn DEF Moved
  <1>3. CASE printk_wrap
    <2>1. half # <<>> /\ half[1] = "wrap" BY <1>3 DEF printk_wrap, InMiddle
    <2>2. Stage(half, {"wrap"}) /\ ~Stage(half, {"render"}) BY <2>1 DEF Stage
    <2>3. Cursors => y \in 0..(VGA_HEIGHT - 1) /\ x \in 0..VGA_WIDTH /\ y * VGA_WIDTH + x >= n
      BY <2>2 DEF Cursors, Midway, Position
    <2>4. CASE x # VGA_WIDTH
      <3>1. con' = con /\ half' = <<"cursor", Position(con, t)>>
        BY <1>3, <2>4 DEF printk_wrap, Draws, CursorNext
      <3>2. Follows(con, con', t) BY <1>0, <3>1, MovedNowhere DEF Moved
      <3>3. Position(con, t) \in Int BY <1>0, Sizes
      <3>4. /\ HalfType' /\ ~Stage(half', {"render"}) /\ ~Resting(half')
            /\ Stage(half', {"cursor"}) => half'[2] = Position(con', t)
        BY <3>1, <3>3 DEF HalfType, Stage, Resting
      <3>5. ASSUME Cursors PROVE con'.wild = con.wild /\ Midway(con', half', t, n)
        <4>1. y \in 0..(VGA_HEIGHT - 1) /\ x \in 0..VGA_WIDTH /\ Position(con, t) >= n
          BY <2>3, <3>5 DEF Position
        <4>2. OnScreen(con, t)
          <5> HIDE DEF x, y
          <5>1. x \in 0..(VGA_WIDTH - 1) BY <1>1, <2>4, <4>1
          <5>2. QED BY <4>1, <5>1 DEF OnScreen, x, y
        <4>3. QED BY <3>1, <4>1, <4>2 DEF Midway, Stage
      <3>6. QED BY <1>0, <2>2, <3>2, <3>4, <3>5, DrawsOn
    <2>5. CASE x = VGA_WIDTH
      <3> DEFINE M == Column(con, t, 0)
      <3>1. con' = NextRow(M, t) /\ half' = <<"scroll", "w">>
        BY <1>3, <2>5 DEF printk_wrap, Draws
      <3>2. Moved(con, M, t, y, 0)
        <4>1. 0 \in Int OBVIOUS
        <4>2. QED BY <1>0, <4>1, SetsColumn
      <3> HIDE DEF M
      <3>3. M \in Display /\ M.row[t] = y /\ M.column[t] = 0 BY <3>2 DEF Moved, Follows, At
      <3>4. Moved(M, con', t, Below(M.row[t]), M.column[t]) BY <1>0, <3>1, <3>3, BeginsRow
      <3>5. Moved(con, con', t, Below(y), 0) BY <3>2, <3>3, <3>4, MovedOn
      <3>6. HalfType' /\ ~Stage(half', {"render"}) /\ ~Stage(half', {"cursor"}) /\ ~Resting(half')
        BY <3>1 DEF HalfType, Stage, Resting
      <3>7. ASSUME Cursors PROVE con'.wild = con.wild /\ Midway(con', half', t, n)
        <4>1. y \in 0..(VGA_HEIGHT - 1) /\ x \in 0..VGA_WIDTH /\ y * VGA_WIDTH + x >= n BY <2>3, <3>7
        <4>2. con'.row[t] = Below(y) /\ con'.column[t] = 0 /\ con'.wild = con.wild BY <3>5 DEF Moved, At
        <4> HIDE DEF n, x, y
        <4>3. Below(y) \in 0..VGA_HEIGHT /\ Below(y) * VGA_WIDTH >= n BY <1>1, <4>1, RowBelow
        <4>4. 0 \in 0..(VGA_WIDTH - 1) BY <1>1
        <4>5. QED BY <3>1, <4>2, <4>3, <4>4 DEF Midway, Stage
      <3>8. QED BY <1>0, <2>2, <3>5, <3>6, <3>7, DrawsOn DEF Moved
    <2>6. QED BY <2>4, <2>5
  <1>4. QED BY <1>2, <1>3

\* The end of printk_scroll and of printk_up.
LEMMA EndsScroll ==
    ASSUME con \in Display, NEW K \in Display, NEW c, current_tty \in Ttys,
           Follows(con, K, current_tty), EndOfScroll(K, c)
    PROVE  /\ Follows(con, con', current_tty) /\ con'.wild = K.wild
           /\ half' = <<"cursor", Position(con', current_tty)>> /\ Position(con', current_tty) \in Int
           /\ con'.row[current_tty] = K.row[current_tty]
           /\ (c # "nl" => K.column[current_tty] = 0) => con'.column[current_tty] = 0
  <1> DEFINE t == current_tty
  <1>1. CASE c = "nl"
    <2>1. con' = Column(K, t, 0) /\ half' = <<"cursor", Position(con', t)>>
      BY <1>1 DEF EndOfScroll, Draws, CursorNext
    <2>2. Moved(K, con', t, K.row[t], 0)
      <3>1. 0 \in Int OBVIOUS
      <3>2. QED BY <2>1, <3>1, SetsColumn
    <2>3. Follows(con, con', t) /\ At(con', t, K.row[t], 0) /\ con'.wild = K.wild
      BY <2>2, FollowsOn DEF Moved
    <2>4. Position(con', t) \in Int BY <2>3, Sizes DEF Follows
    <2>5. QED BY <2>1, <2>3, <2>4 DEF At
  <1>2. CASE c # "nl"
    <2>1. con' = K /\ half' = <<"cursor", Position(con', t)>>
      BY <1>2 DEF EndOfScroll, Draws, CursorNext
    <2>2. Position(con', t) \in Int BY <2>1, Sizes
    <2>3. QED BY <1>2, <2>1, <2>2
  <1>3. QED BY <1>1, <1>2

LEMMA ScrollScreens ==
    ASSUME LineType, CardInv, CursorInv, printk_scroll \/ printk_up
    PROVE  CardInv' /\ CursorInv'
  <1> DEFINE t == current_tty
             n == Len(input_raw[t])
             x == con.column[t]
             y == con.row[t]
             c == half[2]
  <1>0. /\ current_tty' = t /\ t \in Ttys /\ con \in Display
        /\ \A u \in Ttys : Len(input_raw'[u]) = Len(input_raw[u])
    BY DrawingLeaves DEF Drawing, LineType, CardInv, terms
  <1>1. /\ x \in Int /\ y \in Int /\ n \in Nat /\ n <= LastRow /\ LastRow \in Nat
        /\ VGA_WIDTH \in Nat \ {0} /\ VGA_HEIGHT \in Nat \ {0}
    BY <1>0, Sizes, LineLength
  <1>2. ASSUME NEW K \in Display, Follows(con, K, t), EndOfScroll(K, c), ~Stage(half, {"render"}),
               Cursors => /\ K.wild = con.wild /\ K.row[t] \in 0..(VGA_HEIGHT - 1)
                          /\ K.row[t] * VGA_WIDTH >= n /\ (c # "nl" => K.column[t] = 0)
        PROVE  CardInv' /\ CursorInv'
    <2>1. /\ Follows(con, con', t) /\ con'.wild = K.wild
          /\ half' = <<"cursor", Position(con', t)>> /\ Position(con', t) \in Int
          /\ con'.row[t] = K.row[t]
          /\ (c # "nl" => K.column[t] = 0) => con'.column[t] = 0
      BY <1>0, <1>2, EndsScroll
    <2>2. /\ HalfType' /\ ~Stage(half', {"render"}) /\ ~Resting(half')
          /\ Stage(half', {"cursor"}) => half'[2] = Position(con', t)
      BY <2>1 DEF HalfType, Stage, Resting
    <2>3. ASSUME Cursors PROVE con'.wild = con.wild /\ Midway(con', half', t, n)
      <3>1. con'.row[t] \in 0..(VGA_HEIGHT - 1) /\ con'.row[t] * VGA_WIDTH >= n /\ con'.column[t] = 0
        BY <1>2, <2>1, <2>3
      <3>2. OnScreen(con', t) BY <1>1, <3>1 DEF OnScreen
      <3>3. con'.row[t] * VGA_WIDTH + 0 = con'.row[t] * VGA_WIDTH
        <4>1. con'.row[t] \in Nat BY <3>1
        <4>2. QED BY <1>1, <4>1
      <3>4. Position(con', t) >= n BY <3>1, <3>3 DEF Position
      <3>5. con'.wild = con.wild BY <1>2, <2>1, <2>3
      <3>6. QED BY <2>1, <3>2, <3>4, <3>5 DEF Midway, Stage
    <2>4. QED BY <1>0, <1>2, <2>1, <2>2, <2>3, DrawsOn
  <1>3. CASE printk_scroll
    <2>1. half # <<>> /\ half[1] = "scroll" BY <1>3 DEF printk_scroll, InMiddle
    <2>2. Stage(half, {"scroll"}) /\ ~Stage(half, {"render"}) BY <2>1 DEF Stage
    <2>3. Cursors => /\ y \in 0..VGA_HEIGHT /\ x \in 0..(VGA_WIDTH - 1)
                     /\ y * VGA_WIDTH >= n /\ (c # "nl" => x = 0)
      BY <2>2 DEF Cursors, Midway
    <2>4. CASE y # VGA_HEIGHT
      <3>1. EndOfScroll(con, c) BY <1>3, <2>4 DEF printk_scroll
      <3>2. Follows(con, con, t) BY <1>0, MovedNowhere DEF Moved
      <3>3. Cursors => y \in 0..(VGA_HEIGHT - 1)
        <4> HIDE DEF y
        <4>1. QED BY <1>1, <2>3, <2>4
      <3>4. QED BY <1>0, <1>2, <2>2, <2>3, <3>1, <3>2, <3>3
    <2>5. CASE y = VGA_HEIGHT
      <3>1. con' = ScrolledUp(con, t) /\ half' = <<"up", c>> BY <1>3, <2>5 DEF printk_scroll, Draws
      <3>2. Moved(con, con', t, y, x) BY <1>0, <3>1, ScrollsUp
      <3>3. HalfType' /\ ~Stage(half', {"render"}) /\ ~Stage(half', {"cursor"}) /\ ~Resting(half')
        BY <3>1 DEF HalfType, Stage, Resting
      <3>4. ASSUME Cursors PROVE con'.wild = con.wild /\ Midway(con', half', t, n)
        <4>1. con'.row[t] = VGA_HEIGHT /\ con'.column[t] = x /\ con'.wild = con.wild
          BY <2>5, <3>2 DEF Moved, At
        <4>2. x \in 0..(VGA_WIDTH - 1) /\ (c # "nl" => x = 0) BY <2>3, <3>4
        <4>3. half'[2] = c /\ half'[1] = "up" BY <3>1
        <4>4. QED BY <3>1, <4>1, <4>2, <4>3 DEF Midway, Stage
      <3>5. QED BY <1>0, <2>2, <3>2, <3>3, <3>4, DrawsOn DEF Moved
    <2>6. QED BY <2>4, <2>5
  <1>4. CASE printk_up
    <2>1. half # <<>> /\ half[1] = "up" BY <1>4 DEF printk_up, InMiddle
    <2>2. Stage(half, {"up"}) /\ ~Stage(half, {"render"}) BY <2>1 DEF Stage
    <2>3. EndOfScroll(RowBack(con, t), c) BY <1>4 DEF printk_up
    <2>4. Moved(con, RowBack(con, t), t, y - 1, x) BY <1>0, TakesRowBack
    <2> DEFINE K == RowBack(con, t)
    <2> HIDE DEF K
    <2>5. Follows(con, K, t) /\ K \in Display /\ K.row[t] = y - 1 /\ K.column[t] = x /\ K.wild = con.wild
      BY <2>4 DEF Moved, At, Follows, K
    <2>6. Cursors => /\ K.wild = con.wild /\ K.row[t] \in 0..(VGA_HEIGHT - 1)
                     /\ K.row[t] * VGA_WIDTH >= n /\ (c # "nl" => K.column[t] = 0)
      <3> SUFFICES ASSUME Cursors
                   PROVE  /\ K.wild = con.wild /\ K.row[t] \in 0..(VGA_HEIGHT - 1)
                          /\ K.row[t] * VGA_WIDTH >= n /\ (c # "nl" => K.column[t] = 0)
        OBVIOUS
      <3>1. y = VGA_HEIGHT /\ (c # "nl" => x = 0) BY <2>2 DEF Cursors, Midway
      <3>2. K.row[t] = VGA_HEIGHT - 1 BY <2>5, <3>1
      <3>3. VGA_HEIGHT - 1 \in 0..(VGA_HEIGHT - 1) BY <1>1
      <3>4. K.row[t] * VGA_WIDTH = LastRow BY <3>2 DEF LastRow
      <3>5. K.row[t] * VGA_WIDTH >= n BY <1>1, <3>4
      <3>6. QED BY <2>5, <3>1, <3>2, <3>3, <3>5
    <2>7. EndOfScroll(K, c) BY <2>3 DEF K
    <2>8. QED BY <1>2, <2>2, <2>5, <2>6, <2>7
  <1>5. QED BY <1>3, <1>4

\* The four outb of the cursor.
LEMMA MoveScreens ==
    ASSUME LineType, CardInv, CursorInv, move_cursor
    PROVE  CardInv' /\ CursorInv'
  <1> DEFINE t == current_tty
             n == Len(input_raw[t])
             p == half[2]
  <1>0. /\ current_tty' = t /\ t \in Ttys /\ con \in Display /\ HalfType
        /\ \A u \in Ttys : Len(input_raw'[u]) = Len(input_raw[u])
    BY DrawingLeaves DEF Drawing, LineType, CardInv, terms
  <1>1. half # <<>> /\ half[1] = "cursor" BY DEF move_cursor, InMiddle
  <1>2. /\ Stage(half, {"cursor"}) /\ ~Stage(half, {"render"}) /\ ~Stage(half, {"wrap", "scroll", "up"})
    BY <1>1 DEF Stage
  <1>3. p \in Int BY <1>0, <1>1 DEF HalfType, Stage
  <1>4. con' = [con EXCEPT !.cursor = p] /\ half' = <<>> BY DEF move_cursor, Draws
  <1>5. Faithful(con, half, t) => p = Position(con, t) BY <1>2 DEF Faithful
  <1> HIDE DEF p
  <1>6. Moved(con, con', t, con.row[t], con.column[t]) /\ con'.cursor = p
    BY <1>0, <1>3, <1>4, SetsCursor
  <1>7. con'.row[t] = con.row[t] /\ con'.column[t] = con.column[t] /\ con'.wild = con.wild
    BY <1>6 DEF Moved, At
  <1>8. Position(con', t) = Position(con, t) /\ (OnScreen(con, t) => OnScreen(con', t))
    BY <1>7 DEF Position, OnScreen
  <1>9. HalfType' /\ ~Stage(half', {"render"}) /\ ~Stage(half', {"cursor"})
    BY <1>4 DEF HalfType, Stage
  <1>10. Faithful(con, half, t) /\ Resting(half') => con'.cursor = Position(con', t)
    BY <1>5, <1>6, <1>8
  <1>11. ASSUME Cursors PROVE con'.wild = con.wild /\ Midway(con', half', t, n)
    <2>1. OnScreen(con, t) /\ Position(con, t) >= n BY <1>2, <1>11 DEF Cursors, Midway
    <2>2. QED BY <1>4, <1>7, <1>8, <2>1 DEF Midway, Stage
  <1>12. QED BY <1>0, <1>2, <1>6, <1>9, <1>10, <1>11, DrawsOn DEF Moved

\* A cell of the terminal in front, on the card.
LEMMA RendersCell ==
    ASSUME NEW K \in Display, NEW t \in Ttys, NEW i \in Cells
    PROVE  LET N == [K EXCEPT !.vga_buffer[i] = K.screen[t][i]]
           IN  /\ N \in Display /\ N.row = K.row /\ N.column = K.column /\ N.wild = K.wild
               /\ N.raced = K.raced /\ N.silent = K.silent /\ N.torn = K.torn
               /\ N.screen = K.screen /\ N.vga_buffer[i] = K.screen[t][i]
               /\ \A j \in Cells : j # i => N.vga_buffer[j] = K.vga_buffer[j]
  <1> DEFINE e == K.screen[t][i]
  <1>1. e \in Cell /\ K.vga_buffer \in [Cells -> Cell] BY DEF Display
  <1> HIDE DEF e
  <1>2. [K.vga_buffer EXCEPT ![i] = e] \in [Cells -> Cell] BY <1>1
  <1> DEFINE v == [K.vga_buffer EXCEPT ![i] = e]
             N == [K EXCEPT !.vga_buffer = v]
  <1>3. v[i] = e /\ \A j \in Cells : j # i => v[j] = K.vga_buffer[j] BY <1>1
  <1>4. v \in [Cells -> Cell] BY <1>2
  <1>5. [K EXCEPT !.vga_buffer[i] = e] = N OBVIOUS
  <1> HIDE DEF v
  <1>6. /\ N \in Display /\ N.row = K.row /\ N.column = K.column /\ N.wild = K.wild
        /\ N.raced = K.raced /\ N.silent = K.silent /\ N.torn = K.torn
        /\ N.screen = K.screen /\ N.vga_buffer = v
    BY <1>4 DEF Display
  <1>7. QED BY <1>3, <1>5, <1>6 DEF e

LEMMA RenderScreens ==
    ASSUME LineType, CardInv, CursorInv, render_cell
    PROVE  CardInv' /\ CursorInv'
  <1> DEFINE t == current_tty
             n == Len(input_raw[t])
             i == half[2]
             N == [con EXCEPT !.vga_buffer[i] = con.screen[t][i]]
  <1>0. /\ current_tty' = t /\ t \in Ttys /\ con \in Display /\ HalfType
        /\ \A u \in Ttys : Len(input_raw'[u]) = Len(input_raw[u])
    BY DrawingLeaves DEF Drawing, LineType, CardInv, terms
  <1>1. half # <<>> /\ half[1] = "render" BY DEF render_cell, InMiddle
  <1>2. Stage(half, {"render"}) /\ ~Stage(half, {"wrap", "scroll", "up"}) BY <1>1 DEF Stage
  <1>3. i \in Cells BY <1>0, <1>2 DEF HalfType
  <1>4. con' = N /\ half' = IF i + 1 \in Cells THEN <<"render", i + 1>> ELSE <<"cursor", Position(N, t)>>
    BY DEF render_cell, Draws, CursorNext
  <1>5. Faithful(con, half, t) => \A j \in Cells : j < i => con.vga_buffer[j] \in {con.screen[t][j], Left}
    BY <1>2 DEF Faithful
  <1> HIDE DEF i
  <1>6. /\ con' \in Display /\ con'.row = con.row /\ con'.column = con.column /\ con'.wild = con.wild
        /\ con'.raced = con.raced /\ con'.silent = con.silent /\ con'.torn = con.torn
        /\ con'.screen = con.screen /\ con'.vga_buffer[i] = con.screen[t][i]
        /\ \A j \in Cells : j # i => con'.vga_buffer[j] = con.vga_buffer[j]
    BY <1>0, <1>3, <1>4, RendersCell
  <1>7. half' = IF i + 1 \in Cells THEN <<"render", i + 1>> ELSE <<"cursor", Position(con', t)>>
    BY <1>4
  <1> HIDE DEF N
  <1>8. Position(con', t) \in Int /\ Position(con', t) = Position(con, t) BY <1>0, <1>6, Sizes DEF Position
  <1>9. Cells \subseteq Nat BY DEF Cells
  <1>10. Faithful(con, half, t) =>
           \A j \in Cells : j < i + 1 => con'.vga_buffer[j] \in {con'.screen[t][j], Left}
    <2> SUFFICES ASSUME Faithful(con, half, t), NEW j \in Cells, j < i + 1
                 PROVE  con'.vga_buffer[j] \in {con'.screen[t][j], Left}
      OBVIOUS
    <2>1. CASE j = i BY <1>6, <2>1
    <2>2. CASE j # i
      <3>1. i \in Nat /\ j \in Nat BY <1>3, <1>9
      <3>2. j < i BY <2>2, <3>1
      <3>3. QED BY <1>5, <1>6, <2>2, <3>2
    <2>3. QED BY <2>1, <2>2
  <1>11. CardInv'
    <2>1. CASE i + 1 \in Cells
      <3>1. half' = <<"render", i + 1>> BY <1>7, <2>1
      <3>2. HalfType' BY <2>1, <3>1 DEF HalfType, Stage
      <3>3. Faithful(con, half, t) => Faithful(con', half', t)
        BY <1>10, <3>1 DEF Faithful, Stage, Resting
      <3>4. con'.torn \/ Faithful(con', half', t) BY <1>6, <3>3 DEF CardInv
      <3>5. QED BY <1>0, <1>6, <3>2, <3>4 DEF CardInv
    <2>2. CASE i + 1 \notin Cells
      <3>1. half' = <<"cursor", Position(con', t)>> BY <1>7, <2>2
      <3>2. HalfType' BY <1>8, <3>1 DEF HalfType, Stage
      <3>3. \A j \in Cells : j < i + 1
        <4>1. VGA_WIDTH * VGA_HEIGHT \in Nat BY Numerals
        <4>2. QED BY <1>3, <2>2, <4>1 DEF Cells
      <3>4. Faithful(con, half, t) => Faithful(con', half', t)
        BY <1>10, <3>1, <3>3 DEF Faithful, Stage, Resting, Shown
      <3>5. con'.torn \/ Faithful(con', half', t) BY <1>6, <3>4 DEF CardInv
      <3>6. QED BY <1>0, <1>6, <3>2, <3>5 DEF CardInv
    <2>3. QED BY <2>1, <2>2
  <1>12. CursorInv'
    <2>1. ~Stage(half', {"step"}) /\ ~Stage(half', {"wrap"}) /\ ~Stage(half', {"scroll"}) /\ ~Stage(half', {"up"})
      BY <1>7 DEF Stage
    <2>2. ASSUME Cursors PROVE con'.wild = con.wild /\ Midway(con', half', t, Len(input_raw'[t]))
      <3>1. OnScreen(con, t) /\ Position(con, t) >= n BY <1>2, <2>2 DEF Cursors, Midway
      <3>2. OnScreen(con', t) /\ Position(con', t) >= Len(input_raw'[t])
        BY <1>0, <1>6, <1>8, <3>1 DEF OnScreen
      <3>3. QED BY <1>6, <2>1, <3>2 DEF Midway
    <2>3. \A u \in Ttys \ {t} :
               /\ con'.row[u] = con.row[u] /\ con'.column[u] = con.column[u]
               /\ Len(input_raw'[u]) = Len(input_raw[u])
      BY <1>0, <1>6
    <2>4. QED BY <1>0, <1>6, <2>2, <2>3, CursorsGoOn
  <1>13. QED BY <1>11, <1>12

\* The shell at rest, or copying key tables: nothing is under way on the screen.
LEMMA RestsOn ==
    ASSUME CardInv, CursorInv, con' = con, current_tty' = current_tty, input_raw' = input_raw,
           Resting(half), Resting(half')
    PROVE  CardInv' /\ CursorInv'
  <1>1. ASSUME NEW h, Resting(h)
        PROVE  /\ ~Stage(h, {"render"}) /\ ~Stage(h, {"cursor"}) /\ ~Stage(h, {"step"})
               /\ ~Stage(h, {"wrap"}) /\ ~Stage(h, {"scroll"}) /\ ~Stage(h, {"up"})
               /\ ~Stage(h, {"wrap", "scroll", "up"}) /\ ~Stage(h, {"step", "cursor"})
    BY <1>1 DEF Resting, Stage
  <1>2. Faithful(con, half, current_tty) => Faithful(con, half', current_tty)
    BY <1>1 DEF Faithful
  <1>3. HalfType'
    <2>1. half' # <<>> => half'[1] \in {"shift", "plain"} BY DEF Resting, Stage
    <2>2. QED BY <1>1, <2>1 DEF HalfType
  <1>4. CardInv' BY <1>2, <1>3 DEF CardInv
  <1>5. Cursors => Cursors'
    <2>1. \A n : Midway(con, half, current_tty, n) => Midway(con, half', current_tty, n)
      BY <1>1 DEF Midway
    <2>2. QED BY <2>1 DEF Cursors
  <1>6. QED BY <1>4, <1>5 DEF CursorInv

\* The two memcpy of set_layout.
LEMMA CopyScreens ==
    ASSUME LineType, CardInv, CursorInv, memcpy_shift \/ memcpy_plain
    PROVE  CardInv' /\ CursorInv'
  <1>1. con' = con /\ current_tty' = current_tty /\ input_raw' = input_raw BY CopyLines DEF terms
  <1>2. half # <<>> /\ half[1] \in {"shift", "plain"} BY DEF memcpy_shift, memcpy_plain, InMiddle
  <1>3. half' = <<>> \/ half' = <<"plain", half[2]>> BY DEF memcpy_shift, memcpy_plain, Copies
  <1>4. Resting(half) /\ Resting(half') BY <1>2, <1>3 DEF Resting, Stage
  <1>5. QED BY <1>1, <1>4, RestsOn

\* switch_tty: the rest is render_cell and move_cursor.
LEMMA SwitchScreens ==
    ASSUME LineType, CardInv, CursorInv, half = <<>>, input_raw' = input_raw,
           NEW t \in Ttys, switch_tty(t)
    PROVE  CardInv' /\ CursorInv'
  <1>0. con \in Display /\ current_tty \in Ttys BY DEF CardInv, LineType
  <1>1. con' = [con EXCEPT !.torn = FALSE] /\ current_tty' = t /\ half' = <<"render", 0>>
    BY DEF switch_tty
  <1>2. /\ con' \in Display /\ con'.row = con.row /\ con'.column = con.column /\ con'.wild = con.wild
        /\ con'.raced = con.raced /\ con'.silent = con.silent
    BY <1>0, <1>1 DEF Display
  <1>3. CardInv'
    <2>1. 0 \in Cells /\ \A i \in Cells : ~(i < 0)
      <3>1. VGA_WIDTH * VGA_HEIGHT \in Nat \ {0} BY Numerals
      <3>2. QED BY <3>1 DEF Cells
    <2>2. HalfType' BY <1>1, <2>1 DEF HalfType, Stage
    <2>3. Faithful(con', half', t) BY <1>1, <2>1 DEF Faithful, Stage, Resting
    <2>4. QED BY <1>1, <1>2, <2>2, <2>3 DEF CardInv
  <1>4. Cursors => Cursors'
    <2> SUFFICES ASSUME Cursors PROVE Cursors' OBVIOUS
    <2>1. ASSUME NEW u \in Ttys PROVE Behind(con', u, Len(input_raw'[u]))
      <3>1. Behind(con, u, Len(input_raw[u])) BY DEF Cursors, Midway, Stage, Behind
      <3>2. QED BY <1>2, <3>1 DEF Behind, OnScreen, Position
    <2>2. Midway(con', half', t, Len(input_raw'[t])) BY <1>1, <2>1 DEF Midway, Stage, Behind
    <2>3. ~con'.wild BY <1>2 DEF Cursors
    <2>4. QED BY <1>1, <2>1, <2>2, <2>3 DEF Cursors
  <1>5. QED BY <1>2, <1>3, <1>4 DEF CursorInv

\* exec_cmd: only switchtty touches the display.
LEMMA ExecScreens ==
    ASSUME LineType, CardInv, CursorInv, exec_cmd
    PROVE  CardInv' /\ CursorInv'
  <1>1. half = <<>> /\ Resting(half) /\ input_raw' = input_raw BY DEF exec_cmd, Reads, Resting
  <1>2. CASE switchtty_cmd
    <2>1. CASE Len(cmd) >= 2 /\ cmd[2] \in Spaced /\ tty_number < MAX_TTY
      <3>1. tty_number \in Nat
        <4>1. \A n \in DOMAIN Numbers : Numbers[n] \in Nat BY DEF Numbers
        <4> HIDE DEF Numbers
        <4>2. QED BY <4>1 DEF tty_number
      <3>2. switch_tty(tty_number) BY <1>2, <2>1 DEF switchtty_cmd
      <3>3. tty_number \in Ttys BY <2>1, <3>1, Numerals DEF Ttys
      <3>4. QED BY <1>1, <3>2, <3>3, SwitchScreens
    <2>2. CASE ~(Len(cmd) >= 2 /\ cmd[2] \in Spaced /\ tty_number < MAX_TTY)
      <3>1. con' = con /\ current_tty' = current_tty /\ half' = half BY <1>2, <2>2 DEF switchtty_cmd
      <3>2. QED BY <1>1, <3>1, RestsOn
    <2>3. QED BY <2>1, <2>2
  <1>3. CASE layout
    <2>1. con' = con /\ current_tty' = current_tty BY <1>3 DEF layout
    <2>2. half' = half \/ half' = <<"shift", argument[1]>> BY <1>3 DEF layout, set_layout
    <2>3. Resting(half') BY <1>1, <2>2 DEF Resting, Stage
    <2>4. QED BY <1>1, <2>1, <2>3, RestsOn
  <1>4. CASE reboot \/ halt \/ mem_debug \/ acpiPowerOff \/ unknow_command
    <2>1. con' = con /\ current_tty' = current_tty /\ half' = half
      BY <1>4 DEF reboot, halt, mem_debug, acpiPowerOff, unknow_command
    <2>2. QED BY <1>1, <2>1, RestsOn
  <1>5. QED BY <1>2, <1>3, <1>4 DEF exec_cmd

LEMMA NextScreens == LineInv /\ (CardInv /\ CursorInv) /\ [Next]_vars => (CardInv /\ CursorInv)'
  <1> SUFFICES ASSUME LineInv, CardInv, CursorInv, [Next]_vars PROVE CardInv' /\ CursorInv' OBVIOUS
  <1>0. LineType BY DEF LineInv
  <1>1. ASSUME NEW key \in Keys \cup {"shift", "beyond"}, NEW released \in BOOLEAN,
               irq_keybord(key, released)
        PROVE  CardInv' /\ CursorInv'
    <2>1. /\ \E c \in Chars : tty_input_char(current_tty, c)
          /\ current_tty' = current_tty /\ half' = half
      BY <1>0, <1>1, KeyInput
    <2>2. QED BY <1>0, <2>1, InputScreens
  <1>2. CASE printk_first BY <1>0, <1>2, FirstScreens
  <1>3. CASE Drawing
    BY <1>0, <1>3, StepScreens, ScrollScreens, MoveScreens, RenderScreens DEF Drawing
  <1>4. CASE memcpy_shift \/ memcpy_plain BY <1>0, <1>4, CopyScreens
  <1>5. CASE exec_cmd BY <1>0, <1>5, ExecScreens
  <1>6. CASE \/ pushback_char \/ acpiEnable \/ poll_a \/ poll_b \/ outw_slp \/ UNCHANGED vars
             \/ \E port \in {"a", "b"} : sci_enabled(port)
    <2>1. con' = con /\ current_tty' = current_tty /\ input_raw' = input_raw /\ half' = half
      BY <1>6 DEF pushback_char, acpiEnable, poll_a, poll_b, poll, outw_slp, PowerLeaves,
                  sci_enabled, terms, shell, vars
    <2>2. QED BY <2>1, ScreensKept
  <1>7. QED BY <1>1, <1>2, <1>3, <1>4, <1>5, <1>6 DEF Next, Shell, Drawing, Stopped, Waiting

LEMMA ScreensInvariant == ConsoleSpec => [](LineInv /\ (CardInv /\ CursorInv))
  <1>1. Init => LineInv /\ (CardInv /\ CursorInv) BY InitLines, InitScreens
  <1>2. (LineInv /\ (CardInv /\ CursorInv)) /\ [Next]_vars => (LineInv /\ (CardInv /\ CursorInv))'
    BY NextLines, NextScreens
  <1>3. QED BY <1>1, <1>2, PTL DEF ConsoleSpec

-----------------------------------------------------------------------------
(* What the screens promise *)

\* tty_printchar, tty_putendl, tty_backspace: until a key is echoed in the middle
\* of a character, or a byte without a cell is, no store of a terminal falls
\* outside its screen, wherever else keys arrive.
THEOREM StoresStayInScreen == ConsoleSpec => []StaysInScreen
  <1>1. LineInv /\ (CardInv /\ CursorInv) => StaysInScreen
    <2> SUFFICES ASSUME LineType, CardInv, Cursors PROVE StaysInScreen
      BY DEF LineInv, CursorInv, StaysInScreen
    <2>0. /\ VGA_WIDTH \in Nat \ {0} /\ VGA_HEIGHT \in Nat \ {0} /\ con \in Display /\ HalfType
      BY Numerals DEF CardInv
    <2>1. ASSUME NEW t \in Ttys PROVE con.row[t] \in 0..VGA_HEIGHT /\ con.column[t] \in 0..VGA_WIDTH
      <3>1. CASE OnScreen(con, t) BY <2>0, <3>1 DEF OnScreen
      <3>2. CASE ~OnScreen(con, t)
        <4>1. t = current_tty /\ Stage(half, {"wrap", "scroll", "up"})
          BY <3>2 DEF Cursors, Midway, Behind
        <4>2. Stage(half, {"wrap"}) \/ Stage(half, {"scroll"}) \/ Stage(half, {"up"})
          BY <4>1 DEF Stage
        <4>3. \/ con.row[t] \in 0..(VGA_HEIGHT - 1) /\ con.column[t] \in 0..VGA_WIDTH
              \/ con.row[t] \in 0..VGA_HEIGHT /\ con.column[t] \in 0..(VGA_WIDTH - 1)
              \/ con.row[t] = VGA_HEIGHT /\ con.column[t] \in 0..(VGA_WIDTH - 1)
          BY <4>1, <4>2 DEF Cursors, Midway
        <4>4. QED BY <2>0, <4>3
      <3>3. QED BY <3>1, <3>2
    <2>2. con.row \in [Ttys -> 0..VGA_HEIGHT] /\ con.column \in [Ttys -> 0..VGA_WIDTH]
      <3>1. con.row \in [Ttys -> Int] /\ con.column \in [Ttys -> Int] BY <2>0 DEF Display
      <3>2. QED BY <2>1, <3>1
    <2>3. QED BY <2>2 DEF Cursors, StaysInScreen
  <1>2. QED BY <1>1, ScreensInvariant, PTL

\* tty_input_char, tty_backspace: until the same events every character of a
\* line being typed is on the screen before the cursor, so a backspace finds one
\* to erase, also after the screen has scrolled under a line half typed.
THEOREM EchoStands == ConsoleSpec => []EchoBacked
  <1>1. LineInv /\ (CardInv /\ CursorInv) => EchoBacked
    <2> SUFFICES ASSUME LineType, CardInv, Cursors PROVE EchoBacked
      BY DEF LineInv, CursorInv, EchoBacked
    <2> DEFINE t == current_tty
               n == Len(input_raw[t])
    <2>0. /\ t \in Ttys /\ con \in Display /\ VGA_WIDTH \in Nat \ {0} /\ VGA_HEIGHT \in Nat \ {0}
          /\ n \in Nat /\ n <= LastRow
      BY Numerals, LineLength DEF CardInv, LineType
    <2>1. Midway(con, half, t, n) /\ \A u \in Ttys \ {t} : Position(con, u) >= Len(input_raw[u])
      BY DEF Cursors, Behind
    <2> DEFINE x == con.column[t]
               y == con.row[t]
    <2>2. x \in Int /\ y \in Int BY <2>0, Sizes
    <2>3. Position(con, t) >= n
      <3>1. CASE ~Stage(half, {"wrap", "scroll", "up"}) BY <2>1, <3>1 DEF Midway
      <3>2. CASE Stage(half, {"wrap"}) BY <2>1, <3>2 DEF Midway
      <3>3. CASE Stage(half, {"scroll"})
        <4>1. x >= 0 /\ y * VGA_WIDTH >= n BY <2>0, <2>1, <3>3 DEF Midway
        <4> HIDE DEF n, x, y
        <4>2. y * VGA_WIDTH \in Int BY <2>0, <2>2
        <4>3. y * VGA_WIDTH + x >= n BY <2>0, <2>2, <4>1, <4>2
        <4>4. QED BY <4>3 DEF Position, x, y
      <3>4. CASE Stage(half, {"up"})
        <4>1. x >= 0 /\ y = VGA_HEIGHT BY <2>0, <2>1, <3>4 DEF Midway
        <4> HIDE DEF n, x, y
        <4>2. VGA_HEIGHT * VGA_WIDTH = LastRow + VGA_WIDTH /\ LastRow \in Nat
          BY <2>0, RoomAbove DEF LastRow
        <4>3. y * VGA_WIDTH + x >= n BY <2>0, <2>2, <4>1, <4>2
        <4>4. QED BY <4>3 DEF Position, x, y
      <3>5. QED BY <3>1, <3>2, <3>3, <3>4 DEF Stage
    <2>4. QED BY <2>1, <2>3 DEF EchoBacked
  <1>2. QED BY <1>1, ScreensInvariant, PTL

\* tty_putentryat, tty_scrollup, switch_tty: between two characters the card
\* shows the terminal in front and the cursor is where the next one goes, unless
\* a key in the middle of one, of a switch or of the cursor's move has torn it
\* since the last switch.
THEOREM CardShowsTerminal == ConsoleSpec => []VgaShows
  <1>1. LineInv /\ (CardInv /\ CursorInv) => VgaShows
    BY DEF CardInv, Faithful, Resting, Stage, Shown, VgaShows
  <1>2. QED BY <1>1, ScreensInvariant, PTL

\* The terminals, the keyboard, the shell and the power controller keep the
\* ranges of their variables, whenever keys arrive and whatever they are.
THEOREM ConsoleTypesOK == ConsoleSpec => []ConsoleTypeOK
  <1>1. LineInv /\ (CardInv /\ CursorInv) => ConsoleTypeOK
    <2> SUFFICES ASSUME LineType, con \in Display PROVE ConsoleTypeOK BY DEF LineInv, CardInv
    <2>1. DOMAIN con.screen = Ttys /\ DOMAIN con.vga_buffer = Cells BY DEF Display
    <2>2. ASSUME NEW t \in Ttys PROVE Len(input_raw[t]) < STREAM_BUFF
      <3>1. Line(input_raw[t]) BY DEF LineType
      <3>2. Len(input_raw[t]) \in Nat /\ Len(input_raw[t]) <= STREAM_BUFF - 2 BY <3>1 DEF Line
      <3>3. QED BY <3>2, Numerals
    <2>3. power.i \in 0..MAX_POLL BY DEF LineType, Powers
    <2>4. QED BY <2>1, <2>2, <2>3 DEF ConsoleTypeOK, LineType, Machines, Copied
  <1>2. QED BY <1>1, ScreensInvariant, PTL
=============================================================================
