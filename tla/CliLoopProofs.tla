--------------------------- MODULE CliLoopProofs ----------------------------
(***************************************************************************)
(* What CliLoop keeps to for every number of devices, slots and operators, *)
(* every script and every size of buffers and queues.                      *)
(*                                                                         *)
(* The inductive invariant IInv says, while the daemon runs, where the     *)
(* loop is and what poll may have reported (Control), how slots,           *)
(* connections and the queue of the listening socket agree (Matched), that *)
(* nothing was read from who is not served yet (Fresh), and that a slot    *)
(* holds exactly what its operator typed since the last end of a line that *)
(* was looked at (Reading).                                                *)
(***************************************************************************)
EXTENDS CliLoop, FiniteSetTheorems, TLAPS

Pcs == {"poll", "rx", "accept", "slot", "run", "tick", "done", "killed"}
Top == Max({NDevs, CLI_MAX_CLIENTS})
Events == ({"dev"} \X Devs) \cup {<<"listen", 0>>} \cup ({"slot"} \X Slots)
Lines == {l \in Seq(AllTyped) : Len(l) < CLI_LINE_MAX}
Slot == [fd : Operators \cup {None}, line : Lines]

\* Where the loop is.
TLoop(p, a, b, r) == p \in Pcs /\ a \in 0..Top /\ b \in 0..RX_BATCH /\ r \subseteq Events
TBuf(b) == b \in Seq(AllTyped) /\ Len(b) <= READ_MAX
TPending(pd) == pd \in Seq(Operators) /\ Len(pd) <= SOMAX
TSlots(sl) == sl \in [Slots -> Slot]
TTyped(ty, tk) ==
    /\ ty \in [Operators -> Nat] /\ tk \in [Operators -> Nat]
    /\ \A c \in Operators : tk[c] <= ty[c] /\ ty[c] <= Len(Script[c])
TRan(rn) == rn \in [Operators -> Seq(Lines)]

Types ==
    /\ TLoop(pc, at, budget, ready) /\ TBuf(buf) /\ TPending(pending)
    /\ TSlots(slots) /\ TTyped(typed, taken) /\ TRan(ran)
    /\ rxq \in [Devs -> 0..RXQ_MAX]
    /\ conn \in [Operators -> ConnStates]
    /\ out \in [Operators -> 0..OUT_MAX]
    /\ g_stop \in BOOLEAN

Control(p, a, r, sl, pd) ==
    /\ p \in {"slot", "run"} => a \in Slots
    /\ p = "run" => <<"slot", a>> \in r
    /\ \A s \in Slots : <<"slot", s>> \in r => sl[s].fd # None
    /\ <<"listen", 0>> \in r => pd # <<>>

In(c, pd) == \E k \in DOMAIN pd : pd[k] = c
OneEach(pd) == \A j, k \in DOMAIN pd : pd[j] = pd[k] => j = k
HasSlot(sl, c) == \E s \in Slots : sl[s].fd = c

Matched(sl, cn, pd) ==
    /\ \A s, t \in Slots : (sl[s].fd # None /\ sl[s].fd = sl[t].fd) => s = t
    /\ \A s \in Slots : sl[s].fd # None => /\ cn[sl[s].fd] \in {"served", "left"}
                                           /\ ~In(sl[s].fd, pd)
    /\ \A c \in Operators : cn[c] = "served" => HasSlot(sl, c)
    /\ \A c \in Operators : cn[c] = "left" => HasSlot(sl, c) \/ In(c, pd)
    /\ \A c \in Operators : cn[c] = "waiting" => In(c, pd)
    /\ \A c \in Operators : In(c, pd) => cn[c] \in {"waiting", "left"}
    /\ OneEach(pd)

Fresh(cn, pd, tk, rn) ==
    \A c \in Operators : cn[c] = "out" \/ In(c, pd) => tk[c] = 0 /\ rn[c] = <<>>

From(c, p) == Max({0} \cup EndsTo(c, p))
NoExit(lines) == \A j \in DOMAIN lines : ~IsExit(lines[j])

\* The first p characters of c have been looked at: so many lines were run,
\* and the line buffer holds the beginning of the next.
Upto(c, line, lines, p) ==
    /\ From(c, p) \in 0..p
    /\ Len(lines) = Cardinality(EndsTo(c, p))
    /\ line = LineTo(c, p + 1)
    /\ NoExit(lines)

\* n characters of c after the first p.
Chars(c, p, n) == [k \in 1..n |-> <<c, p + k>>]

Idle(sl, tk, rn, x) ==
    \A s \in Slots :
        (sl[s].fd # None /\ s # x)
            => Upto(sl[s].fd, sl[s].line, rn[sl[s].fd], tk[sl[s].fd])

Busy(c, line, lines, b, n) ==
    /\ Len(b) \in 1..n
    /\ b = Chars(c, n - Len(b), Len(b))
    /\ Upto(c, line, lines, n - Len(b))

Reading(p, a, b, sl, tk, rn) ==
    /\ p # "run" => Idle(sl, tk, rn, 0)
    /\ p = "run" => /\ Idle(sl, tk, rn, a)
                    /\ Busy(sl[a].fd, sl[a].line, rn[sl[a].fd], b, tk[sl[a].fd])

RanOf(c, lines, n) ==
    \A j \in DOMAIN lines :
        \E k \in EndsTo(c, n) : j = Cardinality(EndsTo(c, k)) /\ lines[j] = LineTo(c, k)
ExitLast(lines) == \A j \in DOMAIN lines : IsExit(lines[j]) => j = Len(lines)
History(ty, rn) == \A c \in Operators : RanOf(c, rn[c], ty[c]) /\ ExitLast(rn[c])

Running ==
    /\ Control(pc, at, ready, slots, pending)
    /\ Matched(slots, conn, pending)
    /\ Fresh(conn, pending, taken, ran)
    /\ Reading(pc, at, buf, slots, taken, ran)

IInv == Types /\ History(typed, ran) /\ (~Over => Running)

-----------------------------------------------------------------------------
(* Numbers, sequences and sets.                                            *)

\* The constants, one by one.
LEMMA Sizes ==
    /\ CLI_MAX_CLIENTS \in Nat \ {0} /\ CLI_LINE_MAX \in Nat \ {0} /\ READ_MAX \in Nat \ {0}
    /\ NDevs \in Nat /\ RX_BATCH \in Nat /\ SOMAX \in Nat /\ OUT_MAX \in Nat /\ RXQ_MAX \in Nat
  BY CliConstants, Zenon

\* The lesser of two numbers.
LEMMA MinTwo ==
    ASSUME NEW a \in Int, NEW b \in Int
    PROVE  Min({a, b}) = IF a <= b THEN a ELSE b
<1>1. CASE a <= b
  <2>1. \E x \in {a, b} : \A y \in {a, b} : x <= y
    BY <1>1
  <2>2. Min({a, b}) \in {a, b} /\ \A y \in {a, b} : Min({a, b}) <= y
    BY <2>1, Zenon DEF Min
  <2> QED BY <1>1, <2>2
<1>2. CASE ~(a <= b)
  <2>1. \E x \in {a, b} : \A y \in {a, b} : x <= y
    BY <1>2
  <2>2. Min({a, b}) \in {a, b} /\ \A y \in {a, b} : Min({a, b}) <= y
    BY <2>1, Zenon DEF Min
  <2> QED BY <1>2, <2>2, Zenon
<1> QED BY <1>1, <1>2, Zenon

\* A number of a set that no other of its numbers exceeds is its maximum.
LEMMA MaxIs ==
    ASSUME NEW S \in SUBSET Int, NEW m \in S, \A y \in S : y <= m
    PROVE  Max(S) = m
<1>1. \A y \in S : m >= y
  BY Zenon
<1>2. Max(S) \in S /\ \A y \in S : Max(S) >= y
  BY <1>1, ZenonT(60) DEF Max
<1>3. Max(S) \in Int /\ m \in Int /\ Max(S) >= m /\ Max(S) <= m
  BY <1>2, ZenonT(60)
<1> QED BY <1>3

\* No position of the loop is beyond Top.
LEMMA TopBound == Top \in Nat /\ NDevs <= Top /\ CLI_MAX_CLIENTS <= Top
<1>1. CASE NDevs <= CLI_MAX_CLIENTS
  <2>1. Top = CLI_MAX_CLIENTS
    BY <1>1, Sizes, MaxIs DEF Top
  <2> QED BY <1>1, <2>1, Sizes
<1>2. CASE ~(NDevs <= CLI_MAX_CLIENTS)
  <2>1. Top = NDevs
    BY <1>2, Sizes, MaxIs DEF Top
  <2> QED BY <1>2, <2>1, Sizes
<1> QED BY <1>1, <1>2, Zenon

\* The ends of lines among the first characters are finitely many.
LEMMA EndsFinite ==
    ASSUME NEW c, NEW n \in Nat
    PROVE  IsFiniteSet(EndsTo(c, n)) /\ Cardinality(EndsTo(c, n)) \in Nat
<1>1. IsFiniteSet(1..n)
  BY FS_Interval
<1>2. EndsTo(c, n) \subseteq 1..n
  BY Zenon DEF EndsTo
<1>3. IsFiniteSet(EndsTo(c, n))
  BY <1>1, <1>2, FS_Subset, Zenon
<1> QED BY <1>3, FS_CardinalityType, Zenon

\* Characters that end no line add no end of a line.
LEMMA EndsSame ==
    ASSUME NEW c, NEW p \in Nat, NEW q \in Nat, p <= q,
           \A k \in (p + 1)..q : ~IsEnd(c, k)
    PROVE  EndsTo(c, q) = EndsTo(c, p)
  BY DEF EndsTo

\* The next end of a line is one more, and the last.
LEMMA EndsMore ==
    ASSUME NEW c, NEW p \in Nat, NEW q \in Nat, p < q, IsEnd(c, q),
           \A k \in (p + 1)..(q - 1) : ~IsEnd(c, k)
    PROVE  /\ Cardinality(EndsTo(c, q)) = Cardinality(EndsTo(c, p)) + 1
           /\ From(c, q) = q
<1>1. EndsTo(c, q) = EndsTo(c, p) \cup {q} /\ q \notin EndsTo(c, p)
  BY DEF EndsTo
<1>2. Cardinality(EndsTo(c, q)) = Cardinality(EndsTo(c, p)) + 1
  BY <1>1, EndsFinite, FS_AddElement, ZenonT(60)
<1>3. /\ {0} \cup EndsTo(c, q) \in SUBSET Int
      /\ q \in {0} \cup EndsTo(c, q)
      /\ \A y \in {0} \cup EndsTo(c, q) : y <= q
  BY <1>1 DEF EndsTo
<1> HIDE DEF EndsTo
<1>4. From(c, q) = q
  BY <1>3, MaxIs, Zenon DEF From
<1> QED BY <1>2, <1>4, Zenon

\* Nothing has ended before the first character.
LEMMA EndsNone ==
    ASSUME NEW c
    PROVE  EndsTo(c, 0) = {} /\ From(c, 0) = 0 /\ Cardinality(EndsTo(c, 0)) = 0
<1>1. EndsTo(c, 0) = {}
  BY DEF EndsTo
<1>2. {0} \cup EndsTo(c, 0) = {0}
  BY <1>1, Zenon
<1>3. Max({0}) = 0
  BY MaxIs
<1> QED BY <1>1, <1>2, <1>3, FS_EmptySet, Zenon DEF From

\* Two sequences one after the other.
LEMMA SeqConcat ==
    ASSUME NEW S, NEW s \in Seq(S), NEW t \in Seq(S)
    PROVE  /\ s \o t \in Seq(S) /\ Len(s \o t) = Len(s) + Len(t)
           /\ \A k \in 1..Len(s) : (s \o t)[k] = s[k]
           /\ \A k \in (Len(s) + 1)..(Len(s) + Len(t)) : (s \o t)[k] = t[k - Len(s)]
  OBVIOUS

\* Characters one after another.
LEMMA CharsAre ==
    ASSUME NEW c, NEW p \in Nat, NEW n \in Nat
    PROVE  /\ Chars(c, p, n) \in Seq({c} \X Nat)
           /\ Len(Chars(c, p, n)) = n
           /\ DOMAIN Chars(c, p, n) = 1..n
           /\ \A k \in 1..n : Chars(c, p, n)[k] = <<c, p + k>>
  BY DEF Chars

\* A sequence with the elements of Chars is Chars.
LEMMA CharsUnique ==
    ASSUME NEW c, NEW p \in Nat, NEW n \in Nat, NEW S, NEW s \in Seq(S),
           Len(s) = n, \A k \in 1..n : s[k] = <<c, p + k>>
    PROVE  s = Chars(c, p, n)
<1>1. s = [k \in 1..n |-> s[k]]
  OBVIOUS
<1>2. [k \in 1..n |-> s[k]] = [k \in 1..n |-> <<c, p + k>>]
  BY Zenon
<1> QED BY <1>1, <1>2, Zenon DEF Chars

\* A part of a sequence of characters.
LEMMA CharsPart ==
    ASSUME NEW c, NEW p \in Nat, NEW n \in Nat, NEW i \in 1..(n + 1), NEW j \in 0..n,
           i <= j + 1
    PROVE  SubSeq(Chars(c, p, n), i, j) = Chars(c, p + i - 1, j - i + 1)
<1> DEFINE s == Chars(c, p, n)
           t == SubSeq(s, i, j)
<1>1. s \in Seq({c} \X Nat) /\ Len(s) = n /\ \A k \in 1..n : s[k] = <<c, p + k>>
  BY CharsAre, ZenonT(60)
<1> HIDE DEF s
<1>2. t \in Seq({c} \X Nat) /\ Len(t) = j - i + 1 /\ \A k \in 1..(j - i + 1) : t[k] = s[i + k - 1]
  BY <1>1
<1> HIDE DEF t
<1>3. \A k \in 1..(j - i + 1) : t[k] = <<c, (p + i - 1) + k>>
  <2> TAKE k \in 1..(j - i + 1)
  <2>1. i + k - 1 \in 1..n /\ p + (i + k - 1) = (p + i - 1) + k
    OBVIOUS
  <2>2. t[k] = s[i + k - 1]
    BY <1>2, Zenon
  <2>3. s[i + k - 1] = <<c, p + (i + k - 1)>>
    BY <1>1, <2>1, Zenon
  <2> QED BY <2>1, <2>2, <2>3, Zenon
<1>4. p + i - 1 \in Nat /\ j - i + 1 \in Nat
  OBVIOUS
<1>5. t = Chars(c, p + i - 1, j - i + 1)
  BY <1>2, <1>3, <1>4, CharsUnique, ZenonT(60)
<1> QED BY <1>5, Zenon DEF t, s

\* What follows on is one run of characters.
LEMMA CharsJoin ==
    ASSUME NEW c, NEW p \in Nat, NEW m \in Nat, NEW n \in Nat
    PROVE  Chars(c, p, m) \o Chars(c, p + m, n) = Chars(c, p, m + n)
<1> DEFINE s == Chars(c, p, m)
           t == Chars(c, p + m, n)
           u == s \o t
<1>1. /\ s \in Seq({c} \X Nat) /\ Len(s) = m /\ \A k \in 1..m : s[k] = <<c, p + k>>
      /\ t \in Seq({c} \X Nat) /\ Len(t) = n /\ \A k \in 1..n : t[k] = <<c, (p + m) + k>>
  BY CharsAre, p + m \in Nat, ZenonT(60)
<1> DEFINE S == {c} \X Nat
<1> HIDE DEF s, t, S
<1>2. /\ u \in Seq(S) /\ Len(u) = m + n
      /\ \A k \in 1..m : u[k] = s[k]
      /\ \A k \in (m + 1)..(m + n) : u[k] = t[k - m]
  <2>1. s \in Seq(S) /\ t \in Seq(S) /\ Len(s) = m /\ Len(t) = n
    BY <1>1, Zenon DEF S
  <2> QED BY <2>1, SeqConcat, ZenonT(60)
<1> HIDE DEF u
<1>3. \A k \in 1..(m + n) : u[k] = <<c, p + k>>
  <2> TAKE k \in 1..(m + n)
  <2>1. CASE k <= m
    <3>1. k \in 1..m
      BY <2>1
    <3> QED BY <1>1, <1>2, <3>1, Zenon
  <2>2. CASE k > m
    <3>1. k \in (m + 1)..(m + n) /\ k - m \in 1..n /\ (p + m) + (k - m) = p + k
      BY <2>2
    <3>2. u[k] = t[k - m]
      BY <1>2, <3>1, Zenon
    <3>3. t[k - m] = <<c, (p + m) + (k - m)>>
      BY <1>1, <3>1, Zenon
    <3> QED BY <3>1, <3>2, <3>3, Zenon
  <2> QED BY <2>1, <2>2
<1>4. u = Chars(c, p, m + n)
  <2>1. m + n \in Nat /\ Len(u) = m + n /\ u \in Seq(S)
    BY <1>2
  <2> QED BY <2>1, <1>3, CharsUnique, ZenonT(60)
<1> QED BY <1>4, Zenon DEF u, s, t

\* The beginning of a sequence that goes on is the first of its parts.
LEMMA CutFirst ==
    ASSUME NEW S, NEW s \in Seq(S), NEW t \in Seq(S)
    PROVE  SubSeq(s \o t, 1, Len(s)) = s /\ Len(s \o t) = Len(s) + Len(t)
  OBVIOUS

\* Where a line begins decides what it is.
LEMMA LineIs ==
    ASSUME NEW c, NEW p \in Nat, NEW f \in 0..p, From(c, p) = f
    PROVE  /\ p - f <= CLI_LINE_MAX - 1 => LineTo(c, p + 1) = Chars(c, f, p - f)
           /\ p - f > CLI_LINE_MAX - 1 => LineTo(c, p + 1) = Chars(c, f, CLI_LINE_MAX - 1)
<1> DEFINE m == Min({p - f, CLI_LINE_MAX - 1})
<1>1. m = IF p - f <= CLI_LINE_MAX - 1 THEN p - f ELSE CLI_LINE_MAX - 1
  BY MinTwo, Sizes
<1>2. LineTo(c, p + 1) = Chars(c, f, m)
  <2>1. (p + 1) - 1 = p
    OBVIOUS
  <2>2. Max({0} \cup EndsTo(c, p)) = f
    BY Zenon DEF From
  <2> HIDE DEF m
  <2>3. LineTo(c, p + 1) = [i \in 1..Min({(p + 1) - 1 - f, CLI_LINE_MAX - 1}) |-> <<c, f + i>>]
    BY <2>1, <2>2, Zenon DEF LineTo
  <2>4. (p + 1) - 1 - f = p - f
    OBVIOUS
  <2> QED BY <2>3, <2>4, Zenon DEF Chars, m
<1> HIDE DEF m
<1> QED BY <1>1, <1>2, Sizes

\* The line buffer takes further characters of the line.
LEMMA LineGrows ==
    ASSUME NEW c, NEW p \in Nat, NEW n \in Nat, From(c, p) \in 0..p,
           \A k \in (p + 1)..(p + n) : ~IsEnd(c, k)
    PROVE  /\ Stored(LineTo(c, p + 1), Chars(c, p, n)) = LineTo(c, p + n + 1)
           /\ From(c, p + n) = From(c, p)
<1> DEFINE f == From(c, p)
           M == CLI_LINE_MAX - 1
           S == {c} \X Nat
<1>1. f \in 0..p /\ f \in Nat /\ M \in Nat /\ p + n \in Nat /\ f \in 0..(p + n) /\ p - f \in Nat
  BY Sizes
<1>2. EndsTo(c, p + n) = EndsTo(c, p)
  BY EndsSame, <1>1
<1>3. From(c, p + n) = f
  BY <1>2, Zenon DEF From
<1> HIDE DEF f, M, S
<1>4. CASE p - f <= M
  <2>1. LineTo(c, p + 1) = Chars(c, f, p - f)
    BY <1>1, <1>4, LineIs, Zenon DEF f, M
  <2>2. Chars(c, f, p - f) \o Chars(c, p, n) = Chars(c, f, p - f + n)
    <3>1. f + (p - f) = p
      BY <1>1
    <3>2. Chars(c, f, p - f) \o Chars(c, f + (p - f), n) = Chars(c, f, p - f + n)
      <4> DEFINE d == p - f
      <4>1. d \in Nat /\ f \in Nat /\ n \in Nat
        BY <1>1, Zenon
      <4> HIDE DEF d
      <4>2. Chars(c, f, d) \o Chars(c, f + d, n) = Chars(c, f, d + n)
        BY <4>1, CharsJoin, ZenonT(60)
      <4> QED BY <4>2, Zenon DEF d
    <3> QED BY <3>1, <3>2, Zenon
  <2>3. Len(Chars(c, f, p - f + n)) = p - f + n
    <3>1. p - f + n \in Nat
      BY <1>1
    <3> QED BY <1>1, <3>1, CharsAre, Zenon
  <2>4. Stored(LineTo(c, p + 1), Chars(c, p, n))
           = SubSeq(Chars(c, f, p - f + n), 1, Min({p - f + n, M}))
    BY <2>1, <2>2, <2>3, Zenon DEF Stored, M
  <2>5. CASE p - f + n <= M
    <3>1. Min({p - f + n, M}) = p - f + n
      BY <1>1, <2>5, MinTwo
    <3>2. LineTo(c, p + n + 1) = Chars(c, f, p + n - f)
      BY <1>1, <1>3, <2>5, LineIs DEF M
    <3>3. SubSeq(Chars(c, f, p - f + n), 1, p - f + n) = Chars(c, f, p - f + n)
      <4> DEFINE e == p - f + n
      <4>1. e \in Nat /\ 1 \in 1..(e + 1) /\ e \in 0..e /\ 1 <= e + 1
        BY <1>1
      <4> HIDE DEF e
      <4>2. SubSeq(Chars(c, f, e), 1, e) = Chars(c, f + 1 - 1, e - 1 + 1)
        BY <1>1, <4>1, CharsPart, ZenonT(60)
      <4>3. f + 1 - 1 = f /\ e - 1 + 1 = e
        BY <1>1, <4>1
      <4>4. SubSeq(Chars(c, f, e), 1, e) = Chars(c, f, e)
        BY <4>2, <4>3, Zenon
      <4> QED BY <4>4, Zenon DEF e
    <3>4. p - f + n = p + n - f
      BY <1>1
    <3> QED BY <1>3, <2>4, <3>1, <3>2, <3>3, <3>4, Zenon DEF f
  <2>6. CASE p - f + n > M
    <3>1. Min({p - f + n, M}) = M
      BY <1>1, <2>6, MinTwo
    <3>2. LineTo(c, p + n + 1) = Chars(c, f, M)
      BY <1>1, <1>3, <2>6, LineIs DEF M
    <3>3. SubSeq(Chars(c, f, p - f + n), 1, M) = Chars(c, f + 1 - 1, M - 1 + 1)
      <4>1. /\ p - f + n \in Nat /\ 1 \in 1..(p - f + n + 1) /\ M \in 0..(p - f + n)
            /\ 1 <= M + 1
        BY <1>1, <2>6
      <4> QED BY <1>1, <4>1, CharsPart, ZenonT(60)
    <3>4. f + 1 - 1 = f /\ M - 1 + 1 = M
      BY <1>1
    <3> QED BY <1>3, <2>4, <3>1, <3>2, <3>3, <3>4, Zenon DEF f
  <2> QED BY <1>1, <2>5, <2>6
<1>5. CASE p - f > M
  <2>1. LineTo(c, p + 1) = Chars(c, f, M) /\ LineTo(c, p + n + 1) = Chars(c, f, M)
    BY <1>1, <1>3, <1>5, LineIs DEF f, M
  <2>2. /\ Chars(c, f, M) \in Seq(S) /\ Len(Chars(c, f, M)) = M
        /\ Chars(c, p, n) \in Seq(S) /\ Len(Chars(c, p, n)) = n
    BY <1>1, CharsAre, ZenonT(60) DEF S
  <2>3. SubSeq(Chars(c, f, M) \o Chars(c, p, n), 1, M) = Chars(c, f, M)
    BY <2>2, CutFirst, Zenon
  <2>4. Len(Chars(c, f, M) \o Chars(c, p, n)) = M + n
    BY <2>2, CutFirst, Zenon
  <2>5. Min({M + n, M}) = M
    BY <1>1, MinTwo
  <2> QED BY <1>3, <2>1, <2>3, <2>4, <2>5, Zenon DEF Stored, M, f
<1> QED BY <1>1, <1>4, <1>5

\* What the line buffer keeps fits it.
LEMMA StoredFits ==
    ASSUME NEW a \in Seq(AllTyped), NEW b \in Seq(AllTyped)
    PROVE  Stored(a, b) \in Lines
<1> DEFINE s == a \o b
           m == Min({Len(s), CLI_LINE_MAX - 1})
<1>1. s \in Seq(AllTyped) /\ Len(s) \in Nat
  OBVIOUS
<1> HIDE DEF s
<1>2. m = IF Len(s) <= CLI_LINE_MAX - 1 THEN Len(s) ELSE CLI_LINE_MAX - 1
  <2>1. Len(s) \in Int /\ CLI_LINE_MAX - 1 \in Int
    BY <1>1, Sizes
  <2> QED BY <2>1, MinTwo, Zenon
<1>3. m \in 0..Len(s) /\ m < CLI_LINE_MAX
  BY <1>1, <1>2, Sizes
<1> HIDE DEF m
<1>4. SubSeq(s, 1, m) \in Seq(AllTyped) /\ Len(SubSeq(s, 1, m)) = m
  BY <1>1, <1>3
<1>5. Stored(a, b) = SubSeq(s, 1, m)
  BY Zenon DEF Stored, s, m
<1> QED BY <1>3, <1>4, <1>5, Zenon DEF Lines

-----------------------------------------------------------------------------
(* Slots, connections and the queue of the listening socket.               *)

\* The first of a queue leaves it.
LEMMA QueueTail ==
    ASSUME NEW pd, TPending(pd), pd # <<>>, OneEach(pd)
    PROVE  /\ Head(pd) \in Operators /\ In(Head(pd), pd)
           /\ TPending(Tail(pd)) /\ OneEach(Tail(pd))
           /\ \A x : In(x, Tail(pd)) <=> (In(x, pd) /\ x # Head(pd))
<1> DEFINE t == Tail(pd)
           n == Len(pd)
<1>1. /\ pd \in Seq(Operators) /\ n \in Nat \ {0} /\ n <= SOMAX /\ DOMAIN pd = 1..n
      /\ Head(pd) = pd[1] /\ Head(pd) \in Operators
      /\ t \in Seq(Operators) /\ Len(t) = n - 1 /\ DOMAIN t = 1..(n - 1)
      /\ \A k \in 1..(n - 1) : t[k] = pd[k + 1]
  BY DEF TPending
<1> HIDE DEF t, n
<1>2. \A j, k \in 1..n : pd[j] = pd[k] => j = k
  BY <1>1, Zenon DEF OneEach
<1>3. \A j, k \in 1..(n - 1) : t[j] = t[k] => j = k
  BY <1>1, <1>2
<1>4. OneEach(t)
  BY <1>1, <1>3, Zenon DEF OneEach
<1>5. ASSUME NEW x, In(x, t) PROVE In(x, pd) /\ x # Head(pd)
  <2>1. PICK k \in 1..(n - 1) : t[k] = x
    BY <1>1, <1>5, Zenon DEF In
  <2>2. k + 1 \in 1..n /\ 1 \in 1..n /\ k + 1 # 1 /\ pd[k + 1] = x
    BY <1>1, <2>1
  <2> QED BY <1>1, <1>2, <2>2, Zenon DEF In
<1>6. ASSUME NEW x, In(x, pd), x # Head(pd) PROVE In(x, t)
  <2>1. PICK k \in 1..n : pd[k] = x
    BY <1>1, <1>6, Zenon DEF In
  <2>2. k # 1
    BY <1>1, <1>6, <2>1, ZenonT(60)
  <2>3. k - 1 \in 1..(n - 1) /\ t[k - 1] = x
    <3>1. k - 1 \in 1..(n - 1) /\ (k - 1) + 1 = k
      BY <1>1, <2>2
    <3> QED BY <1>1, <2>1, <3>1, Zenon
  <2> QED BY <1>1, <2>3, Zenon DEF In
<1>7. TPending(t)
  BY <1>1, Sizes DEF TPending
<1>8. In(Head(pd), pd)
  <2>1. 1 \in 1..n
    BY <1>1
  <2> QED BY <1>1, <2>1, Zenon DEF In
<1> QED BY <1>1, <1>4, <1>5, <1>6, <1>7, <1>8, Zenon DEF t

\* One more at the end of a queue.
LEMMA QueueMore ==
    ASSUME NEW pd, TPending(pd), Len(pd) < SOMAX, OneEach(pd), NEW c \in Operators, ~In(c, pd)
    PROVE  /\ TPending(Append(pd, c)) /\ OneEach(Append(pd, c))
           /\ \A x : In(x, Append(pd, c)) <=> (In(x, pd) \/ x = c)
<1> DEFINE t == Append(pd, c)
           n == Len(pd)
<1>1. /\ pd \in Seq(Operators) /\ n \in Nat /\ DOMAIN pd = 1..n
      /\ t \in Seq(Operators) /\ Len(t) = n + 1 /\ DOMAIN t = 1..(n + 1)
      /\ \A k \in 1..n : t[k] = pd[k]
      /\ t[n + 1] = c
  BY DEF TPending
<1>0. TPending(t)
  BY <1>1, Sizes DEF TPending
<1> HIDE DEF t, n
<1>2. \A k \in 1..n : pd[k] # c
  BY <1>1, Zenon DEF In
<1>3. \A j, k \in 1..n : pd[j] = pd[k] => j = k
  BY <1>1, Zenon DEF OneEach
<1>4. \A k \in 1..(n + 1) : k \in 1..n \/ k = n + 1
  BY <1>1
<1>5. \A j, k \in 1..(n + 1) : t[j] = t[k] => j = k
  BY <1>1, <1>2, <1>3, <1>4, Zenon
<1>6. OneEach(t)
  BY <1>1, <1>5, Zenon DEF OneEach
<1>7. 1..n \subseteq 1..(n + 1) /\ n + 1 \in 1..(n + 1)
  BY <1>1
<1>8. ASSUME NEW x PROVE In(x, t) <=> (In(x, pd) \/ x = c)
  BY <1>1, <1>4, <1>7, Zenon DEF In
<1> QED BY <1>0, <1>6, <1>8, Zenon DEF t

\* Slot s of sl holds descriptor f and line l in new, and nothing else has
\* changed.
SlotIs(new, sl, s, f, l) ==
    /\ TSlots(new)
    /\ new[s].fd = f /\ new[s].line = l
    /\ \A t \in Slots : t # s => new[t] = sl[t]

\* The fields of a slot.
LEMMA SlotFields ==
    ASSUME NEW sl, TSlots(sl), NEW s \in Slots
    PROVE  sl[s].fd \in Operators \cup {None} /\ sl[s].line \in Lines
  BY Zenon DEF TSlots, Slot

\* A slot that is given both of its fields.
LEMMA SetSlot ==
    ASSUME NEW sl, TSlots(sl), NEW s \in Slots, NEW f \in Operators \cup {None}, NEW l \in Lines
    PROVE  SlotIs([sl EXCEPT ![s] = [fd |-> f, line |-> l]], sl, s, f, l)
  BY Zenon DEF TSlots, Slot, SlotIs

\* A slot that is given a line.
LEMMA SetLine ==
    ASSUME NEW sl, TSlots(sl), NEW s \in Slots, NEW l \in Lines
    PROVE  SlotIs([sl EXCEPT ![s].line = l], sl, s, sl[s].fd, l)
  BY Zenon DEF TSlots, Slot, SlotIs

\* Connections and slots stay matched when a line changes.
LEMMA MatchedLine ==
    ASSUME NEW sl, NEW cn, NEW pd, NEW new, NEW s \in Slots, NEW l,
           Matched(sl, cn, pd), SlotIs(new, sl, s, sl[s].fd, l)
    PROVE  Matched(new, cn, pd)
<1>1. \A t \in Slots : new[t].fd = sl[t].fd
  BY Zenon DEF SlotIs
<1>2. \A c : HasSlot(new, c) <=> HasSlot(sl, c)
  BY <1>1, Zenon DEF HasSlot
<1> QED BY <1>1, <1>2, Zenon DEF Matched

\* A connection that is closed gives its slot back.
LEMMA MatchedClose ==
    ASSUME NEW sl, NEW cn \in [Operators -> ConnStates], NEW pd, NEW new, NEW s \in Slots, NEW l,
           TSlots(sl), Matched(sl, cn, pd), sl[s].fd # None, SlotIs(new, sl, s, None, l)
    PROVE  Matched(new, [cn EXCEPT ![sl[s].fd] = "closed"], pd)
<1> DEFINE c == sl[s].fd
           dn == [cn EXCEPT ![c] = "closed"]
<1>1. c \in Operators
  BY SlotFields, Zenon
<1>2. dn[c] = "closed" /\ \A x \in Operators : x # c => dn[x] = cn[x]
  BY <1>1, Zenon
<1>3. ~In(c, pd) /\ cn[c] \in {"served", "left"} /\ c # None
  BY Zenon DEF Matched
<1>4. /\ new[s].fd = None
      /\ \A t \in Slots : t # s => new[t].fd = sl[t].fd
  BY Zenon DEF SlotIs
<1>5. \A t \in Slots : t # s => sl[t].fd # c
  BY Zenon DEF Matched
<1>6. \A x \in Operators : x # c => (HasSlot(new, x) <=> HasSlot(sl, x))
  <2>1. None \notin Operators
    BY CliConstants, Zenon
  <2> QED BY <1>4, <2>1, Zenon DEF HasSlot
<1> HIDE DEF c, dn
<1>7. \A t \in Slots : new[t].fd # None => t # s /\ new[t].fd = sl[t].fd /\ new[t].fd # c
  BY <1>4, <1>5, Zenon
<1>8. \A t \in Slots : new[t].fd # None => new[t].fd \in Operators
  BY SlotFields, Zenon DEF SlotIs
<1>9. \A t, u \in Slots : (new[t].fd # None /\ new[t].fd = new[u].fd) => t = u
  BY <1>7, ZenonT(60) DEF Matched
<1>10. \A t \in Slots : new[t].fd # None => dn[new[t].fd] \in {"served", "left"} /\ ~In(new[t].fd, pd)
  <2> TAKE t \in Slots
  <2> HAVE new[t].fd # None
  <2>1. t # s /\ new[t].fd = sl[t].fd /\ new[t].fd # c /\ new[t].fd \in Operators
    BY <1>7, <1>8, Zenon
  <2>2. dn[new[t].fd] = cn[new[t].fd]
    BY <1>2, <2>1, Zenon
  <2>3. sl[t].fd # None
    BY <2>1, Zenon
  <2>4. cn[sl[t].fd] \in {"served", "left"} /\ ~In(sl[t].fd, pd)
    BY <2>3, Zenon DEF Matched
  <2> QED BY <2>1, <2>2, <2>4, Zenon
<1>11. \A x \in Operators : dn[x] = "served" => HasSlot(new, x)
  BY <1>2, <1>6, Zenon DEF Matched
<1>12. \A x \in Operators : dn[x] = "left" => HasSlot(new, x) \/ In(x, pd)
  BY <1>2, <1>6, Zenon DEF Matched
<1>13. \A x \in Operators : dn[x] = "waiting" => In(x, pd)
  BY <1>2, Zenon DEF Matched
<1>14. \A x \in Operators : In(x, pd) => dn[x] \in {"waiting", "left"}
  BY <1>2, <1>3, Zenon DEF Matched
<1>15. OneEach(pd)
  BY Zenon DEF Matched
<1>16. Matched(new, dn, pd)
  BY <1>9, <1>10, <1>11, <1>12, <1>13, <1>14, <1>15, Zenon DEF Matched
<1> QED BY <1>16, Zenon DEF dn, c

\* A connection that is accepted gets a slot that was free.
LEMMA MatchedTake ==
    ASSUME NEW sl, NEW cn \in [Operators -> ConnStates], NEW pd, NEW new, NEW s \in Slots, NEW l,
           TSlots(sl), TPending(pd), Matched(sl, cn, pd), pd # <<>>, sl[s].fd = None,
           SlotIs(new, sl, s, Head(pd), l)
    PROVE  Matched(new, [cn EXCEPT ![Head(pd)] = "served"], Tail(pd))
<1> DEFINE c == Head(pd)
           dn == [cn EXCEPT ![c] = "served"]
           qd == Tail(pd)
<1>0. OneEach(pd)
  BY Zenon DEF Matched
<1>1. /\ c \in Operators /\ In(c, pd) /\ OneEach(qd)
      /\ \A x : In(x, qd) <=> (In(x, pd) /\ x # c)
  BY <1>0, QueueTail, Zenon
<1>2. dn[c] = "served" /\ \A x \in Operators : x # c => dn[x] = cn[x]
  BY <1>1, Zenon
<1>3. c # None /\ None \notin Operators
  BY <1>1, CliConstants, Zenon
<1> HIDE DEF c, dn, qd
<1>4. \A t \in Slots : sl[t].fd # c
  BY <1>1, <1>3, Zenon DEF Matched
<1>5. /\ new[s].fd = c
      /\ \A t \in Slots : t # s => new[t].fd = sl[t].fd
  BY Zenon DEF SlotIs, c
<1>6. /\ HasSlot(new, c)
      /\ \A x \in Operators : x # c => (HasSlot(new, x) <=> HasSlot(sl, x))
  BY <1>3, <1>5, Zenon DEF HasSlot
<1>8. \A t \in Slots : new[t].fd # None => new[t].fd \in Operators
  BY SlotFields, Zenon DEF SlotIs
<1>9. \A t, u \in Slots : (new[t].fd # None /\ new[t].fd = new[u].fd) => t = u
  <2> TAKE t, u \in Slots
  <2> HAVE new[t].fd # None /\ new[t].fd = new[u].fd
  <2>1. CASE t = s \/ u = s
    BY <1>4, <1>5, <2>1, Zenon
  <2>2. CASE t # s /\ u # s
    BY <1>5, <2>2, Zenon DEF Matched
  <2> QED BY <2>1, <2>2, ZenonT(60)
<1>10. \A t \in Slots : new[t].fd # None => dn[new[t].fd] \in {"served", "left"} /\ ~In(new[t].fd, qd)
  <2> TAKE t \in Slots
  <2> HAVE new[t].fd # None
  <2>1. CASE t = s
    BY <1>1, <1>2, <1>5, <2>1, Zenon
  <2>2. CASE t # s
    <3>1. new[t].fd = sl[t].fd /\ new[t].fd # c /\ new[t].fd \in Operators
      BY <1>4, <1>5, <1>8, <2>2, Zenon
    <3>2. dn[new[t].fd] = cn[new[t].fd]
      BY <1>2, <3>1, Zenon
    <3>3. sl[t].fd # None
      BY <3>1, Zenon
    <3>4. cn[sl[t].fd] \in {"served", "left"} /\ ~In(sl[t].fd, pd)
      BY <3>3, Zenon DEF Matched
    <3> QED BY <1>1, <3>1, <3>2, <3>4, Zenon
  <2> QED BY <2>1, <2>2, Zenon
<1>11. \A x \in Operators : dn[x] = "served" => HasSlot(new, x)
  BY <1>2, <1>6, ZenonT(60) DEF Matched
<1>12. \A x \in Operators : dn[x] = "left" => HasSlot(new, x) \/ In(x, qd)
  BY <1>1, <1>2, <1>6, Zenon DEF Matched
<1>13. \A x \in Operators : dn[x] = "waiting" => In(x, qd)
  BY <1>1, <1>2, Zenon DEF Matched
<1>14. \A x \in Operators : In(x, qd) => dn[x] \in {"waiting", "left"}
  BY <1>1, <1>2, Zenon DEF Matched
<1>16. Matched(new, dn, qd)
  BY <1>1, <1>9, <1>10, <1>11, <1>12, <1>13, <1>14, ZenonT(60) DEF Matched
<1> QED BY <1>16, Zenon DEF dn, c, qd

\* A change of connections that leaves the slots alone.
LEMMA MatchedConn ==
    ASSUME NEW sl, NEW cn, NEW dn, NEW pd, NEW qd, Matched(sl, cn, pd), OneEach(qd), TSlots(sl),
           \A x \in Operators : dn[x] = "served" => cn[x] = "served",
           \A x \in Operators : dn[x] = "left" => cn[x] = "served" \/ cn[x] = "left" \/ In(x, qd),
           \A x \in Operators : (dn[x] = "left" /\ cn[x] = "left" /\ In(x, pd)) => In(x, qd),
           \A x \in Operators : dn[x] = "waiting" => In(x, qd),
           \A x \in Operators : In(x, qd) => dn[x] \in {"waiting", "left"},
           \A x \in Operators : HasSlot(sl, x) => dn[x] \in {"served", "left"} /\ ~In(x, qd)
    PROVE  Matched(sl, dn, qd)
<1>1. \A s \in Slots : sl[s].fd # None => sl[s].fd \in Operators /\ HasSlot(sl, sl[s].fd)
  BY SlotFields, Zenon DEF HasSlot
<1>2. \A s, t \in Slots : (sl[s].fd # None /\ sl[s].fd = sl[t].fd) => s = t
  BY Zenon DEF Matched
<1>3. \A s \in Slots : sl[s].fd # None => dn[sl[s].fd] \in {"served", "left"} /\ ~In(sl[s].fd, qd)
  BY <1>1, Zenon
<1>4. \A c \in Operators : dn[c] = "served" => HasSlot(sl, c)
  BY Zenon DEF Matched
<1>5. \A c \in Operators : dn[c] = "left" => HasSlot(sl, c) \/ In(c, qd)
  BY Zenon DEF Matched
<1> QED BY <1>2, <1>3, <1>4, <1>5, Zenon DEF Matched

\* A slot in use, told by its operator.
LEMMA SlotConn ==
    ASSUME NEW sl, NEW cn, NEW pd, Matched(sl, cn, pd), NEW c \in Operators, HasSlot(sl, c)
    PROVE  cn[c] \in {"served", "left"} /\ ~In(c, pd)
<1>1. c # None
  BY CliConstants, Zenon
<1> QED BY <1>1, ZenonT(60) DEF HasSlot, Matched

-----------------------------------------------------------------------------
(* What was read and what was run.                                         *)

\* No characters are the empty sequence.
LEMMA CharsNone == ASSUME NEW c, NEW p \in Nat PROVE Chars(c, p, 0) = <<>>
<1>1. Chars(c, p, 0) \in Seq({c} \X Nat) /\ Len(Chars(c, p, 0)) = 0
  BY CharsAre, ZenonT(60)
<1> QED BY <1>1

\* A line begins empty.
LEMMA LineBegins ==
    ASSUME NEW c, NEW p \in Nat, From(c, p) = p
    PROVE  LineTo(c, p + 1) = <<>>
<1>1. p \in 0..p /\ p - p = 0 /\ p - p <= CLI_LINE_MAX - 1
  BY Sizes
<1>2. LineTo(c, p + 1) = Chars(c, p, p - p)
  BY <1>1, LineIs, ZenonT(60)
<1> QED BY <1>1, <1>2, CharsNone, Zenon

\* Nothing was read from a new client, and nothing run for it.
LEMMA UptoStart == ASSUME NEW c PROVE Upto(c, <<>>, <<>>, 0)
<1>1. From(c, 0) = 0 /\ Cardinality(EndsTo(c, 0)) = 0
  BY EndsNone, Zenon
<1>2. LineTo(c, 0 + 1) = <<>>
  BY <1>1, LineBegins, Zenon
<1>3. 0 \in 0..0 /\ Len(<<>>) = 0 /\ DOMAIN <<>> = {}
  OBVIOUS
<1> QED BY <1>1, <1>2, <1>3, Zenon DEF Upto, NoExit

\* A character ends a line where the script says so.
LEMMA NlEnds == ASSUME NEW c, NEW k PROVE IsNl(<<c, k>>) <=> IsEnd(c, k)
  BY Zenon DEF IsNl, IsEnd, Char

\* The rest of what was read goes to the line buffer.
LEMMA UptoGrows ==
    ASSUME NEW c, NEW line, NEW lines, NEW p \in Nat, NEW n \in Nat,
           Upto(c, line, lines, p), \A k \in (p + 1)..(p + n) : ~IsEnd(c, k)
    PROVE  Upto(c, Stored(line, Chars(c, p, n)), lines, p + n)
<1>1. /\ From(c, p) \in 0..p /\ Len(lines) = Cardinality(EndsTo(c, p))
      /\ line = LineTo(c, p + 1) /\ NoExit(lines)
  BY Zenon DEF Upto
<1>2. /\ Stored(line, Chars(c, p, n)) = LineTo(c, p + n + 1)
      /\ From(c, p + n) = From(c, p)
  BY <1>1, LineGrows, Zenon
<1>3. EndsTo(c, p + n) = EndsTo(c, p)
  BY EndsSame
<1>4. From(c, p + n) \in 0..(p + n)
  BY <1>1, <1>2
<1> QED BY <1>1, <1>2, <1>3, <1>4, Zenon DEF Upto

\* The end of the line is the e-th character read: the line that is run is
\* the one that was typed.
LEMMA UptoRuns ==
    ASSUME NEW c, NEW line, NEW lines \in Seq(Lines), NEW p \in Nat, NEW e \in Nat \ {0},
           Upto(c, line, lines, p), IsEnd(c, p + e),
           \A k \in (p + 1)..(p + (e - 1)) : ~IsEnd(c, k)
    PROVE  LET l == Stored(line, Chars(c, p, e - 1))
           IN  /\ l = LineTo(c, p + e)
               /\ Cardinality(EndsTo(c, p + e)) = Len(lines) + 1
               /\ (l \in Lines /\ ~IsExit(l)) => Upto(c, <<>>, Append(lines, l), p + e)
<1> DEFINE l == Stored(line, Chars(c, p, e - 1))
           q == p + e
<1>0. q \in Nat /\ e - 1 \in Nat /\ p + (e - 1) = q - 1 /\ p + (e - 1) + 1 = q /\ p < q
  OBVIOUS
<1>1. Upto(c, l, lines, p + (e - 1))
  BY <1>0, UptoGrows, Zenon
<1>2. l = LineTo(c, q) /\ NoExit(lines) /\ Len(lines) = Cardinality(EndsTo(c, p))
  BY <1>0, <1>1, Zenon DEF Upto
<1>3. Cardinality(EndsTo(c, q)) = Cardinality(EndsTo(c, p)) + 1 /\ From(c, q) = q
  <2>1. \A k \in (p + 1)..(q - 1) : ~IsEnd(c, k)
    BY <1>0, Zenon
  <2>2. IsEnd(c, q)
    BY Zenon
  <2> HIDE DEF q
  <2> QED BY <1>0, <2>1, <2>2, EndsMore, ZenonT(60)
<1> HIDE DEF l, q
<1>4. ASSUME l \in Lines, ~IsExit(l) PROVE Upto(c, <<>>, Append(lines, l), q)
  <2> DEFINE ml == Append(lines, l)
             n == Len(lines)
  <2>1. /\ n \in Nat /\ Len(ml) = n + 1 /\ DOMAIN ml = 1..(n + 1) /\ DOMAIN lines = 1..n
        /\ \A k \in 1..n : ml[k] = lines[k]
        /\ ml[n + 1] = l
    BY <1>4
  <2>5. Len(ml) = Cardinality(EndsTo(c, q))
    BY <1>2, <1>3, <2>1, Zenon
  <2> HIDE DEF ml, n
  <2>2. \A k \in 1..(n + 1) : k \in 1..n \/ k = n + 1
    BY <2>1
  <2>3. NoExit(ml)
    BY <1>2, <1>4, <2>1, <2>2, Zenon DEF NoExit
  <2>4. LineTo(c, q + 1) = <<>> /\ q \in 0..q
    BY <1>0, <1>3, LineBegins
  <2> QED BY <1>3, <2>3, <2>4, <2>5, Zenon DEF Upto, ml
<1>5. Cardinality(EndsTo(c, q)) = Len(lines) + 1
  BY <1>2, <1>3, Zenon
<1> QED BY <1>2, <1>4, <1>5, Zenon DEF l, q

\* A line that was typed is run next.
LEMMA RanMore ==
    ASSUME NEW c, NEW lines \in Seq(Lines), NEW l \in Lines, NEW n \in Nat, NEW q \in 1..n,
           RanOf(c, lines, n), NoExit(lines), IsEnd(c, q),
           Cardinality(EndsTo(c, q)) = Len(lines) + 1, l = LineTo(c, q)
    PROVE  RanOf(c, Append(lines, l), n) /\ ExitLast(Append(lines, l))
<1> DEFINE ml == Append(lines, l)
           m == Len(lines)
<1>1. /\ m \in Nat /\ Len(ml) = m + 1 /\ DOMAIN ml = 1..(m + 1) /\ DOMAIN lines = 1..m
      /\ \A k \in 1..m : ml[k] = lines[k]
      /\ ml[m + 1] = l
  OBVIOUS
<1>2. q \in EndsTo(c, n)
  BY Zenon DEF EndsTo
<1>3. Cardinality(EndsTo(c, q)) = m + 1
  BY Zenon
<1> HIDE DEF ml, m
<1>4. \A k \in 1..(m + 1) : k \in 1..m \/ k = m + 1
  BY <1>1
<1>5. RanOf(c, ml, n)
  <2> SUFFICES ASSUME NEW j \in 1..(m + 1)
               PROVE  \E k \in EndsTo(c, n) : j = Cardinality(EndsTo(c, k)) /\ ml[j] = LineTo(c, k)
    BY <1>1, Zenon DEF RanOf
  <2>1. CASE j \in 1..m
    BY <1>1, <2>1, Zenon DEF RanOf
  <2>2. CASE j = m + 1
    BY <1>1, <1>2, <1>3, <2>2, Zenon
  <2> QED BY <1>4, <2>1, <2>2, Zenon
<1>6. ExitLast(ml)
  BY <1>1, <1>4, Zenon DEF ExitLast, NoExit
<1> QED BY <1>5, <1>6, Zenon DEF ml

\* More characters take no line away.
LEMMA RanLater ==
    ASSUME NEW c, NEW lines, NEW n \in Nat, RanOf(c, lines, n)
    PROVE  RanOf(c, lines, n + 1)
<1>1. EndsTo(c, n) \subseteq EndsTo(c, n + 1)
  BY DEF EndsTo
<1> QED BY <1>1, Zenon DEF RanOf

\* The other slots keep what they hold.
LEMMA IdleStep ==
    ASSUME NEW sl, NEW new, NEW tk, NEW rn, NEW tk2, NEW rn2, NEW s, NEW f, NEW l,
           Idle(sl, tk, rn, s), SlotIs(new, sl, s, f, l),
           \A t \in Slots : (t # s /\ sl[t].fd # None)
                               => tk2[sl[t].fd] = tk[sl[t].fd] /\ rn2[sl[t].fd] = rn[sl[t].fd]
    PROVE  Idle(new, tk2, rn2, s)
  BY Zenon DEF Idle, SlotIs

\* All slots are idle when one more is.
LEMMA IdleAll ==
    ASSUME NEW sl, NEW tk, NEW rn, NEW s, Idle(sl, tk, rn, s),
           sl[s].fd # None => Upto(sl[s].fd, sl[s].line, rn[sl[s].fd], tk[sl[s].fd])
    PROVE  Idle(sl, tk, rn, 0)
  BY Zenon DEF Idle

\* 0 is no slot.
LEMMA IdleMost ==
    ASSUME NEW sl, NEW tk, NEW rn, NEW s \in Slots, Idle(sl, tk, rn, 0)
    PROVE  /\ Idle(sl, tk, rn, s)
           /\ sl[s].fd # None => Upto(sl[s].fd, sl[s].line, rn[sl[s].fd], tk[sl[s].fd])
<1>1. \A t \in Slots : t # 0
  BY DEF Slots
<1> QED BY <1>1, Zenon DEF Idle

-----------------------------------------------------------------------------
(* Every step keeps the invariant.                                         *)

\* The invariant holds at the start.
LEMMA InitIInv == ASSUME Init PROVE IInv
<1>1. Types
  <2>1. TLoop(pc, at, budget, ready)
    BY Sizes, TopBound DEF Init, TLoop, Pcs
  <2>2. TBuf(buf) /\ TPending(pending)
    BY Sizes DEF Init, TBuf, TPending
  <2>3. <<>> \in Lines
    BY Sizes DEF Lines
  <2>4. TSlots(slots)
    BY <2>3, Zenon DEF Init, TSlots, Slot, FreeSlot
  <2>5. TTyped(typed, taken)
    <3>1. \A c \in Operators : Len(Script[c]) \in Nat
      BY CliConstants
    <3> QED BY <3>1 DEF Init, TTyped
  <2>6. TRan(ran)
    BY DEF Init, TRan
  <2>7. /\ rxq \in [Devs -> 0..RXQ_MAX] /\ out \in [Operators -> 0..OUT_MAX]
        /\ conn \in [Operators -> ConnStates] /\ g_stop \in BOOLEAN
    <3>1. g_stop \in BOOLEAN
      BY Zenon DEF Init
    <3>2. /\ rxq \in [Devs -> 0..RXQ_MAX] /\ out \in [Operators -> 0..OUT_MAX]
          /\ conn \in [Operators -> ConnStates]
      BY Sizes DEF Init, ConnStates
    <3> QED BY <3>1, <3>2, Zenon
  <2> QED BY <2>1, <2>2, <2>4, <2>5, <2>6, <2>7, ZenonT(60) DEF Types
<1>2. History(typed, ran)
  <2>1. \A c \in Operators : ran[c] = <<>>
    BY Zenon DEF Init
  <2>2. DOMAIN <<>> = {}
    OBVIOUS
  <2> QED BY <2>1, <2>2, Zenon DEF History, RanOf, ExitLast
<1>3. \A s \in Slots : slots[s].fd = None
  BY Zenon DEF Init, FreeSlot
<1>4. \A c : ~In(c, pending)
  BY DEF Init, In
<1>5. OneEach(pending)
  BY DEF Init, OneEach
<1>6. \A c \in Operators : conn[c] = "out" /\ taken[c] = 0 /\ ran[c] = <<>>
  BY Zenon DEF Init
<1>7. Control(pc, at, ready, slots, pending)
  BY Zenon DEF Init, Control
<1>8. Matched(slots, conn, pending)
  BY <1>3, <1>4, <1>5, <1>6, Zenon DEF Matched
<1>9. Fresh(conn, pending, taken, ran)
  BY <1>6, Zenon DEF Fresh
<1>10. Reading(pc, at, buf, slots, taken, ran)
  <2>1. pc # "run"
    BY Zenon DEF Init
  <2> QED BY <1>3, <2>1, Zenon DEF Reading, Idle
<1> QED BY <1>1, <1>2, <1>7, <1>8, <1>9, <1>10, ZenonT(60) DEF IInv, Running

\* The loop runs where its position says so.
LEMMA StillRunning == ASSUME IInv, pc \notin {"done", "killed"} PROVE Types /\ Running
  BY Zenon DEF IInv, Over

\* What poll reports is there.
LEMMA PolledIs ==
    /\ Polled \subseteq Events
    /\ \A s \in Slots : <<"slot", s>> \in Polled => slots[s].fd # None
    /\ <<"listen", 0>> \in Polled => pending # <<>>
  BY DEF Polled, Events, Served

\* poll.
LEMMA PollStep == ASSUME IInv, poll PROVE IInv'
<1>1. Types /\ Running
  BY StillRunning, Zenon DEF poll
<1>2. /\ ready' = Polled /\ pc' \in {"tick", "rx"} /\ at' = 1 /\ budget' = RX_BATCH
      /\ UNCHANGED <<buf, rxq, pending, slots, conn, typed, taken, out, g_stop, ran>>
  BY Zenon DEF poll, world
<1>3. TLoop(pc', at', budget', ready')
  <2>1. pc' \in Pcs
    BY <1>2, Zenon DEF Pcs
  <2>2. 1 \in 0..Top /\ RX_BATCH \in 0..RX_BATCH
    BY TopBound, Sizes
  <2> QED BY <1>2, <2>1, <2>2, PolledIs, Zenon DEF TLoop
<1>4. Types'
  BY <1>1, <1>2, <1>3, Zenon DEF Types
<1>5. Control(pc', at', ready', slots', pending')
  BY <1>2, PolledIs, ZenonT(60) DEF Control
<1>6. Reading(pc', at', buf', slots', taken', ran')
  <2>1. pc # "run"
    BY Zenon DEF poll
  <2> QED BY <1>1, <1>2, <2>1, ZenonT(60) DEF Reading, Running
<1> QED BY <1>1, <1>2, <1>4, <1>5, <1>6, Zenon DEF IInv, Running

\* rx_drain.
LEMMA DrainStep == ASSUME IInv, rx_drain PROVE IInv'
<1>1. Types /\ Running
  BY StillRunning, Zenon DEF rx_drain
<1>2. /\ pc = "rx" /\ pc' \in {"rx", "accept"} /\ ready' \subseteq ready
      /\ UNCHANGED <<buf, pending, slots, conn, typed, taken, out, g_stop, ran>>
  BY Zenon DEF rx_drain
<1>3. TLoop(pc', at', budget', ready') /\ rxq' \in [Devs -> 0..RXQ_MAX]
  <2>0. TLoop(pc, at, budget, ready) /\ rxq \in [Devs -> 0..RXQ_MAX]
    BY <1>1, Zenon DEF Types
  <2>1. CASE <<"dev", at>> \in ready /\ budget > 0 /\ rxq[at] > 0
    <3>1. at \in Devs
      BY <2>0, <2>1, ZenonT(60) DEF TLoop, Events
    <3>2. rxq' \in [Devs -> 0..RXQ_MAX]
      BY <2>0, <2>1, <3>1, Sizes, SMTT(60) DEF rx_drain
    <3>3. budget' \in 0..RX_BATCH
      BY <2>0, <2>1, Sizes DEF rx_drain, TLoop, LeftAfter
    <3> QED BY <2>0, <2>1, <3>2, <3>3, ZenonT(60) DEF rx_drain, TLoop
  <2>2. CASE ~(<<"dev", at>> \in ready /\ budget > 0 /\ rxq[at] > 0)
    <3>1. at' \in 0..Top
      BY <2>0, <2>2, TopBound, Sizes, SMTT(60) DEF rx_drain, TLoop
    <3>2. pc' \in Pcs /\ budget' \in 0..RX_BATCH /\ rxq' = rxq
      BY <1>2, <2>2, Sizes DEF rx_drain, Pcs
    <3> QED BY <1>2, <2>0, <3>1, <3>2, Zenon DEF TLoop
  <2> QED BY <2>1, <2>2, ZenonT(60)
<1>4. Types'
  BY <1>1, <1>2, <1>3, ZenonT(60) DEF Types
<1>5. Control(pc', at', ready', slots', pending')
  BY <1>1, <1>2, ZenonT(60) DEF Control, Running
<1>6. Reading(pc', at', buf', slots', taken', ran')
  BY <1>1, <1>2, ZenonT(60) DEF Reading, Running
<1> QED BY <1>1, <1>2, <1>4, <1>5, <1>6, ZenonT(60) DEF IInv, Running

\* pf_tick.
LEMMA TickStep == ASSUME IInv, pf_tick PROVE IInv'
<1>1. Types /\ Running
  BY StillRunning, Zenon DEF pf_tick
<1>2. /\ pc = "tick" /\ pc' = "poll" /\ at' = 0 /\ ready' = {}
      /\ UNCHANGED <<budget, buf, rxq, pending, slots, conn, typed, taken, out, g_stop, ran>>
  BY Zenon DEF pf_tick
<1>3. TLoop(pc', at', budget', ready')
  <2>1. TLoop(pc, at, budget, ready)
    BY <1>1, Zenon DEF Types
  <2> QED BY <1>2, <2>1, TopBound DEF TLoop, Pcs
<1>4. Types'
  BY <1>1, <1>2, <1>3, Zenon DEF Types
<1>5. Control(pc', at', ready', slots', pending')
  BY <1>2, Zenon DEF Control
<1>6. Reading(pc', at', buf', slots', taken', ran')
  BY <1>1, <1>2, ZenonT(60) DEF Reading, Running
<1> QED BY <1>1, <1>2, <1>4, <1>5, <1>6, Zenon DEF IInv, Running

\* The end of main.
LEMMA ShutdownStep == ASSUME IInv, shutdown PROVE IInv'
<1>1. Types /\ History(typed, ran)
  BY Zenon DEF IInv
<1>2. /\ pc' = "done"
      /\ slots' = [s \in Slots |-> FreeSlot]
      /\ conn' = [c \in Operators |-> IF conn[c] = "out" THEN "out" ELSE "closed"]
      /\ pending' = <<>>
      /\ UNCHANGED <<at, budget, buf, ready, rxq, typed, taken, out, g_stop, ran>>
  BY Zenon DEF shutdown, cli_close
<1>3. TLoop(pc', at', budget', ready')
  <2>1. TLoop(pc, at, budget, ready)
    BY <1>1, Zenon DEF Types
  <2> QED BY <1>2, <2>1, Zenon DEF TLoop, Pcs
<1>4. TSlots(slots') /\ TPending(pending')
  <2>1. <<>> \in Lines
    BY Sizes DEF Lines
  <2> QED BY <1>2, <2>1, Sizes DEF TSlots, TPending, FreeSlot, Slot
<1>5. conn' \in [Operators -> ConnStates]
  BY <1>2, Zenon DEF ConnStates
<1>6. Types'
  BY <1>1, <1>2, <1>3, <1>4, <1>5, ZenonT(60) DEF Types
<1>7. Over'
  BY <1>2, Zenon DEF Over
<1> QED BY <1>1, <1>2, <1>6, <1>7, Zenon DEF IInv

\* What the environment does changes neither the loop nor the slots.
LEMMA WorldStep == ASSUME IInv, Environment PROVE IInv'
<1>1. Types /\ Running
  BY StillRunning, Zenon DEF Environment, Over
<1>2. ASSUME NEW d \in Devs, arrive(d) PROVE IInv'
  <2>1. /\ rxq[d] < RXQ_MAX /\ rxq' = [rxq EXCEPT ![d] = @ + 1]
        /\ UNCHANGED <<pc, at, budget, buf, ready, pending, slots, conn, typed, taken, out, g_stop, ran>>
    BY <1>2, Zenon DEF arrive, loop
  <2>2. rxq' \in [Devs -> 0..RXQ_MAX]
    <3>1. rxq \in [Devs -> 0..RXQ_MAX]
      BY <1>1, Zenon DEF Types
    <3> QED BY <2>1, <3>1, Sizes
  <2>3. Types'
    BY <1>1, <2>1, <2>2, Zenon DEF Types
  <2> QED BY <1>1, <2>1, <2>3, Zenon DEF IInv, Running
<1>3. ASSUME NEW c \in Operators, connect(c) PROVE IInv'
  <2>1. /\ conn[c] = "out" /\ Len(pending) < SOMAX
        /\ conn' = [conn EXCEPT ![c] = "waiting"] /\ pending' = Append(pending, c)
        /\ UNCHANGED <<pc, at, budget, buf, ready, rxq, slots, typed, taken, out, g_stop, ran>>
    BY <1>3, Zenon DEF connect, loop
  <2>2. /\ conn \in [Operators -> ConnStates] /\ TPending(pending) /\ TSlots(slots)
        /\ Matched(slots, conn, pending)
    BY <1>1, Zenon DEF Types, Running
  <2>3. ~In(c, pending) /\ OneEach(pending)
    BY <2>1, <2>2, Zenon DEF Matched
  <2>4. /\ TPending(pending') /\ OneEach(pending')
        /\ \A x : In(x, pending') <=> (In(x, pending) \/ x = c)
    BY <2>1, <2>2, <2>3, QueueMore, ZenonT(60)
  <2>5. /\ conn' \in [Operators -> ConnStates] /\ conn'[c] = "waiting"
        /\ \A x \in Operators : x # c => conn'[x] = conn[x]
    BY <2>1, <2>2, ZenonT(60) DEF ConnStates
  <2>6. Matched(slots', conn', pending')
    <3>1. \A x \in Operators : conn'[x] = "served" => conn[x] = "served"
      BY <2>5, Zenon
    <3>2. \A x \in Operators : conn'[x] = "left" => conn[x] = "left"
      BY <2>5, Zenon
    <3>3. \A x \in Operators : conn'[x] = "waiting" => In(x, pending')
      BY <2>2, <2>4, <2>5, Zenon DEF Matched
    <3>4. \A x \in Operators : In(x, pending') => conn'[x] \in {"waiting", "left"}
      BY <2>2, <2>4, <2>5, Zenon DEF Matched
    <3>5. \A x \in Operators : HasSlot(slots, x) => conn'[x] \in {"served", "left"} /\ ~In(x, pending')
      <4>1. ~HasSlot(slots, c)
        <5>1. ASSUME HasSlot(slots, c) PROVE FALSE
          BY <2>1, <2>2, <5>1, SlotConn, ZenonT(60)
        <5> QED BY <5>1, Zenon
      <4> QED BY <2>2, <2>4, <2>5, <4>1, SlotConn, ZenonT(60)
    <3>6. Matched(slots, conn', pending')
      BY <2>2, <2>4, <3>1, <3>2, <3>3, <3>4, <3>5, MatchedConn, ZenonT(60)
    <3> QED BY <2>1, <3>6, Zenon
  <2>7. Fresh(conn', pending', taken', ran')
    <3>1. Fresh(conn, pending, taken, ran)
      BY <1>1, Zenon DEF Running
    <3> QED BY <2>1, <2>4, <2>5, <3>1, Zenon DEF Fresh
  <2>8. Control(pc', at', ready', slots', pending')
    <3>1. pending' # <<>>
      BY <2>1, <2>2 DEF TPending
    <3>2. Control(pc, at, ready, slots, pending)
      BY <1>1, Zenon DEF Running
    <3> QED BY <2>1, <3>1, <3>2, Zenon DEF Control
  <2>9. Types'
    BY <1>1, <2>1, <2>4, <2>5, ZenonT(60) DEF Types
  <2> QED BY <1>1, <2>1, <2>6, <2>7, <2>8, <2>9, ZenonT(60) DEF IInv, Running
<1>4. ASSUME NEW c \in Operators, type(c) PROVE IInv'
  <2>1. /\ typed[c] < Len(Script[c]) /\ typed' = [typed EXCEPT ![c] = @ + 1]
        /\ UNCHANGED <<pc, at, budget, buf, ready, rxq, pending, slots, conn, taken, out, g_stop, ran>>
    BY <1>4, Zenon DEF type, loop
  <2>2. TTyped(typed, taken)
    BY <1>1, Zenon DEF Types
  <2>3. /\ typed[c] \in Nat /\ typed'[c] = typed[c] + 1
        /\ \A x \in Operators : x # c => typed'[x] = typed[x]
    BY <2>1, <2>2, ZenonT(60) DEF TTyped
  <2>4. TTyped(typed', taken')
    <3>1. Len(Script[c]) \in Nat
      BY CliConstants
    <3> QED BY <2>1, <2>2, <3>1 DEF TTyped
  <2>5. History(typed', ran')
    <3>1. History(typed, ran)
      BY Zenon DEF IInv
    <3>2. \A x \in Operators : RanOf(x, ran[x], typed[x]) /\ ExitLast(ran[x])
      BY <3>1, Zenon DEF History
    <3>3. RanOf(c, ran[c], typed[c] + 1)
      BY <2>3, <3>2, RanLater, Zenon
    <3>4. \A x \in Operators : RanOf(x, ran[x], typed'[x])
      BY <2>3, <3>2, <3>3, Zenon
    <3> QED BY <2>1, <3>2, <3>4, Zenon DEF History
  <2>6. Types'
    BY <1>1, <2>1, <2>4, Zenon DEF Types
  <2> QED BY <1>1, <2>1, <2>5, <2>6, ZenonT(60) DEF IInv, Running
<1>5. ASSUME NEW c \in Operators, read_reply(c) PROVE IInv'
  <2>1. /\ out' = [out EXCEPT ![c] = 0]
        /\ UNCHANGED <<pc, at, budget, buf, ready, rxq, pending, slots, conn, typed, taken, g_stop, ran>>
    BY <1>5, Zenon DEF read_reply, loop
  <2>2. out' \in [Operators -> 0..OUT_MAX]
    <3>1. out \in [Operators -> 0..OUT_MAX]
      BY <1>1, Zenon DEF Types
    <3> QED BY <2>1, <3>1, Sizes
  <2>3. Types'
    BY <1>1, <2>1, <2>2, Zenon DEF Types
  <2> QED BY <1>1, <2>1, <2>3, ZenonT(60) DEF IInv, Running
<1>6. ASSUME NEW c \in Operators, leave(c) PROVE IInv'
  <2>1. /\ conn[c] \in {"waiting", "served"}
        /\ conn' = [conn EXCEPT ![c] = "left"] /\ out' = [out EXCEPT ![c] = 0]
        /\ UNCHANGED <<pc, at, budget, buf, ready, rxq, pending, slots, typed, taken, g_stop, ran>>
    BY <1>6, Zenon DEF leave, loop
  <2>2. /\ conn \in [Operators -> ConnStates] /\ out \in [Operators -> 0..OUT_MAX]
        /\ TSlots(slots) /\ Matched(slots, conn, pending)
    BY <1>1, Zenon DEF Types, Running
  <2>3. out' \in [Operators -> 0..OUT_MAX]
    BY <2>1, <2>2, Sizes, SMTT(60)
  <2>4. /\ conn' \in [Operators -> ConnStates] /\ conn'[c] = "left"
        /\ \A x \in Operators : x # c => conn'[x] = conn[x]
    BY <2>1, <2>2, Zenon DEF ConnStates
  <2>5. Matched(slots', conn', pending')
    <3>0. OneEach(pending)
      BY <2>2, Zenon DEF Matched
    <3>1. \A x \in Operators : conn'[x] = "served" => conn[x] = "served"
      BY <2>4, Zenon
    <3>2. conn[c] = "waiting" => In(c, pending)
      BY <2>2, Zenon DEF Matched
    <3>3. \A x \in Operators : conn'[x] = "left" => conn[x] = "served" \/ conn[x] = "left" \/ In(x, pending)
      BY <2>1, <2>4, <3>2, Zenon
    <3>4. \A x \in Operators : conn'[x] = "waiting" => In(x, pending)
      BY <2>2, <2>4, Zenon DEF Matched
    <3>5. \A x \in Operators : In(x, pending) => conn'[x] \in {"waiting", "left"}
      BY <2>2, <2>4, Zenon DEF Matched
    <3>6. \A x \in Operators : HasSlot(slots, x) => conn'[x] \in {"served", "left"} /\ ~In(x, pending)
      BY <2>2, <2>4, SlotConn, Zenon
    <3>7. Matched(slots, conn', pending)
      BY <2>2, <3>0, <3>1, <3>3, <3>4, <3>5, <3>6, MatchedConn, ZenonT(60)
    <3> QED BY <2>1, <3>7, Zenon
  <2>6. Fresh(conn', pending', taken', ran')
    <3>1. Fresh(conn, pending, taken, ran)
      BY <1>1, Zenon DEF Running
    <3>2. \A x \in Operators : conn'[x] = "out" => conn[x] = "out"
      BY <2>4, ZenonT(60)
    <3> QED BY <2>1, <3>1, <3>2, ZenonT(60) DEF Fresh
  <2>7. Types'
    BY <1>1, <2>1, <2>3, <2>4, Zenon DEF Types
  <2> QED BY <1>1, <2>1, <2>5, <2>6, <2>7, ZenonT(60) DEF IInv, Running
<1>7. ASSUME app_on_signal PROVE IInv'
  <2>1. /\ g_stop' = TRUE
        /\ UNCHANGED <<pc, at, budget, buf, ready, rxq, pending, slots, conn, typed, taken, out, ran>>
    BY <1>7, Zenon DEF app_on_signal, loop
  <2>2. Types'
    BY <1>1, <2>1, Zenon DEF Types
  <2> QED BY <1>1, <2>1, <2>2, Zenon DEF IInv, Running
<1> QED BY <1>2, <1>3, <1>4, <1>5, <1>6, <1>7, ZenonT(60) DEF Environment

\* cli_accept.
LEMMA AcceptStep == ASSUME IInv, cli_accept PROVE IInv'
<1>1. Types /\ Running
  BY StillRunning, Zenon DEF cli_accept
<1>2. /\ pc = "accept" /\ at' = 1 /\ ready' = ready \ {<<"listen", 0>>} /\ pc' \in {"slot", "killed"}
      /\ UNCHANGED <<budget, buf, rxq, typed, taken, g_stop, ran>>
  BY ZenonT(60) DEF cli_accept, Write
<1>3. TLoop(pc', at', budget', ready') /\ at' \in Slots
  <2>1. TLoop(pc, at, budget, ready)
    BY <1>1, Zenon DEF Types
  <2>2. 1 \in 0..Top /\ 1 \in Slots /\ pc' \in Pcs
    BY <1>2, TopBound, Sizes DEF Slots, Pcs
  <2>3. ready' \subseteq Events
    BY <1>2, <2>1, ZenonT(60) DEF TLoop
  <2> QED BY <1>2, <2>1, <2>2, <2>3, ZenonT(60) DEF TLoop
<1>4. /\ TSlots(slots) /\ TPending(pending) /\ conn \in [Operators -> ConnStates]
      /\ out \in [Operators -> 0..OUT_MAX] /\ Matched(slots, conn, pending)
      /\ Control(pc, at, ready, slots, pending) /\ Fresh(conn, pending, taken, ran)
      /\ History(typed, ran)
  BY <1>1, ZenonT(60) DEF Types, Running, IInv
<1>5. Idle(slots, taken, ran, 0)
  BY <1>1, <1>2, ZenonT(60) DEF Reading, Running
<1>6. <<"listen", 0>> \notin ready'
  BY <1>2, Zenon
<1>7. CASE <<"listen", 0>> \notin ready
  <2>1. pc' = "slot" /\ UNCHANGED <<pending, slots, conn, out>>
    BY <1>7, Zenon DEF cli_accept
  <2>2. Types'
    BY <1>1, <1>2, <1>3, <2>1, ZenonT(60) DEF Types
  <2>3. Control(pc', at', ready', slots', pending')
    BY <1>2, <1>3, <1>4, <1>6, <2>1, ZenonT(60) DEF Control
  <2>4. Reading(pc', at', buf', slots', taken', ran')
    BY <1>2, <1>5, <2>1, ZenonT(60) DEF Reading
  <2> QED BY <1>1, <1>2, <1>4, <2>1, <2>2, <2>3, <2>4, ZenonT(60) DEF IInv, Running
<1>8. CASE <<"listen", 0>> \in ready
  <2> DEFINE c == Head(pending)
  <2>1. pending # <<>> /\ OneEach(pending)
    BY <1>4, <1>8, Zenon DEF Control, Matched
  <2>2. /\ c \in Operators /\ In(c, pending)
        /\ TPending(Tail(pending)) /\ OneEach(Tail(pending))
        /\ \A x : In(x, Tail(pending)) <=> (In(x, pending) /\ x # c)
    BY <1>4, <2>1, QueueTail, ZenonT(60)
  <2>3. pending' = Tail(pending)
    BY <1>8, Zenon DEF cli_accept
  <2>4. conn[c] \in {"waiting", "left"} /\ taken[c] = 0 /\ ran[c] = <<>>
    BY <1>4, <2>2, Zenon DEF Matched, Fresh
  <2>5. ASSUME \A x \in Operators : conn'[x] = "out" => conn[x] = "out"
        PROVE  Fresh(conn', pending', taken', ran')
    BY <1>2, <1>4, <2>2, <2>3, <2>5, ZenonT(60) DEF Fresh
  <2>6. CASE Served = Slots
    <3>1. conn' = [conn EXCEPT ![c] = "closed"] /\ pc' = "slot" /\ UNCHANGED <<slots, out>>
      BY <1>8, <2>6, ZenonT(60) DEF cli_accept
    <3> HIDE DEF c
    <3>2. /\ conn' \in [Operators -> ConnStates] /\ conn'[c] = "closed"
          /\ \A x \in Operators : x # c => conn'[x] = conn[x]
      BY <1>4, <2>2, <3>1, ZenonT(60) DEF ConnStates
    <3>3. Matched(slots, conn', pending')
      <4>1. \A x \in Operators : conn'[x] = "served" => conn[x] = "served"
        BY <3>2, Zenon
      <4>2. \A x \in Operators : conn'[x] = "left" => conn[x] = "left"
        BY <3>2, Zenon
      <4>3. \A x \in Operators : (conn'[x] = "left" /\ conn[x] = "left" /\ In(x, pending)) => In(x, pending')
        BY <2>2, <2>3, <3>2, ZenonT(60)
      <4>4. \A x \in Operators : conn'[x] = "waiting" => In(x, pending')
        BY <1>4, <2>2, <2>3, <3>2, Zenon DEF Matched
      <4>5. \A x \in Operators : In(x, pending') => conn'[x] \in {"waiting", "left"}
        BY <1>4, <2>2, <2>3, <3>2, Zenon DEF Matched
      <4>6. \A x \in Operators : HasSlot(slots, x) => conn'[x] \in {"served", "left"} /\ ~In(x, pending')
        <5>1. ~HasSlot(slots, c)
          BY <1>4, <2>2, SlotConn, Zenon
        <5> QED BY <1>4, <2>2, <2>3, <3>2, <5>1, SlotConn, ZenonT(60)
      <4>7. OneEach(pending')
        BY <2>2, <2>3, Zenon
      <4> QED BY <1>4, <4>1, <4>2, <4>3, <4>4, <4>5, <4>6, <4>7, MatchedConn, ZenonT(60)
    <3>4. Fresh(conn', pending', taken', ran')
      BY <2>5, <3>2, ZenonT(60)
    <3>5. Control(pc', at', ready', slots', pending')
      BY <1>2, <1>3, <1>4, <1>6, <3>1, ZenonT(60) DEF Control
    <3>6. Reading(pc', at', buf', slots', taken', ran')
      BY <1>2, <1>5, <3>1, ZenonT(60) DEF Reading
    <3>7. Types'
      BY <1>1, <1>2, <1>3, <2>2, <2>3, <3>1, <3>2, ZenonT(60) DEF Types
    <3> QED BY <1>2, <1>4, <3>1, <3>3, <3>4, <3>5, <3>6, <3>7, ZenonT(60) DEF IInv, Running
  <2>7. CASE Served # Slots
    <3>1. PICK s \in Slots : FirstFree(s) /\ slots' = [slots EXCEPT ![s] = NewClient(s, c)]
      BY <1>8, <2>7, ZenonT(60) DEF cli_accept
    <3>2. /\ conn' = IF conn[c] = "waiting" THEN [conn EXCEPT ![c] = "served"] ELSE conn
          /\ Write(c, "slot")
      BY <1>8, <2>7, ZenonT(60) DEF cli_accept
    <3>3. slots[s].fd = None
      BY <3>1, Zenon DEF FirstFree, Served
    <3> HIDE DEF c
    <3>4. SlotIs(slots', slots, s, c, <<>>)
      <4>1. <<>> \in Lines
        BY Sizes DEF Lines
      <4>2. slots' = [slots EXCEPT ![s] = [fd |-> c, line |-> <<>>]]
        BY <3>1, Zenon DEF NewClient
      <4> QED BY <1>4, <2>2, <4>1, <4>2, SetSlot, ZenonT(60)
    <3>5. TSlots(slots')
      BY <3>4, Zenon DEF SlotIs
    <3>6. CASE conn[c] = "left"
      <4>1. pc' = "killed" /\ out' = out /\ conn' = conn
        BY <3>2, <3>6, ZenonT(60) DEF Write
      <4>2. Types'
        BY <1>1, <1>2, <1>3, <2>2, <2>3, <3>5, <4>1, ZenonT(60) DEF Types
      <4> QED BY <1>2, <1>4, <4>1, <4>2, ZenonT(60) DEF IInv, Over
    <3>7. CASE conn[c] = "waiting"
      <4>1. /\ pc' = "slot" /\ out[c] < OUT_MAX /\ out' = [out EXCEPT ![c] = @ + 1]
            /\ conn' = [conn EXCEPT ![c] = "served"]
        BY <3>2, <3>7, ZenonT(60) DEF Write
      <4>2. out' \in [Operators -> 0..OUT_MAX]
        BY <1>4, <2>2, <4>1, Sizes, SMTT(60)
      <4>3. /\ conn' \in [Operators -> ConnStates]
            /\ \A x \in Operators : conn'[x] = "out" => conn[x] = "out"
        BY <1>4, <2>2, <4>1, Zenon DEF ConnStates
      <4>4. Matched(slots', conn', pending')
        <5>1. SlotIs(slots', slots, s, Head(pending), <<>>)
          BY <3>4, Zenon DEF c
        <5>2. Matched(slots', [conn EXCEPT ![Head(pending)] = "served"], Tail(pending))
          BY <1>4, <2>1, <3>3, <5>1, MatchedTake, ZenonT(60)
        <5> QED BY <2>3, <4>1, <5>2, Zenon DEF c
      <4>5. Fresh(conn', pending', taken', ran')
        BY <2>5, <4>3, Zenon
      <4>6. Control(pc', at', ready', slots', pending')
        <5>1. slots'[s].fd = c /\ c # None
          BY <2>2, <3>4, CliConstants, ZenonT(60) DEF SlotIs
        <5>2. \A t \in Slots : slots[t].fd # None => slots'[t].fd # None
          BY <3>4, <5>1, ZenonT(60) DEF SlotIs
        <5>3. \A t \in Slots : <<"slot", t>> \in ready' => slots'[t].fd # None
          BY <1>2, <1>4, <5>2, ZenonT(60) DEF Control
        <5> QED BY <1>3, <1>6, <4>1, <5>3, ZenonT(60) DEF Control
      <4>7. Idle(slots', taken', ran', 0)
        <5>1. Idle(slots, taken, ran, s)
          BY <1>5, IdleMost, ZenonT(60)
        <5>2. Idle(slots', taken, ran, s)
          BY <3>4, <5>1, IdleStep, Zenon
        <5>3. Upto(c, <<>>, <<>>, 0)
          BY UptoStart, Zenon
        <5>4. slots'[s].fd = c /\ slots'[s].line = <<>>
          BY <3>4, Zenon DEF SlotIs
        <5>5. Upto(slots'[s].fd, slots'[s].line, ran[slots'[s].fd], taken[slots'[s].fd])
          BY <2>4, <5>3, <5>4, ZenonT(60)
        <5> QED BY <1>2, <5>2, <5>5, IdleAll, ZenonT(60)
      <4>8. Reading(pc', at', buf', slots', taken', ran')
        BY <4>1, <4>7, ZenonT(60) DEF Reading
      <4>9. Types'
        BY <1>1, <1>2, <1>3, <2>2, <2>3, <3>5, <4>2, <4>3, ZenonT(60) DEF Types
      <4> QED BY <1>2, <1>4, <4>4, <4>5, <4>6, <4>8, <4>9, ZenonT(60) DEF IInv, Running
    <3> QED BY <2>4, <3>6, <3>7, ZenonT(60) DEF c
  <2> QED BY <2>6, <2>7, ZenonT(60)
<1> QED BY <1>7, <1>8, ZenonT(60)

\* The loop goes on to the next slot.
LEMMA NextSlotStep ==
    ASSUME TLoop(pc, at, budget, ready), at \in Slots, budget' = budget, NextSlot
    PROVE  /\ pc' \in {"slot", "tick"}
           /\ ready' = ready \ {<<"slot", at>>}
           /\ TLoop(pc', at', budget', ready')
           /\ pc' = "slot" => at' \in Slots
<1>1. pc' \in {"slot", "tick"} /\ ready' = ready \ {<<"slot", at>>}
  BY Zenon DEF NextSlot
<1>2. at' \in 0..Top /\ (pc' = "slot" => at' \in Slots)
  BY TopBound, Sizes DEF NextSlot, Slots
<1>3. ready' \subseteq Events /\ pc' \in Pcs
  BY <1>1, ZenonT(60) DEF TLoop, Pcs
<1> QED BY <1>1, <1>2, <1>3, Zenon DEF TLoop

\* What the loop knows of the slots after the one it leaves.
LEMMA NextSlotControl ==
    ASSUME NEW sl, NEW new, NEW pd, NEW a \in Slots, NEW r, NEW p, NEW p2, NEW a2, NEW f, NEW l,
           Control(p, a, r, sl, pd), SlotIs(new, sl, a, f, l),
           p2 \in {"slot", "tick"}, p2 = "slot" => a2 \in Slots
    PROVE  Control(p2, a2, r \ {<<"slot", a>>}, new, pd)
<1>1. \A s \in Slots : <<"slot", s>> \in r \ {<<"slot", a>>} => s # a /\ <<"slot", s>> \in r
  BY Zenon
<1>2. \A s \in Slots : <<"slot", s>> \in r \ {<<"slot", a>>} => new[s].fd # None
  BY <1>1, Zenon DEF Control, SlotIs
<1>3. <<"listen", 0>> \in r \ {<<"slot", a>>} => pd # <<>>
  BY Zenon DEF Control
<1> QED BY <1>2, <1>3, ZenonT(60) DEF Control

\* The operator of the slot the loop is at, when poll has reported it.
LEMMA AtSlot ==
    ASSUME Types, Running, at \in Slots, <<"slot", at>> \in ready
    PROVE  /\ slots[at].fd \in Operators /\ slots[at].fd # None /\ slots[at].line \in Lines
           /\ ~In(slots[at].fd, pending) /\ conn[slots[at].fd] \in {"served", "left"}
           /\ \A t \in Slots : (t # at /\ slots[t].fd # None) => slots[t].fd # slots[at].fd
<1>1. /\ TSlots(slots) /\ Control(pc, at, ready, slots, pending) /\ Matched(slots, conn, pending)
  BY Zenon DEF Types, Running
<1>2. slots[at].fd # None
  BY <1>1, Zenon DEF Control
<1>3. slots[at].fd \in Operators /\ slots[at].line \in Lines
  BY <1>1, <1>2, SlotFields, ZenonT(60)
<1>4. ~In(slots[at].fd, pending) /\ conn[slots[at].fd] \in {"served", "left"}
  BY <1>1, <1>2, Zenon DEF Matched
<1>5. \A t \in Slots : (t # at /\ slots[t].fd # None) => slots[t].fd # slots[at].fd
  BY <1>1, Zenon DEF Matched
<1> QED BY <1>2, <1>3, <1>4, <1>5, Zenon

\* A function on the first numbers is a sequence.
LEMMA SeqFrom == ASSUME NEW S, NEW n \in Nat, NEW g \in [1..n -> S] PROVE g \in Seq(S)
  OBVIOUS

\* A sequence without elements is empty.
LEMMA SeqEmpty == ASSUME NEW S, NEW s \in Seq(S), s # <<>> PROVE Len(s) # 0
  OBVIOUS

\* What is typed and not read fits the types.
LEMMA CharsTyped ==
    ASSUME NEW c \in Operators, NEW p \in Nat, NEW n \in Nat, p + n <= Len(Script[c])
    PROVE  Chars(c, p, n) \in Seq(AllTyped)
<1>1. Len(Script[c]) \in Nat
  BY CliConstants
<1>2. \A k \in 1..n : p + k \in 1..Len(Script[c])
  BY <1>1
<1>3. \A k \in 1..n : <<c, p + k>> \in Typed(c)
  BY <1>2, Zenon DEF Typed
<1>4. Typed(c) \subseteq AllTyped
  BY Zenon DEF AllTyped
<1>5. \A k \in 1..n : <<c, p + k>> \in AllTyped
  BY <1>3, <1>4, Zenon
<1>6. Chars(c, p, n) \in [1..n -> AllTyped]
  BY <1>5, Zenon DEF Chars
<1> QED BY <1>6, SeqFrom, Zenon

\* The read of cli_client_input.
LEMMA ReadStep == ASSUME IInv, cli_client_read PROVE IInv'
<1>1. Types /\ Running
  BY StillRunning, ZenonT(60) DEF cli_client_read
<1>2. pc = "slot" /\ UNCHANGED <<budget, rxq, pending, typed, out, g_stop, ran>>
  BY Zenon DEF cli_client_read
<1>3. /\ TLoop(pc, at, budget, ready) /\ TSlots(slots) /\ conn \in [Operators -> ConnStates]
      /\ TTyped(typed, taken) /\ TPending(pending)
      /\ Control(pc, at, ready, slots, pending) /\ Matched(slots, conn, pending)
      /\ Fresh(conn, pending, taken, ran) /\ History(typed, ran)
  BY <1>1, ZenonT(60) DEF Types, Running, IInv
<1>4. at \in Slots /\ Idle(slots, taken, ran, 0)
  BY <1>1, <1>2, <1>3, ZenonT(60) DEF Control, Reading, Running
<1>5. CASE <<"slot", at>> \notin ready
  <2>1. NextSlot /\ UNCHANGED <<buf, slots, conn, taken>>
    BY <1>5, ZenonT(60) DEF cli_client_read
  <2>2. /\ pc' \in {"slot", "tick"} /\ ready' = ready \ {<<"slot", at>>}
        /\ TLoop(pc', at', budget', ready') /\ (pc' = "slot" => at' \in Slots)
    BY <1>2, <1>3, <1>4, <2>1, NextSlotStep, ZenonT(60)
  <2>3. Types'
    BY <1>1, <1>2, <2>1, <2>2, ZenonT(60) DEF Types
  <2>4. Control(pc', at', ready', slots', pending')
    BY <1>2, <1>3, <2>1, <2>2, ZenonT(60) DEF Control
  <2>5. Reading(pc', at', buf', slots', taken', ran')
    BY <1>2, <1>4, <2>1, <2>2, ZenonT(60) DEF Reading
  <2> QED BY <1>2, <1>3, <2>1, <2>3, <2>4, <2>5, ZenonT(60) DEF IInv, Running
<1>6. CASE <<"slot", at>> \in ready
  <2> DEFINE c == slots[at].fd
             n == Min({READ_MAX, typed[c] - taken[c]})
  <2>1. /\ c \in Operators /\ c # None /\ slots[at].line \in Lines
        /\ ~In(c, pending) /\ conn[c] \in {"served", "left"}
        /\ \A t \in Slots : (t # at /\ slots[t].fd # None) => slots[t].fd # c
    BY <1>1, <1>4, <1>6, AtSlot, ZenonT(60)
  <2>2. /\ typed[c] \in Nat /\ taken[c] \in Nat /\ taken[c] <= typed[c] /\ typed[c] <= Len(Script[c])
        /\ Len(Script[c]) \in Nat
    <3> HIDE DEF c
    <3>1. Script[c] \in Seq(STRING)
      BY <2>1, CliConstants, ZenonT(60)
    <3>2. Len(Script[c]) \in Nat
      BY <3>1
    <3>3. typed[c] \in Nat /\ taken[c] \in Nat /\ taken[c] <= typed[c] /\ typed[c] <= Len(Script[c])
      BY <1>3, <2>1, ZenonT(60) DEF TTyped
    <3> QED BY <3>2, <3>3, ZenonT(60)
  <2>3. CASE n = 0
    <3>1. NextSlot /\ Close(at, slots[at].line) /\ UNCHANGED <<buf, taken>>
      BY <1>6, <2>3, ZenonT(60) DEF cli_client_read
    <3>2. /\ pc' \in {"slot", "tick"} /\ ready' = ready \ {<<"slot", at>>}
          /\ TLoop(pc', at', budget', ready') /\ (pc' = "slot" => at' \in Slots)
      BY <1>2, <1>3, <1>4, <3>1, NextSlotStep, Zenon
    <3>3. /\ slots' = [slots EXCEPT ![at] = [fd |-> None, line |-> slots[at].line]]
          /\ conn' = [conn EXCEPT ![slots[at].fd] = "closed"]
      BY <3>1, ZenonT(60) DEF Close
    <3> HIDE DEF c, n
    <3>4. SlotIs(slots', slots, at, None, slots[at].line)
      BY <1>3, <1>4, <2>1, <3>3, SetSlot, Zenon
    <3>5. Matched(slots', conn', pending')
      <4>1. Matched(slots', [conn EXCEPT ![slots[at].fd] = "closed"], pending)
        BY <1>3, <1>4, <2>1, <3>4, MatchedClose, ZenonT(60) DEF c
      <4> QED BY <1>2, <3>3, <4>1, Zenon
    <3>6. conn' \in [Operators -> ConnStates] /\ \A x \in Operators : conn'[x] = "out" => conn[x] = "out"
      BY <1>3, <2>1, <3>3, ZenonT(60) DEF ConnStates, c
    <3>7. Fresh(conn', pending', taken', ran')
      BY <1>2, <1>3, <3>1, <3>6, Zenon DEF Fresh
    <3>8. Control(pc', at', ready', slots', pending')
      <4>1. Control(pc', at', ready \ {<<"slot", at>>}, slots', pending)
        BY <1>3, <1>4, <3>2, <3>4, NextSlotControl, ZenonT(60)
      <4> QED BY <1>2, <3>2, <4>1, Zenon
    <3>9. Idle(slots', taken', ran', 0)
      <4>1. Idle(slots, taken, ran, at)
        BY <1>4, IdleMost, ZenonT(60)
      <4>2. Idle(slots', taken, ran, at)
        BY <3>4, <4>1, IdleStep, Zenon
      <4>3. slots'[at].fd = None
        BY <3>4, ZenonT(60) DEF SlotIs
      <4> QED BY <1>2, <3>1, <4>2, <4>3, IdleAll, ZenonT(60)
    <3>10. Reading(pc', at', buf', slots', taken', ran')
      BY <3>2, <3>9, ZenonT(60) DEF Reading
    <3>11. TSlots(slots')
      BY <3>4, Zenon DEF SlotIs
    <3>12. Types'
      BY <1>1, <1>2, <3>1, <3>2, <3>6, <3>11, ZenonT(60) DEF Types
    <3> QED BY <1>2, <1>3, <3>5, <3>7, <3>8, <3>10, <3>12, ZenonT(60) DEF IInv, Running
  <2>4. CASE n # 0
    <3>1. /\ buf' = [k \in 1..n |-> <<c, taken[c] + k>>]
          /\ taken' = [taken EXCEPT ![c] = @ + n]
          /\ pc' = "run"
          /\ UNCHANGED <<at, ready, slots, conn>>
      BY <1>6, <2>4, ZenonT(60) DEF cli_client_read
    <3>2. n \in Nat \ {0} /\ n <= READ_MAX /\ taken[c] + n <= typed[c]
      <4> HIDE DEF c
      <4>1. n = IF READ_MAX <= typed[c] - taken[c] THEN READ_MAX ELSE typed[c] - taken[c]
        BY <2>2, MinTwo, Sizes
      <4> QED BY <2>2, <2>4, <4>1, Sizes
    <3> HIDE DEF c, n
    <3>3. buf' = Chars(c, taken[c], n)
      BY <3>1, Zenon DEF Chars
    <3>4. TBuf(buf') /\ Len(buf') = n
      <4>1. buf' \in Seq(AllTyped)
        BY <2>1, <2>2, <3>2, <3>3, CharsTyped, SMTT(60)
      <4>2. Len(buf') = n
        BY <2>2, <3>2, <3>3, CharsAre, ZenonT(60)
      <4> QED BY <3>2, <4>1, <4>2, ZenonT(60) DEF TBuf
    <3>5. /\ taken'[c] = taken[c] + n
          /\ \A x \in Operators : x # c => taken'[x] = taken[x]
      BY <1>3, <2>1, <3>1, ZenonT(60) DEF TTyped
    <3>6. TTyped(typed', taken')
      <4>1. taken' \in [Operators -> Nat]
        <5>1. taken[c] + n \in Nat
          BY <2>2, <3>2
        <5> QED BY <1>3, <2>1, <3>1, <5>1, ZenonT(60) DEF TTyped
      <4>2. \A x \in Operators : taken'[x] <= typed[x]
        BY <1>3, <2>1, <3>2, <3>5, Zenon DEF TTyped
      <4> QED BY <1>2, <1>3, <4>1, <4>2, ZenonT(60) DEF TTyped
    <3>7. TLoop(pc', at', budget', ready')
      BY <1>2, <1>3, <3>1, Zenon DEF TLoop, Pcs
    <3>8. Types'
      BY <1>1, <1>2, <3>1, <3>4, <3>6, <3>7, Zenon DEF Types
    <3>9. Control(pc', at', ready', slots', pending')
      BY <1>2, <1>3, <1>4, <1>6, <3>1, ZenonT(60) DEF Control
    <3>10. Fresh(conn', pending', taken', ran')
      <4>1. conn[c] # "out" /\ ~In(c, pending)
        BY <2>1, ZenonT(60)
      <4> QED BY <1>2, <1>3, <3>1, <3>5, <4>1, Zenon DEF Fresh
    <3>11. Idle(slots', taken', ran', at')
      <4>1. Idle(slots, taken, ran, at)
        BY <1>4, IdleMost, Zenon
      <4>2. \A t \in Slots : slots[t].fd # None => slots[t].fd \in Operators
        BY <1>3, SlotFields, Zenon
      <4>3. \A t \in Slots : (t # at /\ slots[t].fd # None) => taken'[slots[t].fd] = taken[slots[t].fd]
        BY <2>1, <3>5, <4>2, Zenon
      <4>4. Idle(slots, taken', ran, at)
        BY <4>1, <4>3, Zenon DEF Idle
      <4> QED BY <1>2, <3>1, <4>4, ZenonT(60)
    <3>12. Busy(c, slots[at].line, ran[c], buf', taken'[c])
      <4>1. Upto(c, slots[at].line, ran[c], taken[c])
        BY <1>4, <2>1, IdleMost, ZenonT(60) DEF c
      <4>2. n \in 1..taken'[c] /\ taken'[c] - n = taken[c]
        BY <2>2, <3>2, <3>5
      <4> QED BY <3>3, <3>4, <4>1, <4>2, ZenonT(60) DEF Busy
    <3>13. Reading(pc', at', buf', slots', taken', ran')
      BY <1>2, <3>1, <3>11, <3>12, ZenonT(60) DEF Reading, c
    <3> QED BY <1>2, <1>3, <3>1, <3>8, <3>9, <3>10, <3>13, ZenonT(60) DEF IInv, Running
  <2> QED BY <2>3, <2>4, ZenonT(60)
<1> QED BY <1>5, <1>6, Zenon

\* While a read is looked at: what is left of it follows on what the line
\* buffer and the lines run so far account for.
LEMMA AtRun ==
    ASSUME IInv, pc = "run"
    PROVE  LET c == slots[at].fd
               n == Len(buf)
               p == taken[c] - n
           IN  /\ at \in Slots /\ <<"slot", at>> \in ready /\ Idle(slots, taken, ran, at)
               /\ c \in Operators /\ slots[at].line \in Lines
               /\ n \in Nat \ {0} /\ p \in Nat /\ p + n = taken[c] /\ taken[c] <= typed[c] /\ typed[c] \in Nat
               /\ buf = Chars(c, p, n) /\ DOMAIN buf = 1..n
               /\ Upto(c, slots[at].line, ran[c], p)
               /\ \A k \in 1..n : IsNl(buf[k]) <=> IsEnd(c, p + k)
<1> DEFINE c == slots[at].fd
           n == Len(buf)
           p == taken[c] - n
<1>1. Types /\ Running
  BY StillRunning, Zenon
<1>2. at \in Slots /\ <<"slot", at>> \in ready
  BY <1>1, Zenon DEF Running, Control
<1>3. c \in Operators /\ slots[at].line \in Lines
  BY <1>1, <1>2, AtSlot, ZenonT(60)
<1>4. Idle(slots, taken, ran, at) /\ Busy(c, slots[at].line, ran[c], buf, taken[c])
  BY <1>1, Zenon DEF Running, Reading
<1>5. TTyped(typed, taken)
  BY <1>1, ZenonT(60) DEF Types
<1> HIDE DEF c
<1>6. taken[c] \in Nat /\ typed[c] \in Nat /\ taken[c] <= typed[c]
  BY <1>3, <1>5, ZenonT(60) DEF TTyped
<1>7. n \in 1..taken[c] /\ buf = Chars(c, p, n) /\ Upto(c, slots[at].line, ran[c], p)
  BY <1>4, ZenonT(60) DEF Busy
<1> HIDE DEF n
<1>8. n \in Nat \ {0} /\ p \in Nat /\ p + n = taken[c]
  <2>1. n \in 1..taken[c] /\ taken[c] \in Nat
    BY <1>6, <1>7, Zenon
  <2> QED BY <2>1
<1> HIDE DEF p
<1>9. DOMAIN buf = 1..n /\ \A k \in 1..n : buf[k] = <<c, p + k>>
  <2>1. DOMAIN Chars(c, p, n) = 1..n /\ \A k \in 1..n : Chars(c, p, n)[k] = <<c, p + k>>
    BY <1>8, CharsAre, ZenonT(60)
  <2> QED BY <1>7, <2>1, ZenonT(60)
<1>10. \A k \in 1..n : IsNl(buf[k]) <=> IsEnd(c, p + k)
  BY <1>9, NlEnds, Zenon
<1> QED BY <1>2, <1>3, <1>4, <1>6, <1>7, <1>8, <1>9, <1>10, ZenonT(60) DEF c, n, p

\* line_grows.
LEMMA GrowStep == ASSUME IInv, line_grows PROVE IInv'
<1> DEFINE c == slots[at].fd
           n == Len(buf)
           p == taken[c] - n
           l == Stored(slots[at].line, buf)
<1>0. pc = "run"
  BY Zenon DEF line_grows
<1>1. Types /\ Running
  BY <1>0, StillRunning, ZenonT(60)
<1>2. /\ at \in Slots /\ <<"slot", at>> \in ready /\ Idle(slots, taken, ran, at)
      /\ c \in Operators /\ slots[at].line \in Lines
      /\ n \in Nat \ {0} /\ p \in Nat /\ p + n = taken[c]
      /\ buf = Chars(c, p, n) /\ DOMAIN buf = 1..n
      /\ Upto(c, slots[at].line, ran[c], p)
      /\ \A k \in 1..n : IsNl(buf[k]) <=> IsEnd(c, p + k)
  BY <1>0, AtRun, Zenon
<1>3. /\ \A k \in DOMAIN buf : ~IsNl(buf[k])
      /\ slots' = [slots EXCEPT ![at].line = l] /\ buf' = <<>> /\ NextSlot
      /\ UNCHANGED <<budget, rxq, pending, conn, typed, taken, out, g_stop, ran>>
  BY Zenon DEF line_grows
<1>4. /\ TLoop(pc, at, budget, ready) /\ TSlots(slots) /\ TBuf(buf)
      /\ Control(pc, at, ready, slots, pending) /\ Matched(slots, conn, pending)
      /\ Fresh(conn, pending, taken, ran) /\ History(typed, ran)
  BY <1>1, Zenon DEF Types, Running, IInv
<1>5. /\ pc' \in {"slot", "tick"} /\ ready' = ready \ {<<"slot", at>>}
      /\ TLoop(pc', at', budget', ready') /\ (pc' = "slot" => at' \in Slots)
  BY <1>2, <1>3, <1>4, NextSlotStep, ZenonT(60)
<1>6. l \in Lines
  <2>1. slots[at].line \in Seq(AllTyped)
    BY <1>2, Zenon DEF Lines
  <2>2. buf \in Seq(AllTyped)
    BY <1>4, Zenon DEF TBuf
  <2> QED BY <2>1, <2>2, StoredFits, Zenon
<1>7. \A k \in (p + 1)..(p + n) : ~IsEnd(c, k)
  <2> HIDE DEF c, n, p
  <2> TAKE k \in (p + 1)..(p + n)
  <2>1. k - p \in 1..n /\ p + (k - p) = k
    BY <1>2
  <2>2. ~IsNl(buf[k - p])
    BY <1>2, <1>3, <2>1, Zenon
  <2> QED BY <1>2, <2>1, <2>2, Zenon
<1>8. Upto(c, l, ran[c], taken[c])
  <2> HIDE DEF c, n, p
  <2>1. n \in Nat
    BY <1>2, ZenonT(60)
  <2>2. Upto(c, Stored(slots[at].line, Chars(c, p, n)), ran[c], p + n)
    BY <1>2, <1>7, <2>1, UptoGrows, Zenon
  <2> QED BY <1>2, <2>2, ZenonT(60)
<1> HIDE DEF n, p, l
<1>9. SlotIs(slots', slots, at, c, l)
  BY <1>2, <1>3, <1>4, <1>6, SetLine, Zenon
<1>10. Matched(slots', conn', pending')
  <2>1. Matched(slots', conn, pending)
    BY <1>2, <1>4, <1>9, MatchedLine, Zenon
  <2> QED BY <1>3, <2>1, Zenon
<1>11. Control(pc', at', ready', slots', pending')
  <2>1. Control(pc', at', ready \ {<<"slot", at>>}, slots', pending)
    BY <1>2, <1>4, <1>5, <1>9, NextSlotControl, ZenonT(60)
  <2> QED BY <1>3, <1>5, <2>1, Zenon
<1>12. Idle(slots', taken', ran', 0)
  <2>1. Idle(slots', taken, ran, at)
    BY <1>2, <1>9, IdleStep, Zenon
  <2>2. slots'[at].fd = c /\ slots'[at].line = l
    BY <1>9, Zenon DEF SlotIs
  <2>3. Upto(slots'[at].fd, slots'[at].line, ran[slots'[at].fd], taken[slots'[at].fd])
    BY <1>8, <2>2, Zenon
  <2> QED BY <1>3, <2>1, <2>3, IdleAll, Zenon
<1>13. Reading(pc', at', buf', slots', taken', ran')
  BY <1>5, <1>12, Zenon DEF Reading
<1>14. TSlots(slots')
  BY <1>9, Zenon DEF SlotIs
<1>15. TBuf(buf')
  BY <1>3, Sizes DEF TBuf
<1>16. Types'
  BY <1>1, <1>3, <1>5, <1>14, <1>15, ZenonT(60) DEF Types
<1> QED BY <1>3, <1>4, <1>10, <1>11, <1>13, <1>16, Zenon DEF IInv, Running

\* line_runs.
LEMMA RunStep == ASSUME IInv, line_runs PROVE IInv'
<1> DEFINE c == slots[at].fd
           n == Len(buf)
           p == taken[c] - n
<1>0. pc = "run"
  BY ZenonT(60) DEF line_runs
<1>1. Types /\ Running
  BY <1>0, StillRunning, Zenon
<1>2. /\ at \in Slots /\ <<"slot", at>> \in ready /\ Idle(slots, taken, ran, at)
      /\ c \in Operators /\ slots[at].line \in Lines
      /\ n \in Nat \ {0} /\ p \in Nat /\ p + n = taken[c] /\ taken[c] <= typed[c] /\ typed[c] \in Nat
      /\ buf = Chars(c, p, n) /\ DOMAIN buf = 1..n
      /\ Upto(c, slots[at].line, ran[c], p)
      /\ \A k \in 1..n : IsNl(buf[k]) <=> IsEnd(c, p + k)
  BY <1>0, AtRun, ZenonT(60)
<1>3. PICK e \in DOMAIN buf :
        /\ IsNl(buf[e]) /\ \A k \in 1..(e - 1) : ~IsNl(buf[k])
        /\ LET line == Stored(slots[at].line, SubSeq(buf, 1, e - 1))
               rest == SubSeq(buf, e + 1, Len(buf))
           IN  /\ ran' = [ran EXCEPT ![c] = Append(@, line)]
               /\ IF conn[c] = "left"
                  THEN pc' = "killed" /\ UNCHANGED <<at, buf, ready, slots, conn, out>>
                  ELSE /\ out[c] < OUT_MAX
                       /\ out' = [out EXCEPT ![c] = IF IsExit(line) THEN 0 ELSE @ + 1]
                       /\ IF IsExit(line)
                          THEN /\ Close(at, <<>>)
                               /\ buf' = <<>>
                               /\ NextSlot
                          ELSE /\ slots' = [slots EXCEPT ![at].line = <<>>]
                               /\ buf' = rest
                               /\ IF rest = <<>> THEN NextSlot ELSE UNCHANGED <<pc, at, ready>>
                               /\ UNCHANGED conn
        /\ UNCHANGED <<budget, rxq, pending, typed, taken, g_stop>>
  BY ZenonT(60) DEF line_runs
<1> DEFINE l == Stored(slots[at].line, SubSeq(buf, 1, e - 1))
           rest == SubSeq(buf, e + 1, n)
           more == Append(ran[c], l)
<1>n. n \in Nat \ {0} /\ p \in Nat
  BY <1>2, Zenon
<1>4. e \in 1..n /\ e \in Nat \ {0} /\ e - 1 \in Nat
  <2> HIDE DEF c, n, p
  <2>1. e \in 1..n
    BY <1>2, Zenon
  <2> QED BY <1>n, <2>1
<1>5. SubSeq(buf, 1, e - 1) = Chars(c, p, e - 1)
  <2> HIDE DEF c, n, p
  <2>1. SubSeq(Chars(c, p, n), 1, e - 1) = Chars(c, p + 1 - 1, (e - 1) - 1 + 1)
    <3>1. n \in Nat /\ 1 \in 1..(n + 1) /\ e - 1 \in 0..n /\ 1 <= (e - 1) + 1
      BY <1>n, <1>4
    <3> QED BY <1>2, <3>1, CharsPart, ZenonT(60)
  <2>2. p + 1 - 1 = p /\ (e - 1) - 1 + 1 = e - 1
    BY <1>n, <1>4
  <2> QED BY <1>2, <2>1, <2>2, ZenonT(60)
<1>6. rest = Chars(c, p + e, n - e)
  <2> HIDE DEF c, n, p
  <2>1. SubSeq(Chars(c, p, n), e + 1, n) = Chars(c, p + (e + 1) - 1, n - (e + 1) + 1)
    <3> DEFINE i == e + 1
    <3>1. n \in Nat /\ i \in 1..(n + 1) /\ n \in 0..n /\ i <= n + 1
      BY <1>n, <1>4
    <3> HIDE DEF i
    <3>2. SubSeq(Chars(c, p, n), i, n) = Chars(c, p + i - 1, n - i + 1)
      BY <1>2, <3>1, CharsPart, ZenonT(60)
    <3> QED BY <3>2, ZenonT(60) DEF i
  <2>2. p + (e + 1) - 1 = p + e /\ n - (e + 1) + 1 = n - e
    BY <1>n, <1>4
  <2> QED BY <1>2, <2>1, <2>2, ZenonT(60)
<1>7. IsEnd(c, p + e) /\ \A k \in (p + 1)..(p + (e - 1)) : ~IsEnd(c, k)
  <2> HIDE DEF c, n, p, l, rest, more
  <2>1. IsEnd(c, p + e)
    BY <1>2, <1>3, <1>4, ZenonT(60)
  <2>2. ASSUME NEW k \in (p + 1)..(p + (e - 1)) PROVE ~IsEnd(c, k)
    <3>1. k - p \in 1..(e - 1) /\ k - p \in 1..n /\ p + (k - p) = k
      BY <1>n, <1>4
    <3>2. ~IsNl(buf[k - p])
      BY <1>3, <3>1, Zenon
    <3> QED BY <1>2, <3>1, <3>2, ZenonT(60)
  <2> QED BY <2>1, <2>2, Zenon
<1>8. /\ TLoop(pc, at, budget, ready) /\ TSlots(slots) /\ TBuf(buf) /\ TRan(ran)
      /\ conn \in [Operators -> ConnStates] /\ out \in [Operators -> 0..OUT_MAX]
      /\ Control(pc, at, ready, slots, pending) /\ Matched(slots, conn, pending)
      /\ Fresh(conn, pending, taken, ran) /\ History(typed, ran)
  BY <1>1, Zenon DEF Types, Running, IInv
<1>9. l \in Lines /\ rest \in Seq(AllTyped) /\ Len(rest) = n - e
  <2>1. slots[at].line \in Seq(AllTyped)
    BY <1>2, Zenon DEF Lines
  <2>2. buf \in Seq(AllTyped)
    BY <1>8, Zenon DEF TBuf
  <2>3. SubSeq(buf, 1, e - 1) \in Seq(AllTyped)
    BY <1>4, <2>2, SMTT(60)
  <2>4. rest \in Seq(AllTyped) /\ Len(rest) = n - e
    BY <1>4, <2>2, SMTT(60)
  <2>5. l \in Lines
    BY <2>1, <2>3, StoredFits, ZenonT(60)
  <2> QED BY <2>4, <2>5, ZenonT(60)
<1>10. ran[c] \in Seq(Lines)
  BY <1>2, <1>8, ZenonT(60) DEF TRan
<1>11. /\ l = LineTo(c, p + e)
       /\ Cardinality(EndsTo(c, p + e)) = Len(ran[c]) + 1
       /\ ~IsExit(l) => Upto(c, <<>>, more, p + e)
  <2> HIDE DEF c, n, p
  <2>1. l = Stored(slots[at].line, Chars(c, p, e - 1))
    BY <1>5, Zenon
  <2>2. /\ Stored(slots[at].line, Chars(c, p, e - 1)) = LineTo(c, p + e)
        /\ Cardinality(EndsTo(c, p + e)) = Len(ran[c]) + 1
        /\ (Stored(slots[at].line, Chars(c, p, e - 1)) \in Lines
              /\ ~IsExit(Stored(slots[at].line, Chars(c, p, e - 1))))
             => Upto(c, <<>>, Append(ran[c], Stored(slots[at].line, Chars(c, p, e - 1))), p + e)
    BY <1>2, <1>4, <1>7, <1>10, UptoRuns, ZenonT(60)
  <2> HIDE DEF l
  <2> QED BY <1>9, <2>1, <2>2, ZenonT(60)
<1>12. RanOf(c, more, typed[c]) /\ ExitLast(more)
  <2> HIDE DEF c, n, p, l
  <2>1. RanOf(c, ran[c], typed[c])
    BY <1>2, <1>8, Zenon DEF History
  <2>2. NoExit(ran[c])
    BY <1>2, ZenonT(60) DEF Upto
  <2>3. p + e \in 1..typed[c]
    <3>1. n \in Nat /\ p \in Nat /\ p + n = taken[c] /\ taken[c] <= typed[c] /\ typed[c] \in Nat
      BY <1>2, Zenon
    <3> QED BY <1>4, <3>1
  <2> QED BY <1>2, <1>7, <1>9, <1>10, <1>11, <2>1, <2>2, <2>3, RanMore, ZenonT(60)
<1>13. ran' = [ran EXCEPT ![c] = more] /\ UNCHANGED <<budget, rxq, pending, typed, taken, g_stop>>
  BY <1>3, ZenonT(60)
<1>14. more \in Seq(Lines)
  <2> HIDE DEF c, l, Lines
  <2>1. l \in Lines
    BY <1>9, ZenonT(60)
  <2> QED BY <1>10, <2>1
<1>a. /\ ran'[c] = more /\ \A x \in Operators : x # c => ran'[x] = ran[x]
      /\ TRan(ran')
  <2> HIDE DEF c, more
  <2> QED BY <1>2, <1>8, <1>13, <1>14, ZenonT(60) DEF TRan
<1>b. History(typed', ran')
  <2>1. \A x \in Operators : RanOf(x, ran'[x], typed[x]) /\ ExitLast(ran'[x])
    BY <1>8, <1>12, <1>a, ZenonT(60) DEF History
  <2> QED BY <1>13, <2>1, Zenon DEF History
<1>c. /\ ~In(c, pending) /\ conn[c] \in {"served", "left"} /\ c # None
      /\ \A t \in Slots : (t # at /\ slots[t].fd # None) => slots[t].fd # c
  BY <1>1, <1>2, AtSlot, ZenonT(60)
<1>d. \A t \in Slots : (t # at /\ slots[t].fd # None) => ran'[slots[t].fd] = ran[slots[t].fd]
  <2>1. \A t \in Slots : slots[t].fd # None => slots[t].fd \in Operators
    BY <1>8, SlotFields, ZenonT(60)
  <2> HIDE DEF c
  <2> QED BY <1>a, <1>c, <2>1, ZenonT(60)
<1>e. ASSUME \A x \in Operators : conn'[x] = "out" => conn[x] = "out"
      PROVE  Fresh(conn', pending', taken', ran')
  <2>1. \A x \in Operators : (conn'[x] = "out" \/ In(x, pending)) => x # c
    BY <1>c, <1>e, ZenonT(60)
  <2> HIDE DEF c
  <2> QED BY <1>8, <1>13, <1>a, <1>e, <2>1, ZenonT(60) DEF Fresh
<1>f. <<>> \in Lines
  BY Sizes DEF Lines
<1>g. /\ n \in Nat /\ p \in Nat /\ e \in 1..n /\ p + n = taken[c]
      /\ c \in Operators /\ out \in [Operators -> 0..OUT_MAX]
  BY <1>2, <1>4, <1>8, ZenonT(60)
<1>15. CASE conn[c] = "left"
  <2>1. pc' = "killed" /\ UNCHANGED <<at, buf, ready, slots, conn, out>>
    BY <1>3, <1>15, ZenonT(60)
  <2>2. TLoop(pc', at', budget', ready')
    BY <1>8, <1>13, <2>1, ZenonT(60) DEF TLoop, Pcs
  <2>3. Types'
    BY <1>1, <1>13, <1>a, <2>1, <2>2, ZenonT(60) DEF Types
  <2> QED BY <1>b, <2>1, <2>3, ZenonT(60) DEF IInv, Over
<1>16. CASE conn[c] # "left" /\ IsExit(l)
  <2>1. /\ out[c] < OUT_MAX /\ out' = [out EXCEPT ![c] = 0]
        /\ Close(at, <<>>) /\ buf' = <<>> /\ NextSlot
    BY <1>3, <1>16, Zenon
  <2>2. /\ pc' \in {"slot", "tick"} /\ ready' = ready \ {<<"slot", at>>}
        /\ TLoop(pc', at', budget', ready') /\ (pc' = "slot" => at' \in Slots)
    BY <1>2, <1>8, <1>13, <2>1, NextSlotStep, ZenonT(60)
  <2>3. /\ slots' = [slots EXCEPT ![at] = [fd |-> None, line |-> <<>>]]
        /\ conn' = [conn EXCEPT ![slots[at].fd] = "closed"]
    BY <2>1, ZenonT(60) DEF Close
  <2> HIDE DEF n, p, l, rest, more
  <2>4. SlotIs(slots', slots, at, None, <<>>)
    BY <1>2, <1>8, <1>f, <2>3, SetSlot, ZenonT(60)
  <2>5. Matched(slots', conn', pending')
    <3>1. Matched(slots', [conn EXCEPT ![slots[at].fd] = "closed"], pending)
      BY <1>2, <1>8, <1>c, <2>4, MatchedClose, ZenonT(60)
    <3> QED BY <1>13, <2>3, <3>1, ZenonT(60)
  <2>6. conn' \in [Operators -> ConnStates] /\ \A x \in Operators : conn'[x] = "out" => conn[x] = "out"
    BY <1>2, <1>8, <2>3, ZenonT(60) DEF ConnStates
  <2>7. Fresh(conn', pending', taken', ran')
    BY <1>e, <2>6, ZenonT(60)
  <2>8. Control(pc', at', ready', slots', pending')
    <3>1. Control(pc', at', ready \ {<<"slot", at>>}, slots', pending)
      BY <1>2, <1>8, <2>2, <2>4, NextSlotControl, ZenonT(60)
    <3> QED BY <1>13, <2>2, <3>1, ZenonT(60)
  <2>9. Idle(slots', taken', ran', 0)
    <3>1. Idle(slots', taken, ran', at)
      BY <1>2, <1>d, <2>4, ZenonT(60) DEF Idle, SlotIs
    <3>2. slots'[at].fd = None
      BY <2>4, ZenonT(60) DEF SlotIs
    <3> QED BY <1>13, <3>1, <3>2, IdleAll, ZenonT(60)
  <2>10. Reading(pc', at', buf', slots', taken', ran')
    BY <2>2, <2>9, ZenonT(60) DEF Reading
  <2>11. TSlots(slots')
    BY <2>4, ZenonT(60) DEF SlotIs
  <2>12. TBuf(buf') /\ out' \in [Operators -> 0..OUT_MAX]
    <3>1. out' = [out EXCEPT ![c] = 0] /\ buf' = <<>>
      BY <2>1, Zenon
    <3>2. TBuf(buf')
      BY <3>1, Sizes DEF TBuf
    <3> HIDE DEF c
    <3>3. out' \in [Operators -> 0..OUT_MAX]
      BY <1>g, <3>1, Sizes
    <3> QED BY <3>2, <3>3, ZenonT(60)
  <2>13. Types'
    BY <1>1, <1>13, <1>a, <2>2, <2>6, <2>11, <2>12, Zenon DEF Types
  <2> QED BY <1>b, <2>5, <2>7, <2>8, <2>10, <2>13, ZenonT(60) DEF IInv, Running
<1>17. CASE conn[c] # "left" /\ ~IsExit(l)
  <2>1. /\ out[c] < OUT_MAX /\ out' = [out EXCEPT ![c] = @ + 1]
        /\ slots' = [slots EXCEPT ![at].line = <<>>] /\ buf' = rest /\ UNCHANGED conn
        /\ IF rest = <<>> THEN NextSlot ELSE UNCHANGED <<pc, at, ready>>
    BY <1>3, <1>17, Zenon
  <2>2. SlotIs(slots', slots, at, c, <<>>)
    BY <1>2, <1>8, <1>f, <2>1, SetLine, Zenon
  <2>3. Matched(slots', conn', pending')
    <3>1. Matched(slots', conn, pending)
      BY <1>2, <1>8, <2>2, MatchedLine, ZenonT(60)
    <3> QED BY <1>13, <2>1, <3>1, ZenonT(60)
  <2>4. Fresh(conn', pending', taken', ran')
    BY <1>e, <2>1, ZenonT(60)
  <2>5. Idle(slots', taken', ran', at)
    <3>1. Idle(slots', taken, ran', at)
      BY <1>2, <1>d, <2>2, ZenonT(60) DEF Idle, SlotIs
    <3> QED BY <1>13, <3>1, ZenonT(60)
  <2>6. slots'[at].fd = c /\ slots'[at].line = <<>> /\ TSlots(slots')
    BY <2>2, Zenon DEF SlotIs
  <2>7. Upto(c, slots'[at].line, ran'[c], p + e)
    BY <1>11, <1>17, <1>a, <2>6, ZenonT(60)
  <2>8. TBuf(buf') /\ out' \in [Operators -> 0..OUT_MAX]
    <3>1. Len(buf) <= READ_MAX
      BY <1>8, ZenonT(60) DEF TBuf
    <3>2. Len(buf') <= READ_MAX
      <4>1. Len(buf') = n - e
        BY <1>9, <2>1, ZenonT(60)
      <4>2. n <= READ_MAX
        BY <3>1, Zenon
      <4> HIDE DEF n, p
      <4> QED BY <1>g, <4>1, <4>2, Sizes
    <3>3. TBuf(buf')
      BY <1>9, <2>1, <3>2, ZenonT(60) DEF TBuf
    <3>4. out' \in [Operators -> 0..OUT_MAX]
      <4>1. out[c] < OUT_MAX /\ out' = [out EXCEPT ![c] = @ + 1]
        BY <2>1, ZenonT(60)
      <4> HIDE DEF c
      <4> QED BY <1>g, <4>1, Sizes
    <3> QED BY <3>3, <3>4, Zenon
  <2>9. CASE rest = <<>>
    <3>0. NextSlot
      BY <2>1, <2>9, Zenon
    <3>1. /\ pc' \in {"slot", "tick"} /\ ready' = ready \ {<<"slot", at>>}
          /\ TLoop(pc', at', budget', ready') /\ (pc' = "slot" => at' \in Slots)
      BY <1>2, <1>8, <1>13, <3>0, NextSlotStep, ZenonT(60)
    <3>2. p + e = taken[c]
      <4>1. n - e = 0
        BY <1>9, <2>9, ZenonT(60)
      <4> HIDE DEF n, p, c
      <4> QED BY <1>g, <4>1
    <3> HIDE DEF n, p, l, rest, more
    <3>3. Control(pc', at', ready', slots', pending')
      <4>1. Control(pc', at', ready \ {<<"slot", at>>}, slots', pending)
        BY <1>2, <1>8, <2>2, <3>1, NextSlotControl, Zenon
      <4> QED BY <1>13, <3>1, <4>1, Zenon
    <3>4. Idle(slots', taken', ran', 0)
      <4>1. Upto(slots'[at].fd, slots'[at].line, ran'[slots'[at].fd], taken'[slots'[at].fd])
        BY <1>13, <2>6, <2>7, <3>2, ZenonT(60)
      <4> QED BY <2>5, <4>1, IdleAll, ZenonT(60)
    <3>5. Reading(pc', at', buf', slots', taken', ran')
      BY <3>1, <3>4, Zenon DEF Reading
    <3>6. Types'
      BY <1>1, <1>13, <1>a, <2>1, <2>6, <2>8, <3>1, ZenonT(60) DEF Types
    <3> QED BY <1>b, <2>3, <2>4, <3>3, <3>5, <3>6, Zenon DEF IInv, Running
  <2>10. CASE rest # <<>>
    <3>1. UNCHANGED <<pc, at, ready>>
      BY <2>1, <2>10, ZenonT(60)
    <3>2. Len(buf') = n - e /\ n - e \in 1..taken[c] /\ taken[c] - (n - e) = p + e
      <4>1. Len(rest) # 0 /\ Len(buf') = n - e
        <5>1. buf' = rest /\ rest \in Seq(AllTyped) /\ Len(rest) = n - e
          BY <1>9, <2>1, <2>10, Zenon
        <5> QED BY <2>10, <5>1, SeqEmpty, Zenon
      <4>2. n - e # 0
        BY <1>9, <4>1, ZenonT(60)
      <4> HIDE DEF n, p
      <4>3. n - e \in 1..taken[c] /\ taken[c] - (n - e) = p + e
        <5> HIDE DEF c
        <5>1. p \in Nat /\ n \in Nat /\ p + n = taken[c]
          BY <1>2, Zenon
        <5> QED BY <1>4, <4>2, <5>1
      <4> QED BY <4>1, <4>3, ZenonT(60) DEF n
    <3>3. buf' = Chars(c, p + e, n - e)
      BY <1>6, <2>1, ZenonT(60)
    <3> HIDE DEF n, p, l, rest, more
    <3>4. Busy(c, slots'[at].line, ran'[c], buf', taken[c])
      BY <2>7, <3>2, <3>3, ZenonT(60) DEF Busy
    <3>5. Control(pc', at', ready', slots', pending')
      <4>1. \A t \in Slots : slots[t].fd # None => slots'[t].fd # None
        BY <1>c, <2>2, ZenonT(60) DEF SlotIs
      <4> QED BY <1>2, <1>8, <1>13, <3>1, <4>1, ZenonT(60) DEF Control
    <3>6. Reading(pc', at', buf', slots', taken', ran')
      BY <1>0, <1>13, <2>5, <2>6, <3>1, <3>4, ZenonT(60) DEF Reading
    <3>7. Types'
      BY <1>1, <1>13, <1>a, <2>1, <2>6, <2>8, <3>1, ZenonT(60) DEF Types
    <3> QED BY <1>b, <2>3, <2>4, <3>5, <3>6, <3>7, Zenon DEF IInv, Running
  <2> QED BY <2>9, <2>10, Zenon
<1> QED BY <1>15, <1>16, <1>17, ZenonT(60)

\* Every step keeps the invariant.
LEMMA NextIInv == ASSUME IInv, [Next]_vars PROVE IInv'
<1>1. CASE Next
  BY <1>1, PollStep, DrainStep, AcceptStep, ReadStep, GrowStep, RunStep, TickStep,
     ShutdownStep, WorldStep, Zenon DEF Next, Loop
<1>2. CASE UNCHANGED vars
  <2>1. /\ UNCHANGED <<pc, at, budget, buf, ready>>
        /\ UNCHANGED <<rxq, pending, slots, conn, typed, taken, out, g_stop, ran>>
    BY <1>2, Zenon DEF vars, loop, world
  <2>2. Types'
    BY <2>1, Zenon DEF IInv, Types
  <2>3. Over' => Over
    BY <2>1, Zenon DEF Over
  <2>4. Over <=> Over'
    BY <2>1, Zenon DEF Over
  <2> QED BY <2>1, <2>2, <2>4, Zenon DEF IInv, Running
<1> QED BY <1>1, <1>2, ZenonT(60)

-----------------------------------------------------------------------------
(* The results.                                                            *)

\* The inductive invariant of the daemon, for every number of slots,
\* operators and devices.
THEOREM LoopInvariance == Spec => []IInv
<1>1. Init => IInv
  BY InitIInv, Zenon
<1>2. IInv /\ [Next]_vars => IInv'
  BY NextIInv, Zenon
<1> QED BY <1>1, <1>2, PTL DEF Spec

\* Connections and slots of cli_accept and cli_client_input are one to one
\* while the daemon runs, and no line outgrows its buffer.
THEOREM SlotsAlwaysMatch == Spec => []SlotsMatchConnections
<1>1. ASSUME IInv PROVE SlotsMatchConnections
  <2>0. Types
    BY <1>1, Zenon DEF IInv
  <2>1. TypeOK
    <3>1. /\ pc \in Pcs /\ at \in 0..Top /\ budget \in 0..RX_BATCH /\ ready \subseteq Events
          /\ buf \in Seq(AllTyped) /\ Len(buf) <= READ_MAX
          /\ pending \in Seq(Operators) /\ Len(pending) <= SOMAX
          /\ rxq \in [Devs -> 0..RXQ_MAX] /\ conn \in [Operators -> ConnStates]
          /\ out \in [Operators -> 0..OUT_MAX] /\ g_stop \in BOOLEAN
          /\ TSlots(slots) /\ TTyped(typed, taken)
      BY <2>0, Zenon DEF Types, TLoop, TBuf, TPending
    <3>2. \A s \in Slots : /\ slots[s].fd \in Operators \cup {None}
                           /\ slots[s].line \in Seq(AllTyped)
                           /\ Len(slots[s].line) < CLI_LINE_MAX
      <4> TAKE s \in Slots
      <4>1. slots[s].fd \in Operators \cup {None} /\ slots[s].line \in Lines
        BY <3>1, SlotFields, ZenonT(60)
      <4> QED BY <4>1, ZenonT(60) DEF Lines
    <3>3. \A c \in Operators : 0 <= taken[c] /\ taken[c] <= typed[c] /\ typed[c] <= Len(Script[c])
      BY <3>1 DEF TTyped
    <3> QED BY <3>1, <3>2, <3>3, ZenonT(60) DEF TypeOK, Pcs, Top, Events
  <2>2. CASE Over
    BY <2>1, <2>2, Zenon DEF SlotsMatchConnections
  <2>3. CASE ~Over
    <3>1. Matched(slots, conn, pending)
      BY <1>1, <2>3, Zenon DEF IInv, Running
    <3>2. \A s \in Served : s \in Slots /\ slots[s].fd # None
      BY Zenon DEF Served
    <3>3. \A c \in Operators : HasSlot(slots, c) => \E s \in Served : slots[s].fd = c
      <4>1. None \notin Operators
        BY CliConstants, Zenon
      <4> QED BY <4>1, ZenonT(60) DEF HasSlot, Served
    <3>4. \A s, t \in Served : s # t => slots[s].fd # slots[t].fd
      BY <3>1, <3>2, Zenon DEF Matched
    <3>5. \A s \in Served : conn[slots[s].fd] \in {"served", "left"}
      BY <3>1, <3>2, Zenon DEF Matched
    <3>6. \A c \in Operators :
             /\ conn[c] = "served" => \E s \in Served : slots[s].fd = c
             /\ conn[c] = "left" => \/ \E s \in Served : slots[s].fd = c
                                    \/ \E k \in DOMAIN pending : pending[k] = c
      BY <3>1, <3>3, ZenonT(60) DEF Matched, In
    <3> QED BY <2>1, <3>4, <3>5, <3>6, ZenonT(60) DEF SlotsMatchConnections
  <2> QED BY <2>2, <2>3, Zenon
<1> QED BY <1>1, LoopInvariance, PTL

\* The lines cli_client_input runs for an operator are the lines that
\* operator typed, in order, cut to the line buffer, none after exit, however
\* the input is cut into reads, for every script and every size of buffers.
THEOREM CommandsAsTyped == Spec => []RunsWhatWasTyped
<1>1. ASSUME IInv PROVE RunsWhatWasTyped
  BY <1>1, Zenon DEF IInv, History, RanOf, ExitLast, RunsWhatWasTyped, Ends
<1> QED BY <1>1, LoopInvariance, PTL
=============================================================================
