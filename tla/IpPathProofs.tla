---------------------------- MODULE IpPathProofs ----------------------------
(* Proofs about IpReass and IpPath for every size of the table, of the     *)
(* buffer and of the fragments.                                            *)
EXTENDS IpPath, TLAPS, WellFoundedInduction

\* An element of a sequence.
LEMMA SeqElement == ASSUME NEW S, NEW s \in Seq(S), NEW i \in 1..Len(s) PROVE s[i] \in S
  OBVIOUS

\* The concatenation of two sequences.
LEMMA SeqConcat ==
  ASSUME NEW S, NEW s \in Seq(S), NEW t \in Seq(S)
  PROVE  /\ s \o t \in Seq(S)
         /\ Len(s \o t) = Len(s) + Len(t)
         /\ \A i \in 1..(Len(s) + Len(t)) : (s \o t)[i] = IF i <= Len(s) THEN s[i] ELSE t[i - Len(s)]
  OBVIOUS

\* A part of a sequence.
LEMMA SeqPart ==
  ASSUME NEW S, NEW s, NEW m \in Int, NEW n \in Int, \A i \in m..n : s[i] \in S
  PROVE  /\ SubSeq(s, m, n) \in Seq(S)
         /\ Len(SubSeq(s, m, n)) = IF m <= n THEN n - m + 1 ELSE 0
         /\ \A i \in 1..(n - m + 1) : SubSeq(s, m, n)[i] = s[m + i - 1]
  OBVIOUS

\* The first element and the others.
LEMMA SeqTail ==
  ASSUME NEW S, NEW s \in Seq(S), s # <<>>
  PROVE  /\ Head(s) \in S
         /\ Tail(s) \in Seq(S)
         /\ Len(Tail(s)) = Len(s) - 1
         /\ \A i \in 1..Len(Tail(s)) : Tail(s)[i] = s[i + 1]
  OBVIOUS

\* The length of a sequence.
LEMMA SeqLen == ASSUME NEW S, NEW s \in Seq(S) PROVE Len(s) \in Nat
  OBVIOUS

\* The order of numbers.
LEMMA LessChain ==
  ASSUME NEW a \in Nat, NEW b \in Nat, NEW c \in Nat, NEW d \in Nat, a < b, b < c, c < d
  PROVE  a < d
  OBVIOUS

LEMMA LessIsAtMost == ASSUME NEW a \in Nat, NEW b \in Nat, a < b PROVE a <= b
  OBVIOUS

-----------------------------------------------------------------------------
(* Induction, with sets in place of predicates.                            *)

\* A set of naturals with zero and the successor of each member has them all.
LEMMA AllNat ==
  ASSUME NEW T \in SUBSET Nat, 0 \in T, \A k \in T : k + 1 \in T
  PROVE  T = Nat
  <1>1. SUFFICES ASSUME Nat \ T # {} PROVE FALSE
    BY ZenonT(60)
  <1> DEFINE R == OpToRel(<, Nat)
  <1>2. IsWellFoundedOn(R, Nat)
    BY NatLessThanWellFounded, ZenonT(60)
  <1> HIDE DEF R
  <1>a. Nat \ T \subseteq Nat
    BY Zenon
  <1>3. PICK n \in Nat \ T : \A y \in Nat \ T : ~(<<y, n>> \in R)
    BY <1>1, <1>2, <1>a, WFMin, Zenon
  <1>4. n # 0 /\ n - 1 \in Nat /\ n - 1 < n
    BY <1>3
  <1>5. n - 1 \in T
    <2>1. <<n - 1, n>> \in R
      BY <1>4, Zenon DEF R, OpToRel
    <2>2. QED
      BY <1>3, <1>4, <2>1, Zenon
  <1>6. QED
    BY <1>3, <1>4, <1>5

\* The function g starts with b and goes on by F.
Upwards(g, F, b, N) == g[0] = b /\ \A k \in 1..N : g[k] = F[<<k, g[k - 1]>>]

\* The same, counted down from N + 1.
Downwards(g, F, b, N) == g[N + 1] = b /\ \A m \in 1..N : g[m] = F[<<m, g[m + 1]>>]

\* There is a function on 0..N with a given value at zero and a given step.
LEMMA Iterates ==
  ASSUME NEW S, NEW F \in [Nat \X S -> S], NEW b \in S, NEW N \in Nat
  PROVE  \E g \in [0..N -> S] : Upwards(g, F, b, N)
  <1> DEFINE Is(g, n) == g[0] = b /\ \A k \in 1..n : g[k] = F[<<k, g[k - 1]>>]
             T == {n \in Nat : \E g \in [0..n -> S] : Is(g, n)}
  <1>1. 0 \in T
    <2>1. [k \in 0..0 |-> b] \in [0..0 -> S] /\ Is([k \in 0..0 |-> b], 0)
      OBVIOUS
    <2>2. QED
      BY <2>1, ZenonT(60)
  <1>2. ASSUME NEW n \in T PROVE n + 1 \in T
    <2>1. PICK g \in [0..n -> S] : Is(g, n)
      BY Zenon
    <2> DEFINE h == [k \in 0..(n + 1) |-> IF k = n + 1 THEN F[<<n + 1, g[n]>>] ELSE g[k]]
    <2>2. h \in [0..(n + 1) -> S]
      <3>1. g[n] \in S /\ n + 1 \in Nat
        OBVIOUS
      <3>2. F[<<n + 1, g[n]>>] \in S
        BY <3>1, Zenon
      <3>3. QED
        BY <3>2
    <2>3. Is(h, n + 1)
      <3>1. h[0] = b
        BY <2>1
      <3>2. ASSUME NEW k \in 1..(n + 1) PROVE h[k] = F[<<k, h[k - 1]>>]
        <4>1. CASE k = n + 1
          <5>1. k \in 0..(n + 1) /\ k - 1 = n /\ n \in 0..(n + 1) /\ n # n + 1
            BY <4>1
          <5>2. h[k] = F[<<n + 1, g[n]>>] /\ h[k - 1] = g[n]
            BY <4>1, <5>1, Zenon
          <5>3. QED
            BY <4>1, <5>2, ZenonT(60)
        <4>2. CASE k # n + 1
          <5>1. k \in 1..n /\ k \in 0..(n + 1) /\ k - 1 \in 0..(n + 1) /\ k - 1 # n + 1
            BY <4>2
          <5>2. h[k] = g[k] /\ h[k - 1] = g[k - 1]
            BY <5>1
          <5>3. QED
            BY <2>1, <5>1, <5>2, Zenon
        <4>3. QED
          BY <4>1, <4>2, Zenon
      <3>3. QED
        BY <3>1, <3>2, ZenonT(60)
    <2> HIDE DEF h, Is
    <2>4. n + 1 \in Nat /\ \E d \in [0..(n + 1) -> S] : Is(d, n + 1)
      BY <2>2, <2>3
    <2>5. QED
      BY <2>4, Zenon
  <1>3. T = Nat
    BY <1>1, <1>2, AllNat, ZenonT(60)
  <1>4. QED
    BY <1>3, Zenon DEF Upwards

\* There is one on 1..(N + 1), from its end.
LEMMA Backwards ==
  ASSUME NEW S, NEW N \in Nat, NEW F \in [(1..N) \X S -> S], NEW b \in S
  PROVE  \E g \in [1..(N + 1) -> S] : Downwards(g, F, b, N)
  <1> DEFINE G == [x \in Nat \X S |-> IF x[1] \in 1..N THEN F[<<N + 1 - x[1], x[2]>>] ELSE b]
  <1>1. G \in [Nat \X S -> S]
    <2>1. ASSUME NEW x \in Nat \X S, x[1] \in 1..N PROVE F[<<N + 1 - x[1], x[2]>>] \in S
      <3>1. N + 1 - x[1] \in 1..N /\ x[2] \in S
        BY <2>1
      <3>2. QED
        BY <3>1, Zenon
    <2>2. QED
      BY <2>1, Zenon
  <1> HIDE DEF G
  <1>a. \E h \in [0..N -> S] : Upwards(h, G, b, N)
    BY <1>1, Iterates, Zenon
  <1> USE DEF G
  <1>2. PICK h \in [0..N -> S] : h[0] = b /\ \A k \in 1..N : h[k] = G[<<k, h[k - 1]>>]
    BY <1>a, ZenonT(60) DEF Upwards
  <1> DEFINE g == [m \in 1..(N + 1) |-> h[N + 1 - m]]
  <1>3. g \in [1..(N + 1) -> S] /\ g[N + 1] = b
    BY <1>2
  <1>4. ASSUME NEW m \in 1..N PROVE g[m] = F[<<m, g[m + 1]>>]
    <2>1. /\ N + 1 - m \in 1..N
          /\ (N + 1 - m) - 1 \in 0..N
          /\ m + 1 \in 1..(N + 1)
          /\ N + 1 - (m + 1) = (N + 1 - m) - 1
          /\ N + 1 - (N + 1 - m) = m
          /\ m \in 1..(N + 1)
      OBVIOUS
    <2>2. g[m] = h[N + 1 - m] /\ g[m + 1] = h[(N + 1 - m) - 1]
      BY <2>1, Zenon
    <2>3. h[N + 1 - m] = G[<<N + 1 - m, h[(N + 1 - m) - 1]>>]
      BY <1>2, <2>1, ZenonT(60)
    <2>4. h[(N + 1 - m) - 1] \in S
      BY <2>1, Zenon
    <2>5. G[<<N + 1 - m, h[(N + 1 - m) - 1]>>] = F[<<m, h[(N + 1 - m) - 1]>>]
      BY <2>1, <2>4
    <2>6. QED
      BY <2>2, <2>3, <2>5, Zenon
  <1>5. QED
    BY <1>3, <1>4, ZenonT(60) DEF Downwards

-----------------------------------------------------------------------------
(* The list of ranges.                                                     *)

\* The lists Join leaves behind, from the end of rs to its start.
Merging(rs, g) ==
    /\ g \in [1..(Len(rs) + 1) -> Seq(Range_)]
    /\ g[Len(rs) + 1] = <<>>
    /\ \A m \in 1..Len(rs) : g[m] = Join(rs[m], g[m + 1])

\* Joining a range to a list of ranges gives a list of ranges.
LEMMA JoinType ==
  ASSUME NEW r \in Range_, NEW rs \in Seq(Range_)
  PROVE  Join(r, rs) \in Seq(Range_)
  <1>1. CASE rs # <<>> /\ r.end = Head(rs).start
    <2>1. Head(rs) \in Range_ /\ Tail(rs) \in Seq(Range_)
      BY <1>1, SeqTail, Zenon
    <2>2. [start |-> r.start, end |-> Head(rs).end] \in Range_
      BY <2>1, Zenon DEF Range_
    <2>3. QED
      BY <1>1, <2>1, <2>2 DEF Join
  <1>2. CASE ~(rs # <<>> /\ r.end = Head(rs).start)
    BY <1>2 DEF Join
  <1>3. QED
    BY <1>1, <1>2, Zenon

\* The loop that merges neighbours runs as its recursive definition says.
LEMMA CoalescedRuns ==
  ASSUME NEW rs \in Seq(Range_)
  PROVE  \E g : Merging(rs, g) /\ Coalesced(rs) = g[1]
  <1> DEFINE S == Seq(Range_)
             N == Len(rs)
             Body(g) == [m \in 1..(N + 1) |->
                            IF m = N + 1 THEN <<>> ELSE Join(rs[m], g[m + 1])]
             F == [x \in (1..N) \X S |-> Join(rs[x[1]], x[2])]
             good(g) == /\ g \in [1..(N + 1) -> S]
                        /\ g[N + 1] = <<>>
                        /\ \A m \in 1..N : g[m] = Join(rs[m], g[m + 1])
  <1>1. N \in Nat /\ <<>> \in S
    OBVIOUS
  <1>2. F \in [(1..N) \X S -> S]
    <2>1. ASSUME NEW x \in (1..N) \X S PROVE Join(rs[x[1]], x[2]) \in S
      <3>1. rs[x[1]] \in Range_ /\ x[2] \in S
        BY SeqElement, Zenon
      <3>2. QED
        BY <3>1, JoinType, Zenon
    <2>2. QED
      BY <2>1, Zenon
  <1>3. PICK g \in [1..(N + 1) -> S] :
           g[N + 1] = <<>> /\ \A m \in 1..N : g[m] = F[<<m, g[m + 1]>>]
    <2> HIDE DEF F, S, N
    <2>1. \E g \in [1..(N + 1) -> S] : Downwards(g, F, <<>>, N)
      BY <1>1, <1>2, Backwards, Zenon
    <2>2. QED
      BY <2>1, Zenon DEF Downwards
  <1>4. ASSUME NEW m \in 1..N PROVE g[m] = Join(rs[m], g[m + 1])
    <2>1. m + 1 \in 1..(N + 1)
      BY <1>1
    <2>2. <<m, g[m + 1]>> \in (1..N) \X S
      BY <1>3, <2>1, Zenon
    <2>3. QED
      BY <1>3, <2>2, ZenonT(60)
  <1>5. good(g)
    BY <1>3, <1>4, Zenon
  <1> HIDE DEF N, S
  <1>6. g = Body(g)
    <2>1. \A m \in 1..(N + 1) : m = N + 1 \/ m \in 1..N
      BY <1>1
    <2>2. \A m \in 1..(N + 1) : g[m] = IF m = N + 1 THEN <<>> ELSE Join(rs[m], g[m + 1])
      BY <1>5, <2>1, Zenon
    <2>3. QED
      BY <1>5, <2>2, Zenon
  <1> DEFINE h == CHOOSE f : f = Body(f)
  <1>7. h = Body(h)
    BY <1>6, Zenon
  <1>8. Coalesced(rs) = h[1]
    BY Zenon DEF Coalesced, N
  <1> HIDE DEF h
  <1>9. good(h)
    <2>0. N + 1 \in 1..(N + 1) /\ \A m \in 1..N : m \in 1..(N + 1) /\ m # N + 1 /\ m + 1 \in 1..(N + 1)
      BY <1>1
    <2>1. \A m \in 1..(N + 1) : h[m] = IF m = N + 1 THEN <<>> ELSE Join(rs[m], h[m + 1])
      BY <1>7, ZenonT(60)
    <2>2. h[N + 1] = <<>> /\ \A m \in 1..N : h[m] = Join(rs[m], h[m + 1])
      BY <2>0, <2>1, Zenon
    <2>3. \A m \in 1..(N + 1) : h[m] \in S
      <3> DEFINE T == {k \in Nat : k \in 0..N => h[N + 1 - k] \in S}
      <3>1. 0 \in T
        BY <1>1, <2>2
      <3>2. ASSUME NEW k \in T PROVE k + 1 \in T
        <4>1. SUFFICES ASSUME k + 1 \in 0..N PROVE h[N + 1 - (k + 1)] \in S
          OBVIOUS
        <4>2. /\ N + 1 - (k + 1) \in 1..N
              /\ (N + 1 - (k + 1)) + 1 = N + 1 - k
              /\ k \in 0..N
          BY <1>1, <4>1
        <4>3. h[N + 1 - k] \in S
          BY <4>2, Zenon
        <4>4. rs[N + 1 - (k + 1)] \in Range_
          BY <4>2, SeqElement, Zenon DEF N
        <4>5. Join(rs[N + 1 - (k + 1)], h[N + 1 - k]) \in S
          BY <4>3, <4>4, JoinType, Zenon DEF S
        <4>6. QED
          BY <2>2, <4>2, <4>5, Zenon
      <3>3. T = Nat
        BY <3>1, <3>2, AllNat, ZenonT(60)
      <3>4. ASSUME NEW m \in 1..(N + 1) PROVE h[m] \in S
        <4>1. N + 1 - m \in Nat /\ N + 1 - m \in 0..N /\ N + 1 - (N + 1 - m) = m
          BY <1>1
        <4>2. N + 1 - m \in T
          BY <3>3, <4>1, Zenon
        <4>3. QED
          BY <4>1, <4>2, Zenon
      <3>5. QED
        BY <3>4, Zenon
    <2>4. h \in [1..(N + 1) -> S]
      BY <1>7, <2>3, Zenon
    <2>5. QED
      BY <2>2, <2>4, Zenon
  <1>10. QED
    BY <1>8, <1>9, Zenon DEF Merging, N, S

\* Byte b is in one of the ranges.
Holds(rs, b) == \E a \in 1..Len(rs) : rs[a].start <= b /\ b < rs[a].end

\* No range is empty.
Filled(rs) == \A a \in 1..Len(rs) : rs[a].start < rs[a].end

\* Sorted, without overlaps.
Ordered(rs) == \A a, b \in 1..Len(rs) : a < b => rs[a].end <= rs[b].start

\* Sorted, with a gap between any two.
Gapped(rs) == \A a, b \in 1..Len(rs) : a < b => rs[a].end < rs[b].start

\* The bounds of a range in a list are numbers.
LEMMA RangeAt ==
  ASSUME NEW rs \in Seq(Range_), NEW a \in 1..Len(rs)
  PROVE  /\ rs[a] \in Range_
         /\ rs[a].start \in Nat
         /\ rs[a].end \in Nat
         /\ rs[a].end <= IP_REASS_MAX_PAYLOAD
  <1>0. IP_REASS_MAX_PAYLOAD \in Nat
    BY ReassConstants, Zenon
  <1>1. rs[a] \in Range_
    BY SeqElement, Zenon
  <1>2. QED
    BY <1>0, <1>1 DEF Range_

\* Join, range by range, when it merges.
LEMMA JoinMerges ==
  ASSUME NEW r \in Range_, NEW rs \in Seq(Range_), rs # <<>>, r.end = rs[1].start
  PROVE  /\ Join(r, rs) \in Seq(Range_)
         /\ Len(Join(r, rs)) = Len(rs)
         /\ Join(r, rs)[1].start = r.start
         /\ Join(r, rs)[1].end = rs[1].end
         /\ \A a \in 1..Len(rs) : a # 1 => Join(r, rs)[a] = rs[a]
  <1> DEFINE h == [start |-> r.start, end |-> rs[1].end]
             t == Tail(rs)
             j == <<h>> \o t
  <1>1. Head(rs) = rs[1]
    OBVIOUS
  <1>2. Join(r, rs) = j
    BY <1>1, Zenon DEF Join
  <1>3. /\ t \in Seq(Range_) /\ Len(t) = Len(rs) - 1 /\ Len(rs) \in Nat /\ Len(rs) >= 1
        /\ \A a \in 1..Len(t) : t[a] = rs[a + 1]
    BY SeqTail
  <1>4. h \in Range_
    <2>1. rs[1] \in Range_
      BY <1>3, SeqElement
    <2>2. QED
      BY <2>1, Zenon DEF Range_
  <1> HIDE DEF h, t
  <1>5. <<h>> \in Seq(Range_) /\ Len(<<h>>) = 1 /\ <<h>>[1] = h
    BY <1>4
  <1>6. j \in Seq(Range_) /\ Len(j) = 1 + Len(t)
    BY <1>3, <1>5, SeqConcat, ZenonT(60)
  <1>7. j[1] = h
    BY <1>3, <1>5
  <1>8. ASSUME NEW a \in 1..Len(rs), a # 1 PROVE j[a] = rs[a]
    <2>1. a - 1 \in 1..Len(t) /\ (a - 1) + 1 = a /\ a \in 1..(1 + Len(t)) /\ a > 1
      BY <1>3, <1>8
    <2>2. j[a] = t[a - 1]
      BY <1>3, <1>5, <2>1
    <2>3. QED
      BY <1>3, <2>1, <2>2, Zenon
  <1>9. QED
    BY <1>2, <1>3, <1>6, <1>7, <1>8 DEF h

\* Join, range by range, when it does not.
LEMMA JoinPrepends ==
  ASSUME NEW r \in Range_, NEW rs \in Seq(Range_), ~(rs # <<>> /\ r.end = rs[1].start)
  PROVE  /\ Join(r, rs) \in Seq(Range_)
         /\ Len(Join(r, rs)) = Len(rs) + 1
         /\ Join(r, rs)[1] = r
         /\ \A a \in 1..Len(rs) : Join(r, rs)[a + 1] = rs[a]
  <1> DEFINE j == <<r>> \o rs
  <1>1. rs # <<>> => Head(rs) = rs[1]
    OBVIOUS
  <1>2. Join(r, rs) = j
    BY <1>1, Zenon DEF Join
  <1>3. <<r>> \in Seq(Range_) /\ Len(<<r>>) = 1 /\ <<r>>[1] = r /\ Len(rs) \in Nat
    OBVIOUS
  <1>4. j \in Seq(Range_) /\ Len(j) = 1 + Len(rs)
    BY <1>3, SeqConcat, Zenon
  <1>5. j[1] = r
    BY <1>3
  <1>6. ASSUME NEW a \in 1..Len(rs) PROVE j[a + 1] = rs[a]
    <2>1. a + 1 \in 1..(1 + Len(rs)) /\ a + 1 > 1 /\ (a + 1) - 1 = a
      BY <1>3
    <2>2. QED
      BY <1>3, <2>1
  <1>7. QED
    BY <1>2, <1>3, <1>4, <1>5, <1>6

\* Joining a range to a gapped list behind it gives a gapped list with the
\* same bytes.
LEMMA JoinSound ==
  ASSUME NEW r \in Range_, r.start < r.end, NEW rs \in Seq(Range_), Filled(rs), Gapped(rs),
         rs # <<>> => r.end <= rs[1].start,
         NEW j, j = Join(r, rs)
  PROVE  /\ j \in Seq(Range_)
         /\ Len(j) \in 1..(Len(rs) + 1)
         /\ j[1].start = r.start
         /\ Filled(j)
         /\ Gapped(j)
         /\ \A b \in Nat : Holds(j, b) <=> (r.start <= b /\ b < r.end) \/ Holds(rs, b)
  <1>0. Len(rs) \in Nat /\ r.start \in Nat /\ r.end \in Nat
    BY ReassConstants DEF Range_
  <1>1. CASE rs # <<>> /\ r.end = rs[1].start
    <2>0. Len(rs) >= 1
      BY <1>0, <1>1
    <2>1. /\ j \in Seq(Range_)
          /\ Len(j) = Len(rs)
          /\ j[1].start = r.start
          /\ j[1].end = rs[1].end
          /\ \A a \in 1..Len(rs) : a # 1 => j[a] = rs[a]
      BY <1>1, JoinMerges, Zenon
    <2>2. /\ rs[1].start \in Nat
          /\ rs[1].end \in Nat
          /\ rs[1].start < rs[1].end
      BY <1>0, <2>0, RangeAt DEF Filled
    <2>3. ASSUME NEW a \in 1..Len(j) PROVE j[a].start < j[a].end
      <3>1. CASE a = 1
        BY <1>0, <1>1, <2>1, <2>2, <3>1
      <3>2. CASE a # 1
        BY <2>1, <3>2, Zenon DEF Filled
      <3>3. QED
        BY <3>1, <3>2, Zenon
    <2>4. ASSUME NEW a \in 1..Len(j), NEW b \in 1..Len(j), a < b PROVE j[a].end < j[b].start
      <3>1. b # 1 /\ a \in 1..Len(rs) /\ b \in 1..Len(rs)
        BY <1>0, <2>1, <2>4
      <3>2. rs[a].end < rs[b].start
        BY <2>4, <3>1, Zenon DEF Gapped
      <3>3. j[b] = rs[b] /\ j[a].end = rs[a].end
        BY <2>1, <3>1, Zenon
      <3>4. QED
        BY <3>2, <3>3, Zenon
    <2>5. ASSUME NEW b \in Nat, Holds(j, b) PROVE (r.start <= b /\ b < r.end) \/ Holds(rs, b)
      <3>1. PICK a \in 1..Len(j) : j[a].start <= b /\ b < j[a].end
        BY <2>5, Zenon DEF Holds
      <3>2. CASE a = 1
        <4>1. (r.start <= b /\ b < r.end) \/ (rs[1].start <= b /\ b < rs[1].end)
          BY <1>0, <1>1, <2>1, <2>2, <3>1, <3>2
        <4>2. 1 \in 1..Len(rs)
          BY <1>0, <2>0
        <4>3. QED
          BY <4>1, <4>2, Zenon DEF Holds
      <3>3. CASE a # 1
        BY <2>1, <3>1, <3>3, Zenon DEF Holds
      <3>4. QED
        BY <3>2, <3>3, Zenon
    <2>6. ASSUME NEW b \in Nat, (r.start <= b /\ b < r.end) \/ Holds(rs, b) PROVE Holds(j, b)
      <3>0. 1 \in 1..Len(j)
        BY <1>0, <2>0, <2>1
      <3>1. CASE r.start <= b /\ b < r.end
        <4>1. j[1].start <= b /\ b < j[1].end
          BY <1>0, <1>1, <2>1, <2>2, <3>1
        <4>2. QED
          BY <3>0, <4>1, Zenon DEF Holds
      <3>2. CASE Holds(rs, b)
        <4>1. PICK a \in 1..Len(rs) : rs[a].start <= b /\ b < rs[a].end
          BY <3>2, Zenon DEF Holds
        <4>2. CASE a = 1
          <5>1. j[1].start <= b /\ b < j[1].end
            BY <1>0, <1>1, <2>1, <2>2, <4>1, <4>2
          <5>2. QED
            BY <3>0, <5>1, Zenon DEF Holds
        <4>3. CASE a # 1
          BY <2>1, <4>1, <4>3, Zenon DEF Holds
        <4>4. QED
          BY <4>2, <4>3, Zenon
      <3>3. QED
        BY <2>6, <3>1, <3>2, Zenon
    <2>7. Filled(j) /\ Gapped(j)
      BY <2>3, <2>4, Zenon DEF Filled, Gapped
    <2>8. QED
      BY <1>0, <2>0, <2>1, <2>5, <2>6, <2>7
  <1>2. CASE ~(rs # <<>> /\ r.end = rs[1].start)
    <2>1. /\ j \in Seq(Range_)
          /\ Len(j) = Len(rs) + 1
          /\ j[1] = r
          /\ \A a \in 1..Len(rs) : j[a + 1] = rs[a]
      BY <1>2, JoinPrepends
    <2>2. ASSUME NEW a \in 1..Len(j)
          PROVE  a = 1 \/ (a - 1 \in 1..Len(rs) /\ j[a] = rs[a - 1])
      <3>1. a = 1 \/ (a - 1 \in 1..Len(rs) /\ (a - 1) + 1 = a)
        BY <1>0, <2>1
      <3>2. QED
        BY <2>1, <3>1, Zenon
    <2>3. ASSUME NEW a \in 1..Len(j) PROVE j[a].start < j[a].end
      BY <2>1, <2>2, ZenonT(60) DEF Filled
    <2>4. ASSUME NEW a \in 1..Len(j), NEW b \in 1..Len(j), a < b PROVE j[a].end < j[b].start
      <3>1. b - 1 \in 1..Len(rs) /\ j[b] = rs[b - 1]
        BY <2>2, <2>4
      <3>2. CASE a = 1
        <4>1. 1 \in 1..Len(rs) /\ rs # <<>>
          BY <1>0, <3>1
        <4>2. rs[1].start \in Nat /\ rs[1].end \in Nat /\ rs[1].start < rs[1].end
          BY <4>1, RangeAt, Zenon DEF Filled
        <4>3. rs[b - 1].start \in Nat
          BY <3>1, RangeAt, Zenon
        <4>4. r.end < rs[1].start
          BY <1>0, <1>2, <4>1, <4>2
        <4>5. b - 1 # 1 => rs[1].end < rs[b - 1].start
          <5>1. b - 1 # 1 => 1 < b - 1
            BY <3>1
          <5>2. QED
            BY <3>1, <4>1, <5>1, Zenon DEF Gapped
        <4>6. r.end < rs[b - 1].start
          <5>1. CASE b - 1 = 1
            BY <4>4, <5>1, Zenon
          <5>2. CASE b - 1 # 1
            <6>1. rs[1].end < rs[b - 1].start
              BY <4>5, <5>2, Zenon
            <6>2. r.end \in Nat
              BY <1>0, Zenon
            <6>3. QED
              BY <4>2, <4>3, <4>4, <6>1, <6>2, LessChain, ZenonT(60)
          <5>3. QED
            BY <5>1, <5>2, Zenon
        <4>7. QED
          BY <2>1, <3>1, <3>2, <4>6, Zenon
      <3>3. CASE a # 1
        <4>1. a - 1 \in 1..Len(rs) /\ j[a] = rs[a - 1] /\ a - 1 < b - 1
          BY <2>2, <2>4, <3>3
        <4>2. QED
          BY <3>1, <4>1, Zenon DEF Gapped
      <3>4. QED
        BY <3>2, <3>3, Zenon
    <2>5. ASSUME NEW b \in Nat, Holds(j, b) PROVE (r.start <= b /\ b < r.end) \/ Holds(rs, b)
      <3>1. PICK a \in 1..Len(j) : j[a].start <= b /\ b < j[a].end
        BY <2>5, Zenon DEF Holds
      <3>2. QED
        BY <2>1, <2>2, <3>1, Zenon DEF Holds
    <2>6. ASSUME NEW b \in Nat, (r.start <= b /\ b < r.end) \/ Holds(rs, b) PROVE Holds(j, b)
      <3>0. 1 \in 1..Len(j) /\ \A a \in 1..Len(rs) : a + 1 \in 1..Len(j)
        BY <1>0, <2>1
      <3>1. CASE r.start <= b /\ b < r.end
        BY <2>1, <3>0, <3>1, Zenon DEF Holds
      <3>2. CASE Holds(rs, b)
        <4>1. PICK a \in 1..Len(rs) : rs[a].start <= b /\ b < rs[a].end
          BY <3>2, Zenon DEF Holds
        <4>2. a + 1 \in 1..Len(j) /\ j[a + 1] = rs[a]
          BY <2>1, <3>0, Zenon
        <4>3. QED
          BY <4>1, <4>2, Zenon DEF Holds
      <3>3. QED
        BY <2>6, <3>1, <3>2, Zenon
    <2>7. Filled(j) /\ Gapped(j)
      BY <2>3, <2>4, Zenon DEF Filled, Gapped
    <2>8. QED
      BY <1>0, <2>1, <2>5, <2>6, <2>7
  <1>3. QED
    BY <1>1, <1>2, Zenon

\* The bytes of the ranges from m on.
HoldsFrom(rs, m, b) == \E a \in m..Len(rs) : rs[a].start <= b /\ b < rs[a].end

\* What merging has made of the ranges of rs from m on.
Merged(rs, m, s) ==
    /\ s \in Seq(Range_)
    /\ Len(s) <= Len(rs) + 1 - m
    /\ m \in 1..Len(rs) => Len(s) >= 1 /\ s[1].start = rs[m].start
    /\ Filled(s)
    /\ Gapped(s)
    /\ \A b \in Nat : Holds(s, b) <=> HoldsFrom(rs, m, b)

\* One round of the loop.
LEMMA MergeRound ==
  ASSUME NEW rs \in Seq(Range_), Filled(rs), Ordered(rs), NEW m \in 1..Len(rs),
         NEW s, Merged(rs, m + 1, s), NEW j, j = Join(rs[m], s)
  PROVE  Merged(rs, m, j)
  <1>1. Len(rs) \in Nat /\ m \in Nat /\ m <= Len(rs)
    OBVIOUS
  <1>2. /\ s \in Seq(Range_)
        /\ Len(s) <= Len(rs) + 1 - (m + 1)
        /\ m + 1 \in 1..Len(rs) => Len(s) >= 1 /\ s[1].start = rs[m + 1].start
        /\ Filled(s)
        /\ Gapped(s)
        /\ \A b \in Nat : Holds(s, b) <=> HoldsFrom(rs, m + 1, b)
    BY Zenon DEF Merged
  <1>3. rs[m] \in Range_ /\ rs[m].start < rs[m].end
    BY RangeAt, Zenon DEF Filled
  <1>4. s # <<>> => rs[m].end <= s[1].start
    <2>1. SUFFICES ASSUME s # <<>> PROVE rs[m].end <= s[1].start
      BY Zenon
    <2>2. m + 1 \in 1..Len(rs)
      BY <1>1, <1>2, <2>1
    <2>3. m < m + 1
      BY <1>1
    <2>4. rs[m].end <= rs[m + 1].start
      BY <2>2, <2>3, Zenon DEF Ordered
    <2>5. QED
      BY <1>2, <2>2, <2>4, Zenon
  <1>5. /\ j \in Seq(Range_)
        /\ Len(j) \in 1..(Len(s) + 1)
        /\ j[1].start = rs[m].start
        /\ Filled(j)
        /\ Gapped(j)
        /\ \A b \in Nat : Holds(j, b) <=> (rs[m].start <= b /\ b < rs[m].end) \/ Holds(s, b)
    BY <1>2, <1>3, <1>4, JoinSound, ZenonT(60)
  <1>6. ASSUME NEW b \in Nat PROVE Holds(j, b) <=> HoldsFrom(rs, m, b)
    <2>1. Holds(j, b) <=> (rs[m].start <= b /\ b < rs[m].end) \/ HoldsFrom(rs, m + 1, b)
      BY <1>2, <1>5, Zenon
    <2>2. \A a : a \in m..Len(rs) <=> a = m \/ a \in (m + 1)..Len(rs)
      BY <1>1
    <2>3. QED
      BY <2>1, <2>2, Zenon DEF HoldsFrom
  <1>7. Len(s) \in Nat
    BY <1>2
  <1>8. Len(j) <= Len(rs) + 1 - m /\ Len(j) >= 1
    BY <1>1, <1>2, <1>5, <1>7
  <1>9. QED
    BY <1>5, <1>6, <1>8, Zenon DEF Merged

\* What the loop makes of the whole list.
LEMMA CoalescedSound ==
  ASSUME NEW rs \in Seq(Range_), Filled(rs), Ordered(rs)
  PROVE  Merged(rs, 1, Coalesced(rs))
  <1>0. Len(rs) \in Nat
    OBVIOUS
  <1>1. PICK g : Merging(rs, g) /\ Coalesced(rs) = g[1]
    BY CoalescedRuns, Zenon
  <1> DEFINE N == Len(rs)
             T == {k \in Nat : k \in 0..N => Merged(rs, N + 1 - k, g[N + 1 - k])}
  <1>2. 0 \in T
    <2>1. g[N + 1] = <<>> /\ N + 1 - 0 = N + 1
      BY <1>0, <1>1 DEF Merging
    <2>2. <<>> \in Seq(Range_) /\ Len(<<>>) = 0
      OBVIOUS
    <2>3. Filled(<<>>) /\ Gapped(<<>>)
      BY <2>2 DEF Filled, Gapped
    <2>4. ASSUME NEW b \in Nat PROVE Holds(<<>>, b) <=> HoldsFrom(rs, N + 1, b)
      <3>1. 1..Len(<<>>) = {} /\ (N + 1)..Len(rs) = {}
        BY <1>0
      <3>2. QED
        BY <3>1, Zenon DEF Holds, HoldsFrom
    <2>5. N + 1 \notin 1..Len(rs) /\ 0 <= Len(rs) + 1 - (N + 1)
      BY <1>0
    <2>6. Merged(rs, N + 1, <<>>)
      BY <2>2, <2>3, <2>4, <2>5, Zenon DEF Merged
    <2>7. QED
      BY <2>1, <2>6, Zenon
  <1>3. ASSUME NEW k \in T PROVE k + 1 \in T
    <2>1. SUFFICES ASSUME k + 1 \in 0..N PROVE Merged(rs, N + 1 - (k + 1), g[N + 1 - (k + 1)])
      OBVIOUS
    <2> DEFINE m == N + 1 - (k + 1)
    <2>2. m \in 1..N /\ m + 1 = N + 1 - k /\ k \in 0..N
      BY <1>0, <2>1
    <2>3. Merged(rs, m + 1, g[m + 1])
      BY <2>2, Zenon
    <2>4. g[m] = Join(rs[m], g[m + 1])
      BY <1>1, <2>2, Zenon DEF Merging
    <2> HIDE DEF m
    <2>5. Merged(rs, m, g[m])
      BY <2>2, <2>3, <2>4, MergeRound, Zenon
    <2>6. QED
      BY <2>5, Zenon DEF m
  <1>4. T = Nat
    <2> HIDE DEF T
    <2>1. T \in SUBSET Nat
      BY Zenon DEF T
    <2>2. QED
      BY <1>2, <1>3, <2>1, AllNat, Zenon
  <1>5. N \in T
    BY <1>0, <1>4, ZenonT(60)
  <1>6. N \in 0..N /\ N + 1 - N = 1
    BY <1>0
  <1>7. Merged(rs, 1, g[1])
    BY <1>5, <1>6, Zenon
  <1>8. QED
    BY <1>1, <1>7, Zenon

\* A set of naturals has a least member, if it has any.
LEMMA LeastOf ==
  ASSUME NEW C \in SUBSET Nat, C # {}
  PROVE  \E x \in C : \A y \in C : x <= y
  <1> DEFINE R == OpToRel(<, Nat)
  <1>1. IsWellFoundedOn(R, Nat)
    BY NatLessThanWellFounded, ZenonT(60)
  <1> HIDE DEF R
  <1>2. PICK x \in C : \A y \in C : ~(<<y, x>> \in R)
    BY <1>1, WFMin, Zenon
  <1>3. ASSUME NEW y \in C PROVE x <= y
    <2>1. ~(y < x)
      BY <1>2, ZenonT(60) DEF R, OpToRel
    <2>2. QED
      BY <2>1
  <1>4. QED
    BY <1>3, Zenon

\* Where a new range goes: behind all ranges that start before its end.
LEMMA PositionSound ==
  ASSUME NEW rs \in Seq(Range_), NEW e \in Nat
  PROVE  /\ Position(rs, e) \in 1..(Len(rs) + 1)
         /\ \A m \in 1..Len(rs) : m < Position(rs, e) => rs[m].start < e
         /\ Position(rs, e) \in 1..Len(rs) => e <= rs[Position(rs, e)].start
  <1> DEFINE C == {m \in 1..Len(rs) : e <= rs[m].start} \cup {Len(rs) + 1}
  <1>0. Len(rs) \in Nat
    OBVIOUS
  <1>1. C \subseteq Nat /\ C # {}
    BY <1>0
  <1>2. \E x \in C : \A y \in C : x <= y
    BY <1>1, LeastOf, ZenonT(60)
  <1> HIDE DEF C
  <1> DEFINE p == CHOOSE x \in C : \A y \in C : x <= y
  <1>3. p \in C /\ \A y \in C : p <= y
    BY <1>2, Zenon
  <1>4. Position(rs, e) = p
    BY Zenon DEF Position, Min, C
  <1> HIDE DEF p
  <1>5. p \in 1..(Len(rs) + 1)
    BY <1>0, <1>3 DEF C
  <1>6. ASSUME NEW m \in 1..Len(rs), m < p PROVE rs[m].start < e
    <2>1. m \notin C
      BY <1>0, <1>1, <1>3, <1>5, <1>6
    <2>2. ~(e <= rs[m].start)
      BY <2>1, Zenon DEF C
    <2>3. QED
      BY <2>2, RangeAt
  <1>7. p \in 1..Len(rs) => e <= rs[p].start
    BY <1>0, <1>3 DEF C
  <1>8. QED
    BY <1>4, <1>5, <1>6, <1>7, ZenonT(60)

\* The list after the insertion, range by range.
LEMMA Inserted ==
  ASSUME NEW rs \in Seq(Range_), NEW p \in 1..(Len(rs) + 1), NEW r \in Range_,
         NEW q, q = InsertedAt(rs, p, r)
  PROVE  /\ q \in Seq(Range_)
         /\ Len(q) = Len(rs) + 1
         /\ q[p] = r
         /\ \A a \in 1..Len(rs) : a < p => q[a] = rs[a]
         /\ \A a \in 1..Len(rs) : a >= p => q[a + 1] = rs[a]
  <1> DEFINE u == SubSeq(rs, 1, p - 1)
             v == SubSeq(rs, p, Len(rs))
             w == u \o <<r>>
  <1>0. Len(rs) \in Nat /\ p \in Nat
    OBVIOUS
  <1>1. q = w \o v
    BY Zenon DEF InsertedAt
  <1>2. /\ u \in Seq(Range_)
        /\ Len(u) = p - 1
        /\ \A a \in 1..(p - 1) : u[a] = rs[a]
    <2>1. \A a \in 1..(p - 1) : a \in 1..Len(rs)
      BY <1>0
    <2>2. u \in Seq(Range_)
      BY <1>0, <2>1, SeqPart
    <2>3. Len(u) = p - 1 /\ \A a \in 1..(p - 1) : u[a] = rs[a]
      BY <1>0, SeqPart
    <2>4. QED
      BY <2>2, <2>3, Zenon
  <1>3. /\ v \in Seq(Range_)
        /\ Len(v) = Len(rs) + 1 - p
        /\ \A a \in 1..Len(v) : v[a] = rs[p + a - 1]
    BY <1>0, SeqPart
  <1> HIDE DEF u, v
  <1>4. <<r>> \in Seq(Range_) /\ Len(<<r>>) = 1 /\ <<r>>[1] = r
    OBVIOUS
  <1>5. /\ w \in Seq(Range_)
        /\ Len(w) = p
        /\ \A a \in 1..(p - 1) : w[a] = rs[a]
        /\ w[p] = r
    <2>1. w \in Seq(Range_) /\ Len(w) = (p - 1) + 1
      BY <1>2, <1>4, SeqConcat
    <2>2. \A a \in 1..(p - 1) : w[a] = u[a]
      BY <1>0, <1>2, <1>4, SeqConcat
    <2>3. w[p] = r
      BY <1>0, <1>2, <1>4, SeqConcat
    <2>4. QED
      BY <1>0, <1>2, <2>1, <2>2, <2>3
  <1> HIDE DEF w
  <1>6. /\ q \in Seq(Range_)
        /\ Len(q) = p + (Len(rs) + 1 - p)
        /\ \A a \in 1..p : q[a] = w[a]
        /\ \A a \in 1..Len(v) : q[p + a] = v[a]
    <2>1. q \in Seq(Range_) /\ Len(q) = p + (Len(rs) + 1 - p)
      BY <1>1, <1>3, <1>5, SeqConcat, ZenonT(60)
    <2>2. \A a \in 1..p : q[a] = w[a]
      BY <1>0, <1>1, <1>3, <1>5, SeqConcat
    <2>3. ASSUME NEW a \in 1..Len(v) PROVE q[p + a] = v[a]
      <3>1. p + a \in 1..(Len(w) + Len(v)) /\ p + a > Len(w) /\ (p + a) - Len(w) = a
        BY <1>0, <1>3, <1>5
      <3>2. /\ (w \o v)[p + a] = v[(p + a) - Len(w)]
            /\ q = w \o v
        <4>1. (w \o v)[p + a] = IF p + a <= Len(w) THEN w[p + a] ELSE v[(p + a) - Len(w)]
          BY <1>3, <1>5, <3>1, SeqConcat, ZenonT(60)
        <4>2. ~(p + a <= Len(w))
          BY <1>0, <1>5
        <4>3. QED
          BY <1>1, <4>1, <4>2, Zenon
      <3>3. QED
        BY <3>1, <3>2, Zenon
    <2>4. QED
      BY <2>1, <2>2, <2>3, Zenon
  <1>7. ASSUME NEW a \in 1..Len(rs), a < p PROVE q[a] = rs[a]
    <2>1. a \in 1..(p - 1) /\ a \in 1..p
      BY <1>0, <1>7
    <2>2. QED
      BY <1>5, <1>6, <2>1, ZenonT(60)
  <1>8. ASSUME NEW a \in 1..Len(rs), a >= p PROVE q[a + 1] = rs[a]
    <2>1. /\ a + 1 - p \in 1..Len(v)
          /\ p + (a + 1 - p) = a + 1
          /\ p + (a + 1 - p) - 1 = a
      BY <1>0, <1>3, <1>8
    <2>2. q[a + 1] = v[a + 1 - p] /\ v[a + 1 - p] = rs[a]
      BY <1>3, <1>6, <2>1, ZenonT(60)
    <2>3. QED
      BY <2>2, Zenon
  <1>9. q[p] = r
    <2>1. p \in 1..p
      BY <1>0
    <2>2. QED
      BY <1>5, <1>6, <2>1, Zenon
  <1>10. Len(q) = Len(rs) + 1
    BY <1>0, <1>6
  <1>11. QED
    BY <1>6, <1>7, <1>8, <1>9, <1>10, Zenon

\* A sound list of ranges.
Sound(rs) == rs \in Seq(Range_) /\ Filled(rs) /\ Gapped(rs)

\* Inserting a range that overlaps none keeps the order, and adds its bytes.
LEMMA InsertedInOrder ==
  ASSUME NEW rs, Sound(rs), NEW r \in Range_, r.start < r.end,
         ~Overlaps(rs, r.start, r.end),
         NEW q, q = InsertedAt(rs, Position(rs, r.end), r)
  PROVE  /\ q \in Seq(Range_)
         /\ Len(q) = Len(rs) + 1
         /\ Filled(q)
         /\ Ordered(q)
         /\ \A b \in Nat : Holds(q, b) <=> (r.start <= b /\ b < r.end) \/ Holds(rs, b)
  <1>a. rs \in Seq(Range_) /\ Filled(rs) /\ Gapped(rs)
    BY Zenon DEF Sound
  <1>b. Len(rs) \in Nat /\ DOMAIN rs = 1..Len(rs)
    BY <1>a
  <1>c. r.start \in Nat /\ r.end \in Nat
    BY ReassConstants DEF Range_
  <1>0. /\ rs \in Seq(Range_) /\ Filled(rs) /\ Gapped(rs)
        /\ Len(rs) \in Nat /\ r.start \in Nat /\ r.end \in Nat
        /\ DOMAIN rs = 1..Len(rs)
    BY <1>a, <1>b, <1>c, Zenon
  <1>1. PICK p : p = Position(rs, r.end)
    BY Zenon
  <1>2. /\ p \in 1..(Len(rs) + 1)
        /\ \A m \in 1..Len(rs) : m < p => rs[m].start < r.end
        /\ p \in 1..Len(rs) => r.end <= rs[p].start
    BY <1>0, <1>1, PositionSound, ZenonT(60)
  <1>d. p \in 1..(Len(rs) + 1)
    BY <1>2, Zenon
  <1>3. /\ q \in Seq(Range_)
        /\ Len(q) = Len(rs) + 1
        /\ q[p] = r
        /\ \A a \in 1..Len(rs) : a < p => q[a] = rs[a]
        /\ \A a \in 1..Len(rs) : a >= p => q[a + 1] = rs[a]
    <2>1. q = InsertedAt(rs, p, r)
      BY <1>1, Zenon
    <2>2. QED
      BY <1>a, <1>d, <2>1, Inserted
  <1>4. ASSUME NEW a \in 1..Len(rs), a < p PROVE rs[a].end <= r.start
    <2>1. rs[a].start < r.end
      BY <1>2, <1>4, Zenon
    <2>2. ~(r.start < rs[a].end /\ rs[a].start < r.end)
      BY <1>0, Zenon DEF Overlaps
    <2>3. rs[a].end \in Nat
      BY <1>0, RangeAt, Zenon
    <2>4. QED
      BY <1>0, <2>1, <2>2, <2>3
  <1>5. ASSUME NEW a \in 1..Len(rs), a >= p PROVE r.end <= rs[a].start
    <2>1. p \in 1..Len(rs)
      BY <1>0, <1>2, <1>5
    <2>2. r.end <= rs[p].start
      BY <1>2, <2>1, Zenon
    <2>3. CASE a = p
      BY <2>2, <2>3, Zenon
    <2>4. CASE a # p
      <3>1. p < a
        BY <1>5, <2>1, <2>4, SMTT(60)
      <3>2. rs[p].end < rs[a].start /\ rs[p].start < rs[p].end
        BY <1>0, <2>1, <3>1, Zenon DEF Gapped, Filled
      <3>3. rs[p].start \in Nat /\ rs[p].end \in Nat /\ rs[a].start \in Nat
        BY <1>0, <2>1, RangeAt, Zenon
      <3>4. QED
        BY <1>0, <2>2, <3>2, <3>3
    <2>5. QED
      BY <2>3, <2>4, Zenon
  \* every range of q is r, or one of rs
  <1>6. ASSUME NEW c \in 1..Len(q)
        PROVE  \/ c = p /\ q[c] = r
               \/ c < p /\ c \in 1..Len(rs) /\ q[c] = rs[c]
               \/ c > p /\ c - 1 \in 1..Len(rs) /\ c - 1 >= p /\ q[c] = rs[c - 1]
    <2>1. \/ c = p
          \/ c < p /\ c \in 1..Len(rs)
          \/ c > p /\ c - 1 \in 1..Len(rs) /\ c - 1 >= p /\ (c - 1) + 1 = c
      BY <1>0, <1>2, <1>3, SMTT(60)
    <2>2. QED
      BY <1>3, <2>1, Zenon
  <1>7. Filled(q)
    BY <1>0, <1>6, ZenonT(60) DEF Filled
  <1>8. ASSUME NEW c \in 1..Len(q), NEW d \in 1..Len(q), c < d PROVE q[c].end <= q[d].start
    <2>0. \A a, b \in 1..Len(rs) : a < b => rs[a].end <= rs[b].start
      <3>1. SUFFICES ASSUME NEW a \in 1..Len(rs), NEW b \in 1..Len(rs), a < b
                     PROVE  rs[a].end <= rs[b].start
        BY Zenon
      <3>2. rs[a].end < rs[b].start
        BY <1>0, <3>1, Zenon DEF Gapped
      <3>3. rs[a].end \in Nat /\ rs[b].start \in Nat
        BY <1>0, RangeAt, Zenon
      <3>4. QED
        BY <3>2, <3>3, LessIsAtMost, Zenon
    <2>1. CASE c = p
      <3>1. d > p
        BY <1>8, <2>1, Zenon
      <3>2. d - 1 \in 1..Len(rs) /\ d - 1 >= p /\ q[d] = rs[d - 1]
        BY <1>2, <1>6, <3>1, SMTT(60)
      <3>3. QED
        BY <1>3, <1>5, <2>1, <3>2, Zenon
    <2>2. CASE c < p
      <3>1. c \in 1..Len(rs) /\ q[c] = rs[c]
        BY <1>2, <1>6, <2>2
      <3>2. CASE d = p
        BY <1>3, <1>4, <2>2, <3>1, <3>2, Zenon
      <3>3. CASE d < p
        <4>1. d \in 1..Len(rs) /\ q[d] = rs[d]
          BY <1>2, <1>6, <3>3, SMTT(60)
        <4>2. QED
          BY <1>8, <2>0, <3>1, <4>1, Zenon
      <3>4. CASE d > p
        <4>1. d - 1 \in 1..Len(rs) /\ q[d] = rs[d - 1] /\ c < d - 1
          BY <1>2, <1>6, <2>2, <3>4
        <4>2. QED
          BY <2>0, <3>1, <4>1, Zenon
      <3>5. QED
        BY <1>2, <3>2, <3>3, <3>4
    <2>3. CASE c > p
      <3>1. d > p
        BY <1>2, <1>8, <2>3
      <3>2. c - 1 \in 1..Len(rs) /\ q[c] = rs[c - 1]
        BY <1>2, <1>6, <2>3
      <3>3. d - 1 \in 1..Len(rs) /\ q[d] = rs[d - 1]
        BY <1>2, <1>6, <3>1
      <3>4. c - 1 < d - 1
        BY <1>8
      <3>5. QED
        BY <2>0, <3>2, <3>3, <3>4, Zenon
    <2>4. QED
      BY <1>2, <2>1, <2>2, <2>3
  <1>9. Ordered(q)
    BY <1>8, Zenon DEF Ordered
  <1>10. ASSUME NEW b \in Nat, Holds(q, b) PROVE (r.start <= b /\ b < r.end) \/ Holds(rs, b)
    <2>1. PICK c \in 1..Len(q) : q[c].start <= b /\ b < q[c].end
      BY <1>10, Zenon DEF Holds
    <2>2. QED
      BY <1>6, <2>1, Zenon DEF Holds
  <1>11. ASSUME NEW b \in Nat, (r.start <= b /\ b < r.end) \/ Holds(rs, b) PROVE Holds(q, b)
    <2>1. CASE r.start <= b /\ b < r.end
      <3>1. p \in 1..Len(q)
        BY <1>0, <1>2, <1>3, Zenon
      <3>2. QED
        BY <1>3, <2>1, <3>1, Zenon DEF Holds
    <2>2. CASE Holds(rs, b)
      <3>1. PICK a \in 1..Len(rs) : rs[a].start <= b /\ b < rs[a].end
        BY <2>2, Zenon DEF Holds
      <3>2. CASE a < p
        <4>1. a \in 1..Len(q) /\ q[a] = rs[a]
          BY <1>0, <1>3, <3>2
        <4>2. QED
          BY <3>1, <4>1, Zenon DEF Holds
      <3>3. CASE a >= p
        <4>1. a + 1 \in 1..Len(q) /\ q[a + 1] = rs[a]
          BY <1>0, <1>3, <3>3
        <4>2. QED
          BY <3>1, <4>1, Zenon DEF Holds
      <3>4. QED
        BY <1>2, <3>2, <3>3
    <2>3. QED
      BY <1>11, <2>1, <2>2, Zenon
  <1>12. QED
    BY <1>3, <1>7, <1>9, <1>10, <1>11, Zenon

\* ranges_insert keeps the list sorted with gaps, adds exactly the bytes of
\* the new range, and lengthens the list by at most one.
LEMMA InsertSound ==
  ASSUME NEW rs, Sound(rs), NEW s \in Nat, NEW e \in Nat, s < e,
         e <= IP_REASS_MAX_PAYLOAD, ~Overlaps(rs, s, e),
         NEW t, t = ranges_insert(rs, s, e)
  PROVE  /\ Sound(t)
         /\ Len(t) <= Len(rs) + 1
         /\ \A b \in Nat : Holds(t, b) <=> (s <= b /\ b < e) \/ Holds(rs, b)
  <1>0. IP_REASS_MAX_PAYLOAD \in Nat
    BY ReassConstants, Zenon
  <1>1. PICK r : r = [start |-> s, end |-> e]
    BY ZenonT(60)
  <1>2. r \in Range_ /\ r.start = s /\ r.end = e
    BY <1>0, <1>1 DEF Range_
  <1>3. PICK q : q = InsertedAt(rs, Position(rs, r.end), r)
    BY Zenon
  <1>4. /\ q \in Seq(Range_)
        /\ Len(q) = Len(rs) + 1
        /\ Filled(q)
        /\ Ordered(q)
        /\ \A b \in Nat : Holds(q, b) <=> (s <= b /\ b < e) \/ Holds(rs, b)
    BY <1>2, <1>3, InsertedInOrder
  <1>5. t = Coalesced(q)
    BY <1>1, <1>2, <1>3, Zenon DEF ranges_insert
  <1>6. Merged(q, 1, t)
    BY <1>4, <1>5, CoalescedSound, Zenon
  <1>7. Sound(t) /\ Len(t) <= Len(q) + 1 - 1 /\ \A b \in Nat : Holds(t, b) <=> HoldsFrom(q, 1, b)
    BY <1>6, Zenon DEF Merged, Sound
  <1>8. \A b : HoldsFrom(q, 1, b) <=> Holds(q, b)
    BY Zenon DEF HoldsFrom, Holds
  <1>9. Len(rs) \in Nat
    BY DEF Sound
  <1>10. QED
    BY <1>4, <1>7, <1>8, <1>9

\* A number that is neither 0 nor more than 1.
LEMMA IsOne == \A n \in Nat : n >= 1 /\ ~(n >= 2) => n = 1
  OBVIOUS

\* The bytes of the list are those from 0 to t - 1.
Spans(rs, t) == \A b \in Nat : Holds(rs, b) <=> b < t

\* A sound list with the bytes from 0 to t - 1, and no others, is one range:
\* the test before deliver_complete, which looks at the first range of the
\* list and at its length, misses no datagram.
LEMMA OneRange ==
  ASSUME NEW rs, Sound(rs), NEW t \in Nat, t > 0, Spans(rs, t)
  PROVE  rs = <<[start |-> 0, end |-> t]>>
  <1>0. /\ rs \in Seq(Range_) /\ Len(rs) \in Nat
        /\ \A a \in 1..Len(rs) : /\ rs[a].start \in Nat
                                 /\ rs[a].end \in Nat
                                 /\ rs[a].start < rs[a].end
    BY RangeAt DEF Sound, Filled
  <1>1. \A a, b \in 1..Len(rs) : a < b => rs[a].end < rs[b].start
    BY Zenon DEF Sound, Gapped
  <1>2. PICK a \in 1..Len(rs) : rs[a].start = 0
    <2>1. Holds(rs, 0)
      BY Zenon DEF Spans
    <2>2. PICK a \in 1..Len(rs) : rs[a].start <= 0
      BY <2>1, Zenon DEF Holds
    <2>3. QED
      BY <1>0, <2>2
  <1>3. ASSUME NEW b \in 1..Len(rs) PROVE ~(b < a)
    BY <1>0, <1>1, <1>2
  <1>4. a = 1
    BY <1>0, <1>3
  <1>5. ASSUME NEW b \in 1..Len(rs) PROVE rs[b].end <= t
    <2>1. rs[b].end - 1 \in Nat /\ rs[b].start <= rs[b].end - 1 /\ rs[b].end - 1 < rs[b].end
      BY <1>0
    <2>2. Holds(rs, rs[b].end - 1)
      BY <2>1, Zenon DEF Holds
    <2>3. rs[b].end - 1 < t
      BY <2>1, <2>2, Zenon DEF Spans
    <2>4. rs[b].end \in Nat
      BY <1>0, Zenon
    <2>5. QED
      BY <2>3, <2>4
  <1>6. rs[1].end = t
    <2>1. SUFFICES ASSUME rs[1].end < t PROVE FALSE
      BY <1>0, <1>4, <1>5
    <2>2. Holds(rs, rs[1].end)
      BY <1>0, <1>4, <2>1, Zenon DEF Spans
    <2>3. PICK b \in 1..Len(rs) : rs[b].start <= rs[1].end /\ rs[1].end < rs[b].end
      BY <2>2, Zenon DEF Holds
    <2>4. b # 1
      BY <1>0, <1>4, <2>3
    <2>5. rs[1].end < rs[b].start
      BY <1>0, <1>1, <1>4, <2>4
    <2>6. rs[1].end \in Nat /\ rs[b].start \in Nat
      BY <1>0, <1>4, Zenon
    <2>7. QED
      BY <2>3, <2>5, <2>6
  <1>7. Len(rs) = 1
    <2>0. Len(rs) \in Nat /\ Len(rs) >= 1
      BY <1>0, <1>4
    <2>1. SUFFICES ASSUME Len(rs) >= 2 PROVE FALSE
      BY <2>0, IsOne, Zenon
    <2>2. 2 \in 1..Len(rs) /\ 1 < 2
      BY <1>0, <2>1
    <2>3. rs[1].end < rs[2].start
      BY <1>1, <1>4, <2>2, Zenon
    <2>4. rs[2].end <= t /\ rs[2].start \in Nat /\ rs[2].end \in Nat /\ rs[2].start < rs[2].end
      BY <1>0, <1>5, <2>2, Zenon
    <2>5. QED
      BY <1>6, <2>3, <2>4
  <1>8. rs[1] = [start |-> 0, end |-> t]
    <2>1. rs[1] \in Range_
      BY <1>0, <1>4, RangeAt, Zenon
    <2>2. QED
      BY <1>2, <1>4, <1>6, <2>1, Zenon DEF Range_
  <1>9. QED
    BY <1>0, <1>7, <1>8

-----------------------------------------------------------------------------
(* The pieces ip_output makes.                                             *)

\* Division, for positive divisors.
LEMMA DivBelow == ASSUME NEW u \in Nat \ {0}, NEW a \in Nat
                  PROVE  a \div u \in Nat /\ u * (a \div u) <= a
  OBVIOUS
LEMMA DivAbove == ASSUME NEW u \in Nat \ {0}, NEW a \in Nat PROVE a < u * (a \div u) + u
  OBVIOUS
LEMMA MulDiv == ASSUME NEW u \in Nat \ {0}, NEW x \in Nat PROVE (u * x) \div u = x
  OBVIOUS
LEMMA MulMod == ASSUME NEW u \in Nat \ {0}, NEW x \in Nat PROVE (u * x) % u = 0
  OBVIOUS
LEMMA MulNat == ASSUME NEW u \in Nat, NEW x \in Nat PROVE u * x \in Nat
  OBVIOUS
LEMMA MulStep == ASSUME NEW u \in Nat, NEW x \in Nat, NEW y \in Nat, x < y
                 PROVE  u * x + u <= u * y
  OBVIOUS
LEMMA MulTurn == ASSUME NEW u \in Nat, NEW x \in Nat, NEW y \in Nat
                 PROVE  x * (u * y) = u * (x * y) /\ x * u = u * x
  OBVIOUS

\* MaxChunk is a positive multiple of the unit.
LEMMA ChunkUnits ==
  ASSUME NEW mtu \in Mtus
  PROVE  /\ FRAG_UNIT \in Nat \ {0}
         /\ MaxChunk(mtu) \in Nat \ {0}
         /\ mtu \div FRAG_UNIT \in Nat
         /\ MaxChunk(mtu) = FRAG_UNIT * (mtu \div FRAG_UNIT)
  <1>1. FRAG_UNIT \in Nat \ {0} /\ mtu \in Nat /\ mtu >= FRAG_UNIT
    BY ReassConstants, PathConstants, Zenon
  <1>2. PICK q : q = mtu \div FRAG_UNIT
    BY Zenon
  <1>3. q \in Nat /\ FRAG_UNIT * q <= mtu /\ mtu < FRAG_UNIT * q + FRAG_UNIT
    BY <1>1, <1>2, DivBelow, DivAbove, ZenonT(60)
  <1>4. FRAG_UNIT * q \in Nat
    BY <1>1, <1>3, MulNat, Zenon
  <1>5. FRAG_UNIT * q # 0
    BY <1>1, <1>3, <1>4
  <1>6. QED
    BY <1>1, <1>2, <1>3, <1>4, <1>5, Zenon DEF MaxChunk

\* Piece k of a datagram in chunks of c, of which the last is the K-th.
PieceIs(f, n, len, c, k, K) ==
    /\ f.key = n /\ f.tag = n
    /\ f.off = c * k
    /\ f.off \in Nat
    /\ f.off % FRAG_UNIT = 0
    /\ f.len \in 1..c
    /\ f.mf \in BOOLEAN
    /\ f.mf <=> k # K
    /\ k # K => f.len = c /\ c * k + c < len
    /\ k = K => f.off + f.len = len

\* The pieces of a datagram that does not fit one frame.
LEMMA PieceFacts ==
  ASSUME NEW n, NEW len \in Nat \ {0}, NEW mtu \in Mtus,
         NEW c, c = MaxChunk(mtu), NEW K, K = (len - 1) \div c, NEW k \in 0..K
  PROVE  PieceIs(Piece(n, len, k * c, c), n, len, c, k, K)
  <1> DEFINE U == FRAG_UNIT
             f == Piece(n, len, k * c, c)
  <1>1. PICK q \in Nat : c = U * q
    BY ChunkUnits, Zenon
  <1>2. U \in Nat \ {0} /\ c \in Nat \ {0}
    BY ChunkUnits, Zenon
  <1>3. len - 1 \in Nat
    OBVIOUS
  <1>4. K \in Nat /\ c * K <= len - 1 /\ len - 1 < c * K + c
    BY <1>2, <1>3, DivBelow, DivAbove, Zenon
  <1>5. k \in Nat /\ k <= K
    BY <1>4
  <1>6. k * q \in Nat /\ c * k \in Nat /\ c * K \in Nat
    BY <1>1, <1>2, <1>4, <1>5, MulNat, Zenon
  <1>7. k * c = U * (k * q) /\ k * c = c * k
    BY <1>1, <1>2, <1>5, MulTurn
  <1>8. (k * c) \div U = k * q
    BY <1>2, <1>6, <1>7, MulDiv
  <1>9. U * ((k * c) \div U) = c * k
    BY <1>7, <1>8, Zenon
  <1>10. (c * k) % U = 0
    BY <1>2, <1>6, <1>7, MulMod, ZenonT(60)
  <1>11. f = [key |-> n, tag |-> n, off |-> c * k,
              len |-> IF len - c * k < c THEN len - c * k ELSE c, mf |-> c * k + c < len]
    BY <1>7, <1>9, Zenon DEF Piece
  <1>a. SUFFICES PieceIs(f, n, len, c, k, K)
    BY Zenon
  <1> HIDE DEF f, U
  <1>x. PICK x \in Nat : x = c * k
    BY <1>6, Zenon
  <1>y. PICK y \in Nat : y = c * K
    BY <1>6, Zenon
  <1>12. /\ f.key = n /\ f.tag = n /\ f.off = x
         /\ f.len = IF len - x < c THEN len - x ELSE c
         /\ f.mf \in BOOLEAN
         /\ f.mf <=> x + c < len
    <2>1. f.key = n /\ f.tag = n /\ f.off = x
      BY <1>11, <1>x, Zenon
    <2>2. f.len = IF len - x < c THEN len - x ELSE c
      BY <1>11, <1>x, ZenonT(60)
    <2>3. f.mf = (c * k + c < len)
      BY <1>11, Zenon
    <2>4. f.mf \in BOOLEAN
      BY <1>11
    <2>5. f.mf <=> x + c < len
      BY <1>x, <2>3, Zenon
    <2>6. QED
      BY <2>1, <2>2, <2>4, <2>5, Zenon
  <1>13. CASE k = K
    <2>0. x = y /\ y <= len - 1 /\ len - 1 < y + c
      BY <1>4, <1>13, <1>x, <1>y, ZenonT(60)
    <2>1. ~(x + c < len) /\ len - x <= c
      BY <1>2, <2>0
    <2>2. f.len \in 1..c /\ f.off + f.len = len
      BY <1>2, <1>12, <2>0, <2>1
    <2>3. f.off \in Nat /\ f.off % FRAG_UNIT = 0 /\ f.off = c * k
      BY <1>10, <1>12, <1>x, ZenonT(60) DEF U
    <2>4. f.mf <=> k # K
      BY <1>12, <1>13, <2>1, Zenon
    <2>5. QED
      BY <1>12, <1>13, <2>2, <2>3, <2>4, Zenon DEF PieceIs
  <1>14. CASE k # K
    <2>1. k < K
      BY <1>4, <1>5, <1>14
    <2>2. c * k + c <= c * K
      BY <1>2, <1>4, <1>5, <2>1, MulStep, Zenon
    <2>3. x + c <= y /\ y <= len - 1
      BY <1>4, <1>x, <1>y, <2>2, Zenon
    <2>4. x + c < len /\ f.len = c
      BY <1>2, <1>12, <2>3
    <2>5. f.len \in 1..c
      BY <1>2, <2>4
    <2>6. f.off \in Nat /\ f.off % FRAG_UNIT = 0 /\ f.off = c * k
      BY <1>10, <1>12, <1>x, Zenon DEF U
    <2>7. f.mf <=> k # K
      BY <1>12, <1>14, <2>4, Zenon
    <2>8. f.len = c /\ c * k + c < len
      BY <1>x, <2>4, Zenon
    <2>9. QED
      BY <1>12, <1>14, <2>5, <2>6, <2>7, <2>8, Zenon DEF PieceIs
  <1>15. QED
    BY <1>13, <1>14, Zenon

\* A datagram that fits is one piece.
LEMMA WholePiece ==
  ASSUME NEW n, NEW len \in Nat \ {0}
  PROVE  Piece(n, len, 0, len) = [key |-> n, tag |-> n, off |-> 0, len |-> len, mf |-> FALSE]
  <1>1. FRAG_UNIT \in Nat \ {0}
    BY ReassConstants, Zenon
  <1>2. (FRAG_UNIT * 0) \div FRAG_UNIT = 0 /\ FRAG_UNIT * 0 = 0
    BY <1>1, MulDiv
  <1>3. FRAG_UNIT * (0 \div FRAG_UNIT) = 0
    BY <1>2, Zenon
  <1>4. ~(len - 0 < len) /\ ~(0 + len < len)
    OBVIOUS
  <1>5. (0 + len < len) = FALSE
    BY <1>4
  <1>6. QED
    BY <1>3, <1>4, <1>5, ZenonT(60) DEF Piece

\* What ip_reass_input needs of a piece: it is not refused, and the last
\* fragment tells the length of the datagram.
PieceSound(f, n, len) ==
    /\ f.key = n /\ f.tag = n
    /\ f.off \in Nat /\ f.off % FRAG_UNIT = 0
    /\ f.len \in Nat
    /\ f.mf \in BOOLEAN
    /\ ~BadFrag(f)
    /\ ~f.mf <=> End(f) = len

\* The multiples of c are c apart.
LEMMA ChunkAt ==
  ASSUME NEW c \in Nat \ {0}, NEW b \in Nat, NEW k \in Nat, c * k <= b, b < c * k + c
  PROVE  k = b \div c
  <1>1. PICK d : d = b \div c
    BY Zenon
  <1>2. d \in Nat /\ c * d <= b /\ b < c * d + c
    BY <1>1, DivBelow, DivAbove, Zenon
  <1>3. c * d \in Nat /\ c * k \in Nat
    BY <1>2, MulNat, Zenon
  <1>4. d < k => c * d + c <= c * k
    BY <1>2, MulStep, Zenon
  <1>5. k < d => c * k + c <= c * d
    BY <1>2, MulStep, Zenon
  <1>6. ~(d < k) /\ ~(k < d)
    BY <1>2, <1>3, <1>4, <1>5
  <1>7. QED
    BY <1>1, <1>2, <1>6

\* Every piece of every datagram is as it should be.
LEMMA PiecesSound ==
  ASSUME NEW n, NEW len \in Nat \ {0}, NEW mtu \in Mtus, NEW f \in Pieces(n, len, mtu)
  PROVE  PieceSound(f, n, len)
  <1>0. FRAG_UNIT \in Nat \ {0}
    BY ReassConstants, Zenon
  <1>1. CASE len <= mtu
    <2>1. f = [key |-> n, tag |-> n, off |-> 0, len |-> len, mf |-> FALSE]
      BY <1>1, WholePiece, Zenon DEF Pieces
    <2>2. /\ f.key = n /\ f.tag = n /\ f.off = 0 /\ f.len = len /\ f.mf = FALSE
      BY <2>1, Zenon
    <2>3. 0 % FRAG_UNIT = 0
      BY <1>0
    <2>4. ~BadFrag(f)
      BY <2>2, Zenon DEF BadFrag
    <2>5. End(f) = len
      BY <2>2 DEF End
    <2>6. f.off \in Nat /\ f.off % FRAG_UNIT = 0 /\ f.len \in Nat
      BY <2>2, <2>3
    <2>7. f.mf \in BOOLEAN /\ ~f.mf
      BY <2>2, Zenon
    <2>8. QED
      BY <2>2, <2>4, <2>5, <2>6, <2>7, Zenon DEF PieceSound
  <1>2. CASE ~(len <= mtu)
    <2>1. PICK c : c = MaxChunk(mtu)
      BY Zenon
    <2>2. PICK K : K = (len - 1) \div c
      BY Zenon
    <2>3. PICK k \in 0..K : f = Piece(n, len, k * c, c)
      BY <1>2, <2>1, <2>2, Zenon DEF Pieces
    <2>4. PieceIs(f, n, len, c, k, K)
      BY <2>1, <2>2, <2>3, PieceFacts, Zenon
    <2>5. c \in Nat \ {0} /\ c % FRAG_UNIT = 0
      <3>1. c \in Nat \ {0} /\ mtu \div FRAG_UNIT \in Nat /\ c = FRAG_UNIT * (mtu \div FRAG_UNIT)
        BY <2>1, ChunkUnits, Zenon
      <3>2. QED
        BY <1>0, <3>1, MulMod, Zenon
    <2>6. /\ f.key = n /\ f.tag = n
          /\ f.off = c * k /\ f.off \in Nat /\ f.off % FRAG_UNIT = 0
          /\ f.len \in 1..c
          /\ f.mf \in BOOLEAN
          /\ f.mf <=> k # K
          /\ k # K => f.len = c /\ c * k + c < len
          /\ k = K => f.off + f.len = len
      BY <2>4, Zenon DEF PieceIs
    <2>7. f.len \in Nat /\ f.len # 0
      BY <2>5, <2>6
    <2>8. f.mf => f.len % FRAG_UNIT = 0
      BY <2>5, <2>6, Zenon
    <2>9. ~BadFrag(f)
      BY <2>7, <2>8, Zenon DEF BadFrag
    <2>10. ~f.mf <=> f.off + f.len = len
      <3>1. CASE k = K
        BY <2>6, <3>1, Zenon
      <3>2. CASE k # K
        <4>1. PICK x \in Nat : x = f.off
          BY <2>6, Zenon
        <4>2. f.mf /\ f.len = c /\ x + c < len
          BY <2>6, <3>2, <4>1, Zenon
        <4>3. x + c # len
          BY <2>5, <4>2
        <4>4. QED
          BY <4>1, <4>2, <4>3, Zenon
      <3>3. QED
        BY <3>1, <3>2, Zenon
    <2>11. QED
      BY <2>6, <2>7, <2>9, <2>10, Zenon DEF PieceSound, End
  <1>3. QED
    BY <1>1, <1>2, Zenon

\* Byte b is in fragment f.
Has(f, b) == f.off <= b /\ b < End(f)

\* Every byte of a datagram is in exactly one of its pieces.
LEMMA PiecesCover ==
  ASSUME NEW n, NEW len \in Nat \ {0}, NEW mtu \in Mtus, NEW b \in 0..(len - 1)
  PROVE  \E f \in Pieces(n, len, mtu) :
            Has(f, b) /\ \A g \in Pieces(n, len, mtu) : Has(g, b) => g = f
  <1>0. b \in Nat /\ b < len /\ len - 1 \in Nat /\ b <= len - 1
    OBVIOUS
  <1>1. CASE len <= mtu
    <2>1. PICK f : f = [key |-> n, tag |-> n, off |-> 0, len |-> len, mf |-> FALSE]
      BY ZenonT(60)
    <2>2. Pieces(n, len, mtu) = {f}
      BY <1>1, <2>1, WholePiece, ZenonT(60) DEF Pieces
    <2>3. Has(f, b)
      BY <1>0, <2>1 DEF Has, End
    <2>4. QED
      BY <2>2, <2>3, Zenon
  <1>2. CASE ~(len <= mtu)
    <2>1. PICK c : c = MaxChunk(mtu)
      BY Zenon
    <2>2. PICK K : K = (len - 1) \div c
      BY Zenon
    <2>3. Pieces(n, len, mtu) = {Piece(n, len, k * c, c) : k \in 0..K}
      BY <1>2, <2>1, <2>2, Zenon DEF Pieces
    <2>4. c \in Nat \ {0}
      BY <2>1, ChunkUnits, Zenon
    <2>5. K \in Nat /\ c * K <= len - 1 /\ len - 1 < c * K + c
      BY <1>0, <2>2, <2>4, DivBelow, DivAbove, Zenon
    <2>6. PICK k : k = b \div c
      BY Zenon
    <2>7. k \in Nat /\ c * k <= b /\ b < c * k + c
      BY <1>0, <2>4, <2>6, DivBelow, DivAbove, Zenon
    <2>8. k \in 0..K
      <3>1. c * k \in Nat /\ c * K \in Nat
        BY <2>4, <2>5, <2>7, MulNat, ZenonT(60)
      <3>2. K < k => c * K + c <= c * k
        BY <2>4, <2>5, <2>7, MulStep, Zenon
      <3>3. ~(K < k)
        BY <1>0, <2>4, <2>5, <2>7, <3>1, <3>2
      <3>4. QED
        BY <2>5, <2>7, <3>3
    <2>9. PICK f : f = Piece(n, len, k * c, c)
      BY Zenon
    <2>10. PieceIs(f, n, len, c, k, K)
      BY <2>1, <2>2, <2>8, <2>9, PieceFacts, Zenon
    <2>11. Has(f, b)
      <3>1. PICK x \in Nat : x = c * k
        BY <2>4, <2>7, MulNat, Zenon
      <3>2. f.off = x /\ x <= b /\ b < x + c
        BY <2>7, <2>10, <3>1, Zenon DEF PieceIs
      <3>3. f.len = c \/ f.off + f.len = len
        BY <2>10, Zenon DEF PieceIs
      <3>4. b < f.off + f.len
        BY <1>0, <3>2, <3>3, Zenon
      <3>5. QED
        BY <3>2, <3>4, Zenon DEF Has, End
    <2>12. ASSUME NEW g \in Pieces(n, len, mtu), Has(g, b) PROVE g = f
      <3>1. PICK m \in 0..K : g = Piece(n, len, m * c, c)
        BY <2>3, Zenon
      <3>2. PieceIs(g, n, len, c, m, K)
        BY <2>1, <2>2, <3>1, PieceFacts, Zenon
      <3>3. m \in Nat /\ g.off = c * m /\ g.len \in 1..c
        BY <2>5, <3>2 DEF PieceIs
      <3>4. c * m <= b /\ b < c * m + g.len
        BY <2>12, <3>3, Zenon DEF Has, End
      <3>5. PICK y \in Nat : y = c * m
        BY <2>4, <3>3, MulNat, Zenon
      <3>6. b < y + c
        BY <1>0, <2>4, <3>3, <3>4, <3>5
      <3>7. m = b \div c
        BY <1>0, <2>4, <3>3, <3>4, <3>5, <3>6, ChunkAt, Zenon
      <3>8. QED
        BY <2>6, <2>9, <3>1, <3>7, Zenon
    <2>13. f \in Pieces(n, len, mtu)
      BY <2>3, <2>8, <2>9, Zenon
    <2>14. QED
      BY <2>11, <2>12, <2>13, Zenon
  <1>3. QED
    BY <1>1, <1>2, Zenon

-----------------------------------------------------------------------------
(* Contexts.                                                               *)

Ctx == [in_use     : BOOLEAN,
        key        : Keys \cup {None},
        left       : (-MaxLate)..IP_REASS_TIMEOUT,
        have_first : BOOLEAN,
        total      : -1..IP_REASS_MAX_PAYLOAD,
        ranges     : Seq(Range_),
        payload    : [Bytes -> Tags \cup {Junk}]]

\* The bytes in the buffer are those of the ranges.
FilledBy(p, rs) == \A b \in Bytes : Holds(rs, b) <=> p[b] # Junk

\* The buffer has bytes of key only.
BytesOf(p, key) == \A b \in Bytes : p[b] \in {key, Junk}

\* What holds of a context of the table, whoever sent its fragments.
CtxSound(c) ==
    /\ c \in Ctx
    /\ Len(c.ranges) <= IP_REASS_MAX_RANGES
    /\ Sound(c.ranges)
    /\ FilledBy(c.payload, c.ranges)
    /\ c.have_first <=> Holds(c.ranges, 0)
    /\ c.in_use => c.key \in Keys

\* What holds of a context for a datagram of the sender, whose datagrams have
\* the lengths L.
CtxSent(c, L) ==
    (c.in_use /\ c.key \in Ids) =>
        /\ c.key \in 1..Len(L)
        /\ c.total \in {-1, L[c.key]}
        /\ BytesOf(c.payload, c.key)

\* What holds of a fragment that arrives.
FragSound(f, L) ==
    /\ f.key \in Keys
    /\ f.tag = f.key
    /\ f.off \in Nat
    /\ f.len \in Nat
    /\ f.mf \in BOOLEAN
    /\ f.key \in Ids => f.key \in 1..Len(L) /\ (~f.mf => End(f) = L[f.key])

\* The constants, one by one.
LEMMA ReassNumbers ==
  /\ IP_REASS_TIMEOUT \in Nat /\ IP_REASS_TIMEOUT > 0
  /\ IP_REASS_MAX_RANGES \in Nat /\ IP_REASS_MAX_RANGES > 0
  /\ IP_REASS_MAX_PAYLOAD \in Nat /\ IP_REASS_MAX_PAYLOAD > 0
  /\ MaxLate \in Nat
  BY ReassConstants

\* The buffer starts at byte 0.
LEMMA BytesNat == Bytes \subseteq Nat /\ 0 \in Bytes
  BY ReassNumbers DEF Bytes

\* Junk is no fragment's byte.
LEMMA TagsKeys == Tags = Keys /\ Junk \notin Keys /\ None \notin Keys /\ Ids \subseteq Keys
  BY ReassConstants, PathConstants, Zenon

\* The empty list of ranges.
LEMMA EmptySound == Sound(<<>>) /\ Len(<<>>) = 0 /\ \A b : ~Holds(<<>>, b)
  <1>1. <<>> \in Seq(Range_) /\ Len(<<>>) = 0 /\ 1..0 = {}
    OBVIOUS
  <1>2. QED
    BY <1>1, Zenon DEF Sound, Filled, Gapped, Holds

\* An empty context, free or just opened.
LEMMA EmptyCtx ==
  ASSUME NEW c, NEW u \in BOOLEAN, NEW key \in Keys \cup {None}, NEW left \in 0..IP_REASS_TIMEOUT,
         u => key \in Keys,
         c = [in_use |-> u, key |-> key, left |-> left, have_first |-> FALSE, total |-> -1,
              ranges |-> <<>>, payload |-> [b \in Bytes |-> Junk]]
  PROVE  CtxSound(c) /\ ~Complete(c) /\ BytesOf(c.payload, key) /\ c.total = -1
  <1>1. /\ c.in_use = u /\ c.key = key /\ c.left = left /\ c.have_first = FALSE
        /\ c.total = -1 /\ c.ranges = <<>> /\ c.payload = [b \in Bytes |-> Junk]
    BY Zenon
  <1>2. left \in (-MaxLate)..IP_REASS_TIMEOUT /\ -1 \in -1..IP_REASS_MAX_PAYLOAD
    BY ReassNumbers
  <1>3. <<>> \in Seq(Range_) /\ [b \in Bytes |-> Junk] \in [Bytes -> Tags \cup {Junk}]
    OBVIOUS
  <1>4. c \in Ctx
    BY <1>2, <1>3, Zenon DEF Ctx
  <1>5. \A b \in Bytes : c.payload[b] = Junk
    BY <1>1, Zenon
  <1>6. FilledBy(c.payload, c.ranges) /\ BytesOf(c.payload, key)
    BY <1>1, <1>5, EmptySound, Zenon DEF FilledBy, BytesOf
  <1>7. ~c.have_first /\ ~Holds(c.ranges, 0)
    BY <1>1, EmptySound, Zenon
  <1>8. Len(c.ranges) <= IP_REASS_MAX_RANGES /\ Sound(c.ranges)
    BY <1>1, EmptySound, ReassNumbers
  <1>9. c.in_use => c.key \in Keys
    BY <1>1, Zenon
  <1>10. CtxSound(c)
    BY <1>4, <1>6, <1>7, <1>8, <1>9, Zenon DEF CtxSound
  <1>11. ~Complete(c)
    BY <1>7, Zenon DEF Complete
  <1>12. QED
    BY <1>1, <1>6, <1>10, <1>11, Zenon

\* A context that ctx_release has zeroed.
LEMMA FreeSound ==
  CtxSound(FreeCtx) /\ ~Complete(FreeCtx) /\ FreeCtx.in_use = FALSE /\ FreeCtx.left = 0
  <1>1. 0 \in 0..IP_REASS_TIMEOUT
    BY ReassNumbers, SMTT(60)
  <1>2. CtxSound(FreeCtx) /\ ~Complete(FreeCtx)
    BY <1>1, EmptyCtx, ZenonT(60) DEF FreeCtx
  <1>3. QED
    BY <1>2, Zenon DEF FreeCtx

\* A context that ip_reass_input has just opened.
LEMMA OpenedSound ==
  ASSUME NEW key \in Keys, NEW c, c = Opened(key)
  PROVE  /\ CtxSound(c)
         /\ ~Complete(c)
         /\ c.in_use = TRUE /\ c.key = key /\ c.total = -1
         /\ BytesOf(c.payload, key)
  <1>1. IP_REASS_TIMEOUT \in 0..IP_REASS_TIMEOUT
    BY ReassNumbers
  <1>2. c = [in_use |-> TRUE, key |-> key, left |-> IP_REASS_TIMEOUT, have_first |-> FALSE,
             total |-> -1, ranges |-> <<>>, payload |-> [b \in Bytes |-> Junk]]
    BY ZenonT(60) DEF Opened, FreeCtx
  <1>3. CtxSound(c) /\ ~Complete(c) /\ BytesOf(c.payload, key) /\ c.total = -1
    BY <1>1, <1>2, EmptyCtx, ZenonT(60)
  <1>4. QED
    BY <1>2, <1>3

\* Covered and Holds are the same.
LEMMA CoveredHolds ==
  ASSUME NEW rs, Sound(rs)
  PROVE  /\ \A b \in Nat : Holds(rs, b) <=> b \in Covered(rs)
         /\ Covered(rs) \subseteq Bytes
  <1>1. rs \in Seq(Range_) /\ DOMAIN rs = 1..Len(rs)
    BY DEF Sound
  <1>2. ASSUME NEW a \in 1..Len(rs)
        PROVE  /\ rs[a].start \in Nat
               /\ rs[a].end \in Nat
               /\ rs[a].end <= IP_REASS_MAX_PAYLOAD
    BY <1>1, RangeAt, Zenon
  <1>3. ASSUME NEW b \in Nat, Holds(rs, b) PROVE b \in Covered(rs)
    <2>1. PICK a \in 1..Len(rs) : rs[a].start <= b /\ b < rs[a].end
      BY <1>3, Zenon DEF Holds
    <2>2. b \in rs[a].start..(rs[a].end - 1)
      BY <1>2, <2>1
    <2>3. QED
      BY <1>1, <2>2, Zenon DEF Covered
  <1>4. ASSUME NEW b \in Covered(rs)
        PROVE  \E a \in 1..Len(rs) : b \in rs[a].start..(rs[a].end - 1)
    BY <1>1, Zenon DEF Covered
  <1>5. ASSUME NEW b \in Covered(rs) PROVE b \in Nat /\ b < IP_REASS_MAX_PAYLOAD /\ Holds(rs, b)
    <2>1. PICK a \in 1..Len(rs) : b \in rs[a].start..(rs[a].end - 1)
      BY <1>4, Zenon
    <2>2. /\ b \in Nat /\ b < IP_REASS_MAX_PAYLOAD
          /\ rs[a].start <= b /\ b < rs[a].end
      BY <1>2, <2>1, ReassNumbers
    <2>3. QED
      BY <2>2, Zenon DEF Holds
  <1>6. \A b \in Nat : b < IP_REASS_MAX_PAYLOAD => b \in Bytes
    <2>1. IP_REASS_MAX_PAYLOAD \in Nat
      BY ReassNumbers, Zenon
    <2>2. SUFFICES ASSUME NEW b \in Nat, b < IP_REASS_MAX_PAYLOAD
                   PROVE  b \in 0..(IP_REASS_MAX_PAYLOAD - 1)
      BY Zenon DEF Bytes
    <2>3. QED
      BY <2>1, <2>2
  <1>7. QED
    BY <1>3, <1>5, <1>6, Zenon

\* What it means that a fragment is not refused.
LEMMA NotAborted ==
  ASSUME NEW c, CtxSound(c), NEW f, NEW L, FragSound(f, L), ~BadFrag(f), ~Aborts(c, f)
  PROVE  /\ End(f) \in Nat
         /\ f.off < End(f)
         /\ End(f) <= IP_REASS_MAX_PAYLOAD
         /\ ~Overlaps(c.ranges, f.off, End(f))
         /\ Len(c.ranges) < IP_REASS_MAX_RANGES
         /\ Total(c, f) \in -1..IP_REASS_MAX_PAYLOAD
  <1>1. f.off \in Nat /\ f.len \in Nat /\ f.len # 0
    BY Zenon DEF FragSound, BadFrag
  <1>2. PICK e : e = End(f)
    BY Zenon
  <1>3. e \in Nat /\ f.off < e
    BY <1>1, <1>2 DEF End
  <1>4. ~(e > IP_REASS_MAX_PAYLOAD) /\ ~Overlaps(c.ranges, f.off, e)
    BY <1>2, Zenon DEF Aborts
  <1>5. ~(Len(c.ranges) >= IP_REASS_MAX_RANGES)
    BY Zenon DEF Aborts
  <1>6. Len(c.ranges) \in Nat
    BY DEF CtxSound, Sound
  <1>7. c.total \in -1..IP_REASS_MAX_PAYLOAD
    BY Zenon DEF CtxSound, Ctx
  <1>8. e <= IP_REASS_MAX_PAYLOAD /\ Len(c.ranges) < IP_REASS_MAX_RANGES
    BY <1>3, <1>4, <1>5, <1>6, ReassNumbers, SMTT(60)
  <1>9. Total(c, f) = c.total \/ Total(c, f) = e
    BY <1>2, Zenon DEF Total
  <1>10. Total(c, f) \in -1..IP_REASS_MAX_PAYLOAD
    BY <1>3, <1>7, <1>8, <1>9, ReassNumbers
  <1>11. QED
    BY <1>2, <1>3, <1>4, <1>8, <1>10, ZenonT(60)

\* t is context c after it has taken fragment f, which ends before e.
TakenIs(t, c, f, e) ==
    /\ t.in_use = c.in_use /\ t.key = c.key /\ t.left = c.left
    /\ t.total = Total(c, f)
    /\ t.ranges = ranges_insert(c.ranges, f.off, e)
    /\ t.payload = [b \in Bytes |-> IF f.off <= b /\ b < e THEN f.tag ELSE c.payload[b]]
    /\ t.have_first = (c.have_first \/ f.off = 0)
    /\ t = [in_use |-> t.in_use, key |-> t.key, left |-> t.left, have_first |-> t.have_first,
            total |-> t.total, ranges |-> t.ranges, payload |-> t.payload]

\* A context after it has taken a fragment, field by field.
LEMMA TakenFields ==
  ASSUME NEW c \in Ctx, NEW f, NEW t, t = Taken(c, f)
  PROVE  TakenIs(t, c, f, End(f))
  <1> DEFINE p == [b \in Bytes |-> IF f.off <= b /\ b < End(f) THEN f.tag ELSE c.payload[b]]
             h == (c.have_first \/ f.off = 0)
             r == ranges_insert(c.ranges, f.off, End(f))
             n == Total(c, f)
  <1>1. t = [c EXCEPT !.total = n, !.ranges = r, !.payload = p, !.have_first = h]
    BY Zenon DEF Taken
  <1> HIDE DEF p, h, r, n
  <1>2. c = [in_use |-> c.in_use, key |-> c.key, left |-> c.left, have_first |-> c.have_first,
             total |-> c.total, ranges |-> c.ranges, payload |-> c.payload]
    BY Zenon DEF Ctx
  <1>3. t = [in_use |-> c.in_use, key |-> c.key, left |-> c.left, have_first |-> h,
             total |-> n, ranges |-> r, payload |-> p]
    BY <1>1, <1>2, ZenonT(60)
  <1>4. /\ t.in_use = c.in_use /\ t.key = c.key /\ t.left = c.left /\ t.total = n
        /\ t.ranges = r /\ t.payload = p /\ t.have_first = h
    BY <1>3
  <1>5. t = [in_use |-> t.in_use, key |-> t.key, left |-> t.left, have_first |-> t.have_first,
             total |-> t.total, ranges |-> t.ranges, payload |-> t.payload]
    BY <1>3, <1>4, ZenonT(60)
  <1>6. QED
    BY <1>4, <1>5, Zenon DEF p, h, r, n, TakenIs

\* A sound context that takes a fragment stays sound.
LEMMA TakenSound ==
  ASSUME NEW c, CtxSound(c), NEW f, NEW L, FragSound(f, L), ~BadFrag(f), ~Aborts(c, f),
         c.in_use, c.key = f.key, CtxSent(c, L),
         NEW t, t = Taken(c, f)
  PROVE  CtxSound(t) /\ CtxSent(t, L) /\ t.in_use /\ t.key = f.key
  <1>1. PICK e \in Nat : e = End(f)
    BY NotAborted, Zenon
  <1>2. /\ f.off \in Nat
        /\ f.off < e
        /\ e <= IP_REASS_MAX_PAYLOAD
        /\ ~Overlaps(c.ranges, f.off, e)
        /\ Len(c.ranges) < IP_REASS_MAX_RANGES
        /\ Total(c, f) \in -1..IP_REASS_MAX_PAYLOAD
    BY <1>1, NotAborted, ZenonT(60) DEF FragSound
  <1>3. c \in Ctx /\ Sound(c.ranges) /\ FilledBy(c.payload, c.ranges)
    BY Zenon DEF CtxSound
  <1>4. c.have_first <=> Holds(c.ranges, 0)
    BY Zenon DEF CtxSound
  <1>5. /\ t.in_use = c.in_use /\ t.key = c.key /\ t.left = c.left
        /\ t.total = Total(c, f)
        /\ t.ranges = ranges_insert(c.ranges, f.off, e)
        /\ t.payload = [b \in Bytes |-> IF f.off <= b /\ b < e THEN f.tag ELSE c.payload[b]]
        /\ t.have_first = (c.have_first \/ f.off = 0)
        /\ t = [in_use |-> t.in_use, key |-> t.key, left |-> t.left, have_first |-> t.have_first,
                total |-> t.total, ranges |-> t.ranges, payload |-> t.payload]
    <2>1. TakenIs(t, c, f, End(f))
      BY <1>3, TakenFields, Zenon
    <2>2. TakenIs(t, c, f, e)
      BY <1>1, <2>1, ZenonT(60)
    <2>3. QED
      BY <2>2, Zenon DEF TakenIs
  <1>6. /\ Sound(t.ranges)
        /\ Len(t.ranges) <= Len(c.ranges) + 1
        /\ \A b \in Nat : Holds(t.ranges, b) <=> (f.off <= b /\ b < e) \/ Holds(c.ranges, b)
    BY <1>2, <1>3, <1>5, InsertSound, ZenonT(60)
  <1>7. f.tag \in Tags /\ f.tag # Junk /\ f.tag = f.key
    BY TagsKeys, Zenon DEF FragSound
  <1>8. /\ c.payload \in [Bytes -> Tags \cup {Junk}]
        /\ c.in_use \in BOOLEAN /\ c.key \in Keys \cup {None}
        /\ c.left \in (-MaxLate)..IP_REASS_TIMEOUT
        /\ c.have_first \in BOOLEAN
    BY <1>3, Zenon DEF Ctx
  <1>9. ASSUME NEW b \in Bytes
        PROVE  /\ t.payload[b] = IF f.off <= b /\ b < e THEN f.tag ELSE c.payload[b]
               /\ t.payload[b] \in Tags \cup {Junk}
               /\ Holds(t.ranges, b) <=> t.payload[b] # Junk
    <2>1. t.payload[b] = IF f.off <= b /\ b < e THEN f.tag ELSE c.payload[b]
      BY <1>5, ZenonT(60)
    <2>2. c.payload[b] \in Tags \cup {Junk}
      BY <1>8, Zenon
    <2>3. Holds(c.ranges, b) <=> c.payload[b] # Junk
      BY <1>3, Zenon DEF FilledBy
    <2>4. Holds(t.ranges, b) <=> (f.off <= b /\ b < e) \/ Holds(c.ranges, b)
      BY <1>6, BytesNat, Zenon
    <2>5. CASE f.off <= b /\ b < e
      <3>1. t.payload[b] = f.tag
        BY <2>1, <2>5, Zenon
      <3>2. QED
        BY <1>7, <2>1, <2>4, <2>5, <3>1, Zenon
    <2>6. CASE ~(f.off <= b /\ b < e)
      <3>1. t.payload[b] = c.payload[b]
        BY <2>1, <2>6, ZenonT(60)
      <3>2. QED
        BY <2>1, <2>2, <2>3, <2>4, <2>6, <3>1, ZenonT(60)
    <2>7. QED
      BY <2>5, <2>6, Zenon
  <1>10. t.payload \in [Bytes -> Tags \cup {Junk}]
    BY <1>5, <1>9, ZenonT(60)
  <1>11. t.have_first \in BOOLEAN /\ (t.have_first <=> Holds(t.ranges, 0))
    <2>1. t.have_first <=> c.have_first \/ f.off = 0
      BY <1>5, Zenon
    <2>2. t.have_first \in BOOLEAN
      BY <1>5, ZenonT(60)
    <2>3. Holds(t.ranges, 0) <=> (f.off <= 0 /\ 0 < e) \/ Holds(c.ranges, 0)
      BY <1>6, Zenon
    <2>4. (f.off <= 0 /\ 0 < e) <=> f.off = 0
      <3>1. f.off \in Nat /\ f.off < e
        BY <1>2, Zenon
      <3>2. QED
        BY <3>1
    <2>5. QED
      BY <1>4, <2>1, <2>2, <2>3, <2>4, Zenon
  <1>12. t.total \in -1..IP_REASS_MAX_PAYLOAD /\ t.ranges \in Seq(Range_)
    BY <1>2, <1>5, <1>6, ZenonT(60) DEF Sound
  <1>13. t \in Ctx
    <2>1. /\ t.in_use \in BOOLEAN
          /\ t.key \in Keys \cup {None}
          /\ t.left \in (-MaxLate)..IP_REASS_TIMEOUT
      BY <1>5, <1>8, Zenon
    <2>2. t = [in_use |-> t.in_use, key |-> t.key, left |-> t.left, have_first |-> t.have_first,
               total |-> t.total, ranges |-> t.ranges, payload |-> t.payload]
      BY <1>5, ZenonT(60)
    <2>3. QED
      BY <1>10, <1>11, <1>12, <2>1, <2>2, ZenonT(60) DEF Ctx
  <1>14. Len(t.ranges) <= IP_REASS_MAX_RANGES
    <2>1. Len(t.ranges) \in Nat /\ Len(c.ranges) \in Nat
      BY <1>3, <1>6, SeqLen, Zenon DEF Sound
    <2>2. Len(t.ranges) <= Len(c.ranges) + 1 /\ Len(c.ranges) < IP_REASS_MAX_RANGES
      BY <1>2, <1>6, Zenon
    <2>3. QED
      BY <2>1, <2>2, ReassNumbers
  <1>15. FilledBy(t.payload, t.ranges)
    BY <1>9, Zenon DEF FilledBy
  <1>16. t.in_use /\ t.key = f.key /\ t.key \in Keys
    BY <1>5, Zenon DEF FragSound
  <1>17. CtxSound(t)
    BY <1>6, <1>11, <1>13, <1>14, <1>15, <1>16, ZenonT(60) DEF CtxSound
  <1>18. CtxSent(t, L)
    <2>1. SUFFICES ASSUME f.key \in Ids
                   PROVE  /\ t.key \in 1..Len(L)
                          /\ t.total \in {-1, L[t.key]}
                          /\ BytesOf(t.payload, t.key)
      BY <1>16, Zenon DEF CtxSent
    <2>2. f.key \in 1..Len(L) /\ (~f.mf => e = L[f.key])
      BY <1>1, <2>1, ZenonT(60) DEF FragSound
    <2>3. c.total \in {-1, L[f.key]} /\ BytesOf(c.payload, f.key)
      BY <2>1, ZenonT(60) DEF CtxSent
    <2>4. t.total \in {-1, L[f.key]}
      BY <1>1, <1>5, <2>2, <2>3, ZenonT(60) DEF Total
    <2>5. ASSUME NEW b \in Bytes PROVE t.payload[b] \in {f.key, Junk}
      <3>1. c.payload[b] \in {f.key, Junk}
        BY <2>3, Zenon DEF BytesOf
      <3>2. t.payload[b] = f.tag \/ t.payload[b] = c.payload[b]
        BY <1>9, Zenon
      <3>3. QED
        BY <1>7, <3>1, <3>2, ZenonT(60)
    <2>6. QED
      BY <1>16, <2>2, <2>4, <2>5, ZenonT(60) DEF BytesOf
  <1>19. QED
    BY <1>16, <1>17, <1>18, ZenonT(60)

\* A sound context with all its bytes is complete.
LEMMA AllIsComplete ==
  ASSUME NEW c, CtxSound(c), ~Complete(c), c.total > 0
  PROVE  Covered(c.ranges) # 0..(c.total - 1)
  <1>1. SUFFICES ASSUME Covered(c.ranges) = 0..(c.total - 1) PROVE Complete(c)
    BY Zenon
  <1>2. c.total \in Nat /\ Sound(c.ranges) /\ (c.have_first <=> Holds(c.ranges, 0))
    BY DEF CtxSound, Ctx
  <1>3. \A b \in Nat : Holds(c.ranges, b) <=> b \in Covered(c.ranges)
    BY <1>2, CoveredHolds, Zenon
  <1>4. PICK t \in Nat : t = c.total
    BY <1>2, Zenon
  <1>5. \A b \in Nat : b \in 0..(t - 1) <=> b < t
    BY <1>4
  <1>6. Spans(c.ranges, t)
    BY <1>1, <1>3, <1>4, <1>5, Zenon DEF Spans
  <1>7. t > 0 /\ t >= 0
    BY <1>4, SMTT(60)
  <1>8. c.ranges = <<[start |-> 0, end |-> t]>>
    BY <1>2, <1>6, <1>7, OneRange, Zenon
  <1>9. Holds(c.ranges, 0)
    BY <1>6, <1>7, ZenonT(60) DEF Spans
  <1>10. QED
    BY <1>2, <1>4, <1>7, <1>8, <1>9, ZenonT(60) DEF Complete

-----------------------------------------------------------------------------
(* Steps.                                                                  *)

\* A datagram that goes up, when the sender's datagrams have the lengths L.
Intact(d, L) ==
    /\ \A b \in DOMAIN d.data : d.data[b] \in Tags
    /\ d.key \in Ids => /\ d.key \in 1..Len(L)
                        /\ d.data = [b \in 1..L[d.key] |-> d.key]

\* What deliver_complete hands up is the datagram that was sent.
LEMMA CompleteIntact ==
  ASSUME NEW c, NEW L, CtxSound(c), CtxSent(c, L), c.in_use, Complete(c),
         NEW d, d = Datagram(c)
  PROVE  Intact(d, L)
  <1>1. PICK n : n = c.total
    BY Zenon
  <1>2. n \in Nat /\ n <= IP_REASS_MAX_PAYLOAD
    BY <1>1, ReassNumbers DEF CtxSound, Ctx, Complete
  <1>3. PICK p : p = c.payload
    BY Zenon
  <1>4. d.key = c.key /\ d.data = [b \in 1..n |-> p[b - 1]]
    BY <1>1, <1>3, Zenon DEF Datagram
  <1>5. c.ranges = <<[start |-> 0, end |-> n]>>
    BY <1>1, Zenon DEF Complete
  <1>6. ASSUME NEW b \in 1..n
        PROVE  /\ b - 1 \in Bytes
               /\ p[b - 1] \in Tags
               /\ c.key \in Ids => p[b - 1] = c.key
    <2>1. b - 1 \in Nat /\ b - 1 < n
      BY <1>2
    <2>2. b - 1 \in Bytes
      BY <1>2, <2>1, ReassNumbers, SMTT(60) DEF Bytes
    <2>3. Holds(c.ranges, b - 1)
      BY <1>5, <2>1 DEF Holds
    <2>4. p[b - 1] # Junk
      BY <1>3, <2>2, <2>3, Zenon DEF CtxSound, FilledBy
    <2>5. p \in [Bytes -> Tags \cup {Junk}]
      BY <1>3, Zenon DEF CtxSound, Ctx
    <2>6. p[b - 1] \in Tags \cup {Junk}
      BY <2>2, <2>5, Zenon
    <2>7. c.key \in Ids => p[b - 1] \in {c.key, Junk}
      BY <1>3, <2>2, Zenon DEF CtxSent, BytesOf
    <2>8. QED
      BY <2>2, <2>4, <2>6, <2>7, ZenonT(60)
  <1>7. \A b \in DOMAIN d.data : d.data[b] \in Tags
    <2>1. DOMAIN d.data = 1..n
      BY <1>4, Zenon
    <2>2. ASSUME NEW b \in 1..n PROVE d.data[b] = p[b - 1]
      BY <1>4, ZenonT(60)
    <2>3. QED
      BY <1>6, <2>1, <2>2, Zenon
  <1>8. ASSUME c.key \in Ids
        PROVE  c.key \in 1..Len(L) /\ d.data = [b \in 1..L[c.key] |-> c.key]
    <2>1. c.key \in 1..Len(L) /\ n \in {-1, L[c.key]}
      BY <1>1, <1>8, ZenonT(60) DEF CtxSent
    <2>2. n = L[c.key]
      BY <1>2, <2>1
    <2>3. \A b \in 1..n : p[b - 1] = c.key
      BY <1>6, <1>8, Zenon
    <2>4. [b \in 1..n |-> p[b - 1]] = [b \in 1..n |-> c.key]
      BY <2>3, Zenon
    <2>5. QED
      BY <1>4, <2>1, <2>2, <2>4, Zenon
  <1>9. QED
    BY <1>4, <1>7, <1>8, Zenon DEF Intact

\* A slot of the table.
SlotSound(c, L) == CtxSound(c) /\ CtxSent(c, L) /\ ~Complete(c)

\* The table.
Table(cs, L) ==
    /\ cs \in [Slots -> Ctx]
    /\ \A i \in Slots : SlotSound(cs[i], L)

\* The contexts of cs are for different datagrams.
Apart(cs) ==
    \A i, j \in Slots : (cs[i].in_use /\ cs[j].in_use /\ cs[i].key = cs[j].key) => i = j

\* A slot that ctx_release has zeroed.
LEMMA FreeSlot ==
  ASSUME NEW L
  PROVE  SlotSound(FreeCtx, L) /\ ~FreeCtx.in_use
  <1>1. CtxSound(FreeCtx) /\ ~Complete(FreeCtx) /\ ~FreeCtx.in_use
    BY FreeSound, Zenon
  <1>2. QED
    BY <1>1, Zenon DEF SlotSound, CtxSent

\* A table in which one slot has changed.
LEMMA TableStep ==
  ASSUME NEW cs, NEW L, Table(cs, L), NEW i \in Slots, NEW c, SlotSound(c, L)
  PROVE  Table([cs EXCEPT ![i] = c], L)
  <1>1. cs \in [Slots -> Ctx] /\ c \in Ctx
    BY Zenon DEF Table, SlotSound, CtxSound
  <1>2. PICK n : n = [cs EXCEPT ![i] = c]
    BY ZenonT(60)
  <1>3. n \in [Slots -> Ctx] /\ \A j \in Slots : n[j] = IF j = i THEN c ELSE cs[j]
    BY <1>1, <1>2, Zenon
  <1>4. ASSUME NEW j \in Slots PROVE SlotSound(n[j], L)
    <2>1. n[j] = c \/ n[j] = cs[j]
      BY <1>3, Zenon
    <2>2. SlotSound(cs[j], L)
      BY Zenon DEF Table
    <2>3. QED
      BY <2>1, <2>2, Zenon
  <1>5. QED
    BY <1>2, <1>3, <1>4, Zenon DEF Table

\* The contexts stay apart when the one that changed is free, or is the only
\* one for its datagram.
LEMMA ApartStep ==
  ASSUME NEW cs \in [Slots -> Ctx], Apart(cs), NEW i \in Slots, NEW c,
         c.in_use => \A j \in Slots : cs[j].in_use /\ cs[j].key = c.key => j = i
  PROVE  Apart([cs EXCEPT ![i] = c])
  <1>1. PICK n : n = [cs EXCEPT ![i] = c]
    BY ZenonT(60)
  <1>2. n[i] = c /\ \A j \in Slots : j # i => n[j] = cs[j]
    BY <1>1, Zenon
  <1>3. ASSUME NEW j \in Slots, NEW k \in Slots, n[j].in_use, n[k].in_use, n[j].key = n[k].key
        PROVE  j = k
    <2>1. CASE j = i /\ k # i
      BY <1>2, <1>3, <2>1, Zenon
    <2>2. CASE j # i /\ k = i
      BY <1>2, <1>3, <2>2, Zenon
    <2>3. CASE j # i /\ k # i
      <3>1. cs[j].in_use /\ cs[k].in_use /\ cs[j].key = cs[k].key
        BY <1>2, <1>3, <2>3, ZenonT(60)
      <3>2. QED
        BY <3>1, Zenon DEF Apart
    <2>4. QED
      BY <2>1, <2>2, <2>3, ZenonT(60)
  <1>4. QED
    BY <1>1, <1>3, Zenon DEF Apart

\* The table after ip_reass_input.
LEMMA ReassStep ==
  ASSUME NEW L, Table(ctxs, L), Apart(ctxs), NEW f, FragSound(f, L), ip_reass_input(f)
  PROVE  /\ Table(ctxs', L)
         /\ Apart(ctxs')
         /\ delivered' # None => Intact(delivered', L)
  <1>1. CASE BadFrag(f)
    <2>1. ctxs' = ctxs /\ delivered' = None
      BY <1>1, Zenon DEF ip_reass_input
    <2>2. QED
      BY <2>1, Zenon
  <1>2. CASE ~BadFrag(f)
    <2>1. PICK i \in Slots : \E c \in {ctxs[i], Opened(f.key)} : Meets(f, i, c) /\ input_in(f, i, c)
      BY <1>2, Zenon DEF ip_reass_input
    <2>2. PICK c : Meets(f, i, c) /\ input_in(f, i, c)
      BY <2>1, Zenon
    <2>3. SlotSound(ctxs[i], L) /\ ctxs \in [Slots -> Ctx]
      BY Zenon DEF Table
    <2>4. f.key \in Keys
      BY Zenon DEF FragSound
    <2>5. /\ CtxSound(c) /\ CtxSent(c, L)
          /\ c.in_use /\ c.key = f.key
          /\ \A j \in Slots : ctxs[j].in_use /\ ctxs[j].key = f.key => j = i
      <3>1. CASE ctx_find(i, f.key) /\ c = ctxs[i]
        <4>1. ctxs[i].in_use /\ ctxs[i].key = f.key
          BY <3>1, Zenon DEF ctx_find, Matches
        <4>2. CtxSound(ctxs[i]) /\ CtxSent(ctxs[i], L)
          BY <2>3, Zenon DEF SlotSound
        <4>3. QED
          BY <3>1, <4>1, <4>2, Zenon DEF Apart
      <3>2. CASE (\A j \in Slots : ~Matches(j, f.key)) /\ c = Opened(f.key)
        <4>1. /\ CtxSound(c) /\ c.in_use = TRUE /\ c.key = f.key
              /\ c.total = -1 /\ BytesOf(c.payload, f.key)
          BY <2>4, <3>2, OpenedSound, ZenonT(60)
        <4>2. CtxSent(c, L)
          BY <4>1, Zenon DEF CtxSent, FragSound
        <4>3. QED
          BY <3>2, <4>1, <4>2, ZenonT(60) DEF Matches
      <3>3. QED
        BY <2>2, <3>1, <3>2, ZenonT(60) DEF Meets
    <2>6. PICK t : t = Taken(c, f)
      BY Zenon
    <2>7. SlotSound(FreeCtx, L) /\ ~FreeCtx.in_use
      BY FreeSlot, Zenon
    <2>8. CASE Aborts(c, f)
      <3>1. ctxs' = [ctxs EXCEPT ![i] = FreeCtx] /\ delivered' = None
        BY <2>2, <2>8, Zenon DEF input_in
      <3>2. Table(ctxs', L)
        BY <2>7, <3>1, TableStep, Zenon
      <3>3. Apart(ctxs')
        BY <2>3, <2>7, <3>1, ApartStep, ZenonT(60)
      <3>4. QED
        BY <3>1, <3>2, <3>3, ZenonT(60)
    <2>9. CASE ~Aborts(c, f)
      <3>1. CtxSound(t) /\ CtxSent(t, L) /\ t.in_use /\ t.key = f.key
        BY <1>2, <2>5, <2>6, <2>9, TakenSound, ZenonT(60)
      <3>2. CASE Complete(t)
        <4>1. ctxs' = [ctxs EXCEPT ![i] = FreeCtx] /\ delivered' = Datagram(t)
          BY <2>2, <2>6, <2>9, <3>2, Zenon DEF input_in
        <4>2. Table(ctxs', L)
          BY <2>7, <4>1, TableStep, Zenon
        <4>3. Apart(ctxs')
          BY <2>3, <2>7, <4>1, ApartStep, Zenon
        <4>4. Intact(delivered', L)
          BY <3>1, <3>2, <4>1, CompleteIntact, Zenon
        <4>5. QED
          BY <4>2, <4>3, <4>4, ZenonT(60)
      <3>3. CASE ~Complete(t)
        <4>1. ctxs' = [ctxs EXCEPT ![i] = t] /\ delivered' = None
          BY <2>2, <2>6, <2>9, <3>3, Zenon DEF input_in
        <4>2. SlotSound(t, L)
          BY <3>1, <3>3, Zenon DEF SlotSound
        <4>3. Table(ctxs', L)
          BY <4>1, <4>2, TableStep, Zenon
        <4>4. Apart(ctxs')
          BY <2>3, <2>5, <3>1, <4>1, ApartStep, ZenonT(60)
        <4>5. QED
          BY <4>1, <4>3, <4>4, Zenon
      <3>4. QED
        BY <3>2, <3>3, Zenon
    <2>10. QED
      BY <2>8, <2>9, ZenonT(60)
  <1>3. QED
    BY <1>1, <1>2, Zenon

\* The pieces of datagram n.
Of(fs, n) == {f \in fs : f.key = n}

\* The wire: of every datagram that ip_output was given, all its pieces.
Wire(fs, L) ==
    /\ L \in Seq(Lengths)
    /\ Len(L) <= MaxSends
    /\ \A f \in fs : f.key \in 1..Len(L)
    /\ \A n \in 1..Len(L) : \E mtu \in Mtus : Of(fs, n) = Pieces(n, L[n], mtu)

\* A length on the list.
LEMMA LengthAt ==
  ASSUME NEW fs, NEW L, Wire(fs, L), NEW n \in 1..Len(L)
  PROVE  L[n] \in Lengths /\ L[n] \in Nat \ {0} /\ n \in Ids
  <1>1. L \in Seq(Lengths) /\ Len(L) <= MaxSends /\ Len(L) \in Nat
    BY DEF Wire
  <1>2. L[n] \in Lengths
    BY <1>1
  <1>3. MaxSends \in Nat /\ Lengths \subseteq Nat \ {0}
    BY PathConstants, ZenonT(60)
  <1>4. L[n] \in Nat \ {0}
    BY <1>2, <1>3, Zenon
  <1>5. n \in 1..MaxSends
    BY <1>1, <1>3
  <1>6. QED
    BY <1>2, <1>4, <1>5, ZenonT(60) DEF Ids

\* A piece on the wire.
LEMMA OnWire ==
  ASSUME NEW fs, NEW L, Wire(fs, L), NEW f \in fs
  PROVE  f.key \in 1..Len(L) /\ PieceSound(f, f.key, L[f.key])
  <1>1. f.key \in 1..Len(L)
    BY Zenon DEF Wire
  <1>2. PICK mtu \in Mtus : Of(fs, f.key) = Pieces(f.key, L[f.key], mtu)
    BY <1>1, ZenonT(60) DEF Wire
  <1>3. f \in Pieces(f.key, L[f.key], mtu)
    BY <1>2, ZenonT(60) DEF Of
  <1>4. L[f.key] \in Nat \ {0}
    BY <1>1, LengthAt, ZenonT(60)
  <1>5. QED
    BY <1>1, <1>3, <1>4, PiecesSound, ZenonT(60)

\* A piece on the wire is a fragment the reassembly can take.
LEMMA WireFrag ==
  ASSUME NEW fs, NEW L, Wire(fs, L), NEW f \in fs
  PROVE  FragSound(f, L)
  <1>1. f.key \in 1..Len(L) /\ PieceSound(f, f.key, L[f.key])
    BY OnWire, Zenon
  <1>2. f.key \in Keys
    BY <1>1, LengthAt, TagsKeys, ZenonT(60)
  <1>3. f.tag = f.key /\ f.off \in Nat /\ f.len \in Nat /\ f.mf \in BOOLEAN
    BY <1>1, ZenonT(60) DEF PieceSound
  <1>4. ~f.mf => End(f) = L[f.key]
    BY <1>1, Zenon DEF PieceSound
  <1>5. QED
    BY <1>1, <1>2, <1>3, <1>4, Zenon DEF FragSound

\* So is a fragment of another host.
LEMMA OtherFrag ==
  ASSUME NEW L, NEW k \in Others, NEW f \in Fragments(k, k)
  PROVE  FragSound(f, L) /\ IsFragment(f)
  <1>1. /\ f.key = k /\ f.tag = k /\ f.len \in FragLens /\ f.mf \in BOOLEAN
        /\ f.off \in {FRAG_UNIT * n : n \in 0..(IP_REASS_MAX_PAYLOAD \div FRAG_UNIT)}
        /\ IsFragment(f)
    BY Zenon DEF Fragments
  <1>2. PICK n \in Nat : f.off = FRAG_UNIT * n
    BY <1>1
  <1>3. f.off \in Nat
    BY <1>2, MulNat, ReassConstants, Zenon
  <1>4. k \in Keys /\ k \notin Ids /\ FragLens \subseteq Nat
    BY PathConstants, ReassConstants, Zenon
  <1>5. QED
    BY <1>1, <1>3, <1>4, ZenonT(60) DEF FragSound

\* A whole datagram goes straight up.
LEMMA WholeIntact ==
  ASSUME NEW fs, NEW L, Wire(fs, L), NEW f \in fs, ~IsFragment(f),
         NEW d, d = [key |-> f.key, data |-> [b \in 1..f.len |-> f.tag]]
  PROVE  Intact(d, L)
  <1>1. f.key \in 1..Len(L) /\ PieceSound(f, f.key, L[f.key])
    BY OnWire, Zenon
  <1>2. f.tag = f.key /\ f.off \in Nat /\ f.len \in Nat /\ (~f.mf <=> f.off + f.len = L[f.key])
    BY <1>1, Zenon DEF PieceSound, End
  <1>3. f.off = 0 /\ ~f.mf
    BY <1>2, SMTT(60) DEF IsFragment
  <1>4. f.len = L[f.key]
    BY <1>2, <1>3
  <1>5. d.key = f.key /\ d.data = [b \in 1..f.len |-> f.tag]
    BY Zenon
  <1>6. f.tag \in Tags
    BY <1>1, <1>2, LengthAt, TagsKeys, ZenonT(60)
  <1>7. \A b \in DOMAIN d.data : d.data[b] \in Tags
    BY <1>5, <1>6, Zenon
  <1>8. d.data = [b \in 1..L[d.key] |-> d.key]
    BY <1>2, <1>4, <1>5, ZenonT(60)
  <1>9. QED
    BY <1>1, <1>5, <1>7, <1>8, ZenonT(60) DEF Intact

\* One more length.
LEMMA OneLonger ==
  ASSUME NEW L \in Seq(Lengths), NEW len \in Lengths, NEW M, M = Append(L, len)
  PROVE  /\ M \in Seq(Lengths)
         /\ Len(M) = Len(L) + 1
         /\ M[Len(L) + 1] = len
         /\ \A n \in 1..Len(L) : n \in 1..Len(M) /\ M[n] = L[n]
         /\ \A n \in 1..Len(M) : n \in 1..Len(L) \/ n = Len(L) + 1
  OBVIOUS

\* ip_output puts all pieces of one more datagram on the wire.
LEMMA WireGrows ==
  ASSUME NEW fs, NEW L, Wire(fs, L), NEW len \in Lengths, NEW mtu \in Mtus,
         NEW n, n = Len(L) + 1, n \in Ids,
         NEW gs, gs = fs \cup Pieces(n, len, mtu), NEW M, M = Append(L, len)
  PROVE  Wire(gs, M)
  <1>1. L \in Seq(Lengths) /\ Len(L) \in Nat /\ Len(L) <= MaxSends
    BY SMTT(60) DEF Wire
  <1>2. /\ M \in Seq(Lengths)
        /\ Len(M) = n
        /\ M[n] = len
        /\ \A m \in 1..Len(L) : m \in 1..n /\ M[m] = L[m]
        /\ \A m \in 1..n : m \in 1..Len(L) \/ m = n
    BY <1>1, OneLonger, SMTT(60)
  <1>3. n <= MaxSends /\ n \in 1..n /\ n \notin 1..Len(L)
    BY <1>1, PathConstants DEF Ids
  <1>4. len \in Nat \ {0}
    BY PathConstants, Zenon
  <1>5. \A f \in Pieces(n, len, mtu) : f.key = n
    BY <1>4, PiecesSound DEF PieceSound
  <1>6. \A f \in fs : f.key \in 1..Len(L)
    BY Zenon DEF Wire
  <1>7. \A f \in gs : f.key \in 1..n
    BY <1>2, <1>3, <1>5, <1>6, ZenonT(60)
  <1>8. Of(gs, n) = Pieces(n, len, mtu)
    BY <1>3, <1>5, <1>6, Zenon DEF Of
  <1>9. ASSUME NEW m \in 1..Len(L) PROVE Of(gs, m) = Of(fs, m)
    BY <1>3, <1>5, Zenon DEF Of
  <1>10. ASSUME NEW m \in 1..n PROVE \E u \in Mtus : Of(gs, m) = Pieces(m, M[m], u)
    <2>1. CASE m \in 1..Len(L)
      <3>1. PICK u \in Mtus : Of(fs, m) = Pieces(m, L[m], u)
        BY <2>1, Zenon DEF Wire
      <3>2. M[m] = L[m]
        BY <1>2, <2>1, Zenon
      <3>3. QED
        BY <1>9, <2>1, <3>1, <3>2, Zenon
    <2>2. CASE m = n
      BY <1>2, <1>8, <2>2, Zenon
    <2>3. QED
      BY <1>2, <2>1, <2>2, ZenonT(60)
  <1>11. QED
    BY <1>2, <1>3, <1>7, <1>10, ZenonT(60) DEF Wire

\* The contexts, and the last datagram that went up, are as sound as before.
LEMMA SoundGrows ==
  ASSUME NEW L \in Seq(Lengths), NEW len \in Lengths, NEW M, M = Append(L, len),
         NEW cs, Table(cs, L)
  PROVE  Table(cs, M)
  <1>1. \A n \in 1..Len(L) : n \in 1..Len(M) /\ M[n] = L[n]
    BY OneLonger
  <1>2. ASSUME NEW i \in Slots PROVE SlotSound(cs[i], M)
    <2>1. CtxSound(cs[i]) /\ CtxSent(cs[i], L) /\ ~Complete(cs[i])
      BY Zenon DEF Table, SlotSound
    <2>2. CtxSent(cs[i], M)
      BY <1>1, <2>1, Zenon DEF CtxSent
    <2>3. QED
      BY <2>1, <2>2, Zenon DEF SlotSound
  <1>3. QED
    BY <1>2, Zenon DEF Table

\* A context that is only closer to its timeout.
LEMMA OlderSound ==
  ASSUME NEW c, NEW L, SlotSound(c, L), c.in_use, c.left > -MaxLate,
         NEW d, d = [c EXCEPT !.left = @ - 1]
  PROVE  SlotSound(d, L) /\ d.in_use = c.in_use /\ d.key = c.key
  <1>1. c \in Ctx
    BY Zenon DEF SlotSound, CtxSound
  <1>2. /\ d.in_use = c.in_use /\ d.key = c.key /\ d.left = c.left - 1
        /\ d.have_first = c.have_first /\ d.total = c.total
        /\ d.ranges = c.ranges /\ d.payload = c.payload
    BY <1>1, ZenonT(60) DEF Ctx
  <1>3. c.left - 1 \in (-MaxLate)..IP_REASS_TIMEOUT
    BY <1>1, ReassNumbers DEF Ctx
  <1>4. d \in Ctx
    BY <1>1, <1>3, Zenon DEF Ctx
  <1>5. CtxSound(d)
    BY <1>2, <1>4, Zenon DEF SlotSound, CtxSound
  <1>6. CtxSent(d, L)
    BY <1>2, Zenon DEF SlotSound, CtxSent
  <1>7. ~Complete(d)
    BY <1>2, Zenon DEF SlotSound, Complete
  <1>8. QED
    BY <1>2, <1>5, <1>6, <1>7, Zenon DEF SlotSound

\* A table in which every context is as it was, zeroed, or closer to its
\* timeout.
LEMMA TimeStep ==
  ASSUME NEW L, Table(ctxs, L), Apart(ctxs), NEW cs, DOMAIN cs = Slots,
         cs = [i \in Slots |-> cs[i]],
         \A i \in Slots : SlotSound(cs[i], L),
         \A i \in Slots : cs[i].in_use => ctxs[i].in_use /\ cs[i].key = ctxs[i].key
  PROVE  Table(cs, L) /\ Apart(cs)
  <1>1. ASSUME NEW i \in Slots PROVE cs[i] \in Ctx
    BY Zenon DEF SlotSound, CtxSound
  <1>2. cs \in [Slots -> Ctx]
    BY <1>1, Zenon
  <1>3. Table(cs, L)
    BY <1>2, Zenon DEF Table
  <1>4. ASSUME NEW i \in Slots, NEW j \in Slots, cs[i].in_use, cs[j].in_use, cs[i].key = cs[j].key
        PROVE  i = j
    <2>1. ctxs[i].in_use /\ ctxs[j].in_use /\ cs[i].key = ctxs[i].key /\ cs[j].key = ctxs[j].key
      BY <1>4, ZenonT(60)
    <2>2. ctxs[i].key = ctxs[j].key
      BY <1>4, <2>1, ZenonT(60)
    <2>3. QED
      BY <2>1, <2>2, ZenonT(60) DEF Apart
  <1>5. QED
    BY <1>3, <1>4, ZenonT(60) DEF Apart


-----------------------------------------------------------------------------
(* The inductive invariant.                                                *)

IInv ==
    /\ Table(ctxs, length)
    /\ Apart(ctxs)
    /\ Wire(net, length)
    /\ delivered # None => Intact(delivered, length)

\* Nothing is sent yet and every slot is free.
LEMMA InitIInv == Init => IInv
  <1>1. SUFFICES ASSUME Init PROVE IInv
    BY Zenon
  <1>2. ctxs = [i \in Slots |-> FreeCtx] /\ delivered = None /\ net = {} /\ length = <<>>
    BY <1>1, Zenon DEF Init, ReassInit
  <1>3. SlotSound(FreeCtx, length) /\ ~FreeCtx.in_use
    BY FreeSlot, Zenon
  <1>4. FreeCtx \in Ctx
    BY <1>3, Zenon DEF SlotSound, CtxSound
  <1>5. \A i \in Slots : ctxs[i] = FreeCtx
    BY <1>2, Zenon
  <1>6. Table(ctxs, length)
    <2>1. ctxs \in [Slots -> Ctx]
      BY <1>2, <1>4, Zenon
    <2>2. QED
      BY <1>3, <1>5, <2>1, Zenon DEF Table
  <1>7. Apart(ctxs)
    BY <1>3, <1>5, Zenon DEF Apart
  <1>8. Wire(net, length)
    <2>1. length \in Seq(Lengths) /\ Len(length) = 0 /\ 1..0 = {}
      BY <1>2
    <2>2. MaxSends \in Nat
      BY PathConstants, Zenon
    <2>3. QED
      BY <1>2, <2>1, <2>2 DEF Wire
  <1>9. QED
    BY <1>2, <1>6, <1>7, <1>8, Zenon DEF IInv

\* ip_output only adds to the wire.
LEMMA OutputStep ==
  ASSUME IInv, NEW len \in Lengths, NEW mtu \in Mtus, ip_output(len, mtu)
  PROVE  IInv'
  <1>1. /\ Table(ctxs, length) /\ Apart(ctxs) /\ Wire(net, length)
    BY Zenon DEF IInv
  <1>2. /\ ip_id \in Ids
        /\ net' = net \cup Pieces(ip_id, len, mtu)
        /\ length' = Append(length, len)
        /\ delivered' = None
        /\ ctxs' = ctxs
    BY Zenon DEF ip_output
  <1>3. length \in Seq(Lengths)
    BY <1>1, Zenon DEF Wire
  <1>4. ip_id = Len(length) + 1
    BY Zenon DEF ip_id
  <1>5. Wire(net', length')
    BY <1>1, <1>2, <1>4, WireGrows, Zenon
  <1>6. Table(ctxs', length')
    <2>1. Table(ctxs, length')
      BY <1>1, <1>2, <1>3, SoundGrows, Zenon
    <2>2. QED
      BY <1>2, <2>1, Zenon
  <1>7. Apart(ctxs')
    BY <1>1, <1>2, Zenon
  <1>8. QED
    BY <1>2, <1>5, <1>6, <1>7, ZenonT(60) DEF IInv

\* ip_input on a fragment or on a whole datagram.
LEMMA InputStep ==
  ASSUME IInv, NEW f, ip_input(f), FragSound(f, length), f \in net \/ IsFragment(f)
  PROVE  IInv'
  <1>1. /\ Table(ctxs, length) /\ Apart(ctxs) /\ Wire(net, length)
    BY Zenon DEF IInv
  <1>2. net' = net /\ length' = length
    BY Zenon DEF ip_input
  <1>3. CASE IsFragment(f)
    <2>1. ip_reass_input(f)
      BY <1>3, Zenon DEF ip_input
    <2>2. /\ Table(ctxs', length) /\ Apart(ctxs')
          /\ delivered' # None => Intact(delivered', length)
      BY <1>1, <2>1, ReassStep, Zenon
    <2>3. QED
      BY <1>1, <1>2, <2>2, Zenon DEF IInv
  <1>4. CASE ~IsFragment(f)
    <2>1. delivered' = [key |-> f.key, data |-> [b \in 1..f.len |-> f.tag]] /\ ctxs' = ctxs
      BY <1>4, Zenon DEF ip_input
    <2>2. f \in net
      BY <1>4, Zenon
    <2>3. Intact(delivered', length)
      BY <1>1, <1>4, <2>1, <2>2, WholeIntact, ZenonT(60)
    <2>4. QED
      BY <1>1, <1>2, <2>1, <2>3, Zenon DEF IInv
  <1>5. QED
    BY <1>3, <1>4, ZenonT(60)

\* ip_reass_tick zeroes contexts.
LEMMA TickStep ==
  ASSUME IInv, Tick
  PROVE  IInv'
  <1>1. /\ Table(ctxs, length) /\ Apart(ctxs) /\ Wire(net, length)
    BY Zenon DEF IInv
  <1>2. /\ ctxs' = [i \in Slots |-> IF Expired(ctxs[i]) THEN FreeCtx ELSE ctxs[i]]
        /\ delivered' = None /\ net' = net /\ length' = length
    BY Zenon DEF Tick, ip_reass_tick
  <1>3. \A i \in Slots : ctxs'[i] = FreeCtx \/ ctxs'[i] = ctxs[i]
    BY <1>2, Zenon
  <1>4. SlotSound(FreeCtx, length) /\ ~FreeCtx.in_use
    BY FreeSlot, Zenon
  <1>5. \A i \in Slots : SlotSound(ctxs[i], length)
    BY <1>1, Zenon DEF Table
  <1>6. \A i \in Slots : SlotSound(ctxs'[i], length)
    BY <1>3, <1>4, <1>5, Zenon
  <1>7. \A i \in Slots : ctxs'[i].in_use => ctxs[i].in_use /\ ctxs'[i].key = ctxs[i].key
    BY <1>3, <1>4, Zenon
  <1>8. DOMAIN ctxs' = Slots /\ ctxs' = [i \in Slots |-> ctxs'[i]]
    BY <1>2, Zenon
  <1>9. Table(ctxs', length) /\ Apart(ctxs')
    BY <1>1, <1>6, <1>7, <1>8, TimeStep, ZenonT(60)
  <1>10. QED
    BY <1>1, <1>2, <1>9, Zenon DEF IInv

\* Time passes within the bound on late ticks.
LEMMA ClockStep ==
  ASSUME IInv, Clock
  PROVE  IInv'
  <1>1. /\ Table(ctxs, length) /\ Apart(ctxs) /\ Wire(net, length)
    BY Zenon DEF IInv
  <1>2. /\ ctxs' = [i \in Slots |-> IF ctxs[i].in_use THEN [ctxs[i] EXCEPT !.left = @ - 1] ELSE ctxs[i]]
        /\ delivered' = None /\ net' = net /\ length' = length
    BY Zenon DEF Clock, Advance
  <1>3. \A i \in Slots : ctxs[i].in_use => ctxs[i].left > -MaxLate
    BY ZenonT(60) DEF Clock, Advance
  <1>4. \A i \in Slots : SlotSound(ctxs[i], length)
    BY <1>1, Zenon DEF Table
  <1>5. ASSUME NEW i \in Slots
        PROVE  /\ SlotSound(ctxs'[i], length)
               /\ ctxs'[i].in_use => ctxs[i].in_use /\ ctxs'[i].key = ctxs[i].key
    <2>1. CASE ctxs[i].in_use
      <3>1. ctxs'[i] = [ctxs[i] EXCEPT !.left = @ - 1]
        BY <1>2, <2>1, Zenon
      <3>2. /\ SlotSound(ctxs'[i], length)
            /\ ctxs'[i].in_use = ctxs[i].in_use /\ ctxs'[i].key = ctxs[i].key
        <4>1. SlotSound(ctxs[i], length) /\ ctxs[i].left > -MaxLate
          BY <1>3, <1>4, <2>1, ZenonT(60)
        <4>2. QED
          BY <2>1, <3>1, <4>1, OlderSound, ZenonT(60)
      <3>3. QED
        BY <2>1, <3>2, Zenon
    <2>2. CASE ~ctxs[i].in_use
      <3>1. ctxs'[i] = ctxs[i]
        BY <1>2, <2>2, Zenon
      <3>2. QED
        BY <1>4, <3>1, Zenon
    <2>3. QED
      BY <2>1, <2>2, ZenonT(60)
  <1>6. DOMAIN ctxs' = Slots /\ ctxs' = [i \in Slots |-> ctxs'[i]]
    BY <1>2, Zenon
  <1>7. Table(ctxs', length) /\ Apart(ctxs')
    BY <1>1, <1>5, <1>6, TimeStep, Zenon
  <1>8. QED
    BY <1>1, <1>2, <1>7, ZenonT(60) DEF IInv

\* Every step keeps the invariant.
LEMMA NextIInv == IInv /\ [Next]_vars => IInv'
  <1>1. SUFFICES ASSUME IInv, [Next]_vars PROVE IInv'
    BY Zenon
  <1>2. Wire(net, length)
    BY <1>1, Zenon DEF IInv
  <1>3. CASE \E len \in Lengths, mtu \in Mtus : ip_output(len, mtu)
    BY <1>1, <1>3, OutputStep, Zenon
  <1>4. CASE deliver
    <2>1. PICK f \in net : ip_input(f)
      BY <1>4, Zenon DEF deliver
    <2>2. FragSound(f, length)
      BY <1>2, WireFrag, Zenon
    <2>3. QED
      BY <1>1, <2>1, <2>2, InputStep, Zenon
  <1>5. CASE deliver_other
    <2>1. PICK k \in Others : \E f \in Fragments(k, k) : ip_input(f)
      BY <1>5, Zenon DEF deliver_other
    <2>2. PICK f \in Fragments(k, k) : ip_input(f)
      BY <2>1, Zenon
    <2>3. FragSound(f, length) /\ IsFragment(f)
      BY OtherFrag, Zenon
    <2>4. QED
      BY <1>1, <2>2, <2>3, InputStep, Zenon
  <1>6. CASE Tick
    BY <1>1, <1>6, TickStep, Zenon
  <1>7. CASE Clock
    BY <1>1, <1>7, ClockStep, Zenon
  <1>8. CASE UNCHANGED vars
    <2>1. ctxs' = ctxs /\ delivered' = delivered /\ net' = net /\ length' = length
      BY <1>8, Zenon DEF vars
    <2>2. QED
      BY <1>1, <2>1, Zenon DEF IInv
  <1>9. QED
    BY <1>1, <1>3, <1>4, <1>5, <1>6, <1>7, <1>8, ZenonT(60) DEF Next

\* The invariant holds.
THEOREM PathInvariance == Spec => []IInv
  BY InitIInv, NextIInv, PTL DEF Spec

\* Under IInv the contexts keep to the bounds of their buffer and list.
LEMMA TypesHold == IInv => TypeOK
  <1>1. SUFFICES ASSUME IInv PROVE TypeOK
    BY Zenon
  <1>2. Table(ctxs, length) /\ Wire(net, length)
    BY <1>1, Zenon DEF IInv
  <1>3. ctxs \in [Slots -> Ctx]
    BY <1>2, Zenon DEF Table
  <1>4. \A i \in Slots : Len(ctxs[i].ranges) <= IP_REASS_MAX_RANGES
    BY <1>2, Zenon DEF Table, SlotSound, CtxSound
  <1>5. ReassTypeOK
    BY <1>3, <1>4, Zenon DEF ReassTypeOK, Ctx
  <1>6. length \in Seq(Lengths)
    BY <1>2, Zenon DEF Wire
  <1>7. ASSUME NEW f \in net PROVE f.key \in Ids /\ f.off % FRAG_UNIT = 0
    <2>1. f.key \in 1..Len(length) /\ PieceSound(f, f.key, length[f.key])
      BY <1>2, OnWire, Zenon
    <2>2. f.key \in Ids
      BY <1>2, <2>1, LengthAt, Zenon
    <2>3. QED
      BY <2>1, <2>2, Zenon DEF PieceSound
  <1>8. QED
    BY <1>5, <1>6, <1>7, Zenon DEF TypeOK

\* Under IInv the list of ranges is exactly what was copied into the buffer.
LEMMA RangesHold == IInv => RangesDescribeBuffer
  <1>1. SUFFICES ASSUME IInv PROVE RangesDescribeBuffer
    BY Zenon
  <1>2. ASSUME NEW i \in Slots, NEW rs, rs = ctxs[i].ranges
        PROVE  /\ \A m \in DOMAIN rs : rs[m].start < rs[m].end
               /\ \A m, n \in DOMAIN rs : m < n => rs[m].end < rs[n].start
               /\ Covered(rs) = {b \in Bytes : ctxs[i].payload[b] # Junk}
               /\ ctxs[i].have_first <=> 0 \in Covered(rs)
    <2>1. CtxSound(ctxs[i])
      BY <1>1, Zenon DEF IInv, Table, SlotSound
    <2>2. PICK p : p = ctxs[i].payload
      BY Zenon
    <2>3. Sound(rs) /\ FilledBy(p, rs) /\ (ctxs[i].have_first <=> Holds(rs, 0))
      BY <1>2, <2>1, <2>2, Zenon DEF CtxSound
    <2>4. DOMAIN rs = 1..Len(rs)
      BY <2>3, SMTT(60) DEF Sound
    <2>5. \A m \in 1..Len(rs) : rs[m].start < rs[m].end
      BY <2>3, Zenon DEF Sound, Filled
    <2>6. \A m, n \in 1..Len(rs) : m < n => rs[m].end < rs[n].start
      BY <2>3, Zenon DEF Sound, Gapped
    <2>7. /\ \A b \in Nat : Holds(rs, b) <=> b \in Covered(rs)
          /\ Covered(rs) \subseteq Bytes
      BY <2>3, CoveredHolds, Zenon
    <2>8. \A b \in Bytes : b \in Covered(rs) <=> p[b] # Junk
      BY <2>3, <2>7, BytesNat, Zenon DEF FilledBy
    <2>9. Covered(rs) = {b \in Bytes : p[b] # Junk}
      BY <2>7, <2>8, Zenon
    <2>10. ctxs[i].have_first <=> 0 \in Covered(rs)
      BY <2>3, <2>7, Zenon
    <2>11. QED
      BY <2>2, <2>4, <2>5, <2>6, <2>9, <2>10, ZenonT(60)
  <1>3. QED
    BY <1>2, Zenon DEF RangesDescribeBuffer

\* Under IInv no context holds all bytes of its datagram.
LEMMA NoneComplete == IInv => CompleteIsDelivered
  <1>1. SUFFICES ASSUME IInv PROVE CompleteIsDelivered
    BY Zenon
  <1>2. ASSUME NEW i \in Slots, NEW c, c = ctxs[i], c.total > 0
        PROVE  Covered(c.ranges) # 0..(c.total - 1)
    <2>1. CtxSound(c) /\ ~Complete(c)
      BY <1>1, <1>2, Zenon DEF IInv, Table, SlotSound
    <2>2. QED
      BY <1>2, <2>1, AllIsComplete, Zenon
  <1>3. QED
    BY <1>2, Zenon DEF CompleteIsDelivered

\* Under IInv the pieces of a datagram on the wire tile it.
LEMMA TilesHold == IInv => PiecesTile
  <1>1. SUFFICES ASSUME IInv PROVE PiecesTile
    BY Zenon
  <1>2. Wire(net, length)
    BY <1>1, Zenon DEF IInv
  <1>3. DOMAIN length = 1..Len(length)
    BY <1>2 DEF Wire
  <1>4. ASSUME NEW n \in DOMAIN length, NEW ps, ps = {f \in net : f.key = n}
        PROVE  /\ \A f \in ps : ~BadFrag(f)
               /\ \A b \in 0..(length[n] - 1) :
                     \E f \in ps : /\ f.off <= b /\ b < End(f)
                                  /\ \A g \in ps : (g.off <= b /\ b < End(g)) => g = f
               /\ \A f \in ps : ~f.mf <=> End(f) = length[n]
    <2>1. n \in 1..Len(length)
      BY <1>3, <1>4, ZenonT(60)
    <2>2. PICK len \in Nat \ {0} : len = length[n]
      BY <1>2, <2>1, LengthAt, ZenonT(60)
    <2>3. ps = Of(net, n)
      BY <1>4, Zenon DEF Of
    <2>4. PICK mtu \in Mtus : ps = Pieces(n, len, mtu)
      BY <1>2, <2>1, <2>2, <2>3, Zenon DEF Wire
    <2>5. \A f \in ps : PieceSound(f, n, len)
      BY <2>4, PiecesSound, Zenon
    <2>6. ASSUME NEW b \in 0..(len - 1)
          PROVE  \E f \in ps : Has(f, b) /\ \A g \in ps : Has(g, b) => g = f
      <3>1. \E f \in Pieces(n, len, mtu) :
                Has(f, b) /\ \A g \in Pieces(n, len, mtu) : Has(g, b) => g = f
        BY PiecesCover, ZenonT(60)
      <3>2. QED
        BY <2>4, <3>1, ZenonT(60)
    <2>7. ASSUME NEW b \in 0..(len - 1)
          PROVE  \E f \in ps : /\ f.off <= b /\ b < End(f)
                              /\ \A g \in ps : (g.off <= b /\ b < End(g)) => g = f
      BY <2>6, Zenon DEF Has
    <2>8. \A f \in ps : ~BadFrag(f) /\ (~f.mf <=> End(f) = len)
      BY <2>5, Zenon DEF PieceSound
    <2>9. QED
      BY <2>2, <2>7, <2>8, Zenon
  <1>5. QED
    BY <1>4, Zenon DEF PiecesTile

-----------------------------------------------------------------------------
(* Theorems.                                                               *)

\* Whatever arrives, in whatever order and however often, ip_reass_input
\* keeps every context within its buffer and its list of ranges, and the list
\* is at all times exactly the bytes copied into the buffer, sorted, with a
\* gap between any two ranges.
THEOREM ContextsStaySound == Spec => []ContextsSound
  <1>1. IInv => ContextsSound
    BY TypesHold, RangesHold, ZenonT(60) DEF ContextsSound
  <1>2. QED
    BY <1>1, PathInvariance, PTL

\* ctx_find can stop at its first match: no two contexts in use have the same
\* key, through evictions, aborts and timeouts.
THEOREM ContextsApart == Spec => []OneContextPerDatagram
  <1>1. IInv => OneContextPerDatagram
    BY ZenonT(60) DEF IInv, Apart, OneContextPerDatagram
  <1>2. QED
    BY <1>1, PathInvariance, PTL

\* The test of deliver_complete, one range from 0 to the total length, misses
\* no datagram whose bytes are all there: the merging of ranges_insert never
\* leaves a covered datagram in two ranges.
THEOREM NoDatagramForgotten == Spec => []CompleteIsDelivered
  <1>1. QED
    BY NoneComplete, PathInvariance, PTL

\* A datagram of the sender that reaches ip_local_deliver has the length and
\* the bytes that ip_output was given, whatever the network lost, repeated or
\* reordered and whatever other hosts sent; no byte that was never received
\* goes up in any datagram.
THEOREM DatagramsIntact == Spec => []DatagramIntact
  <1>1. IInv => DatagramIntact
    <2>1. SUFFICES ASSUME IInv, delivered # None
                   PROVE  /\ \A b \in DOMAIN delivered.data : delivered.data[b] \in Tags
                          /\ delivered.key \in Ids =>
                                LET n == delivered.key
                                IN  n < ip_id /\ delivered.data = [b \in 1..length[n] |-> n]
      BY Zenon DEF DatagramIntact
    <2>2. Intact(delivered, length) /\ length \in Seq(Lengths)
      BY <2>1, Zenon DEF IInv, Wire
    <2>3. \A b \in DOMAIN delivered.data : delivered.data[b] \in Tags
      BY <2>2, ZenonT(60) DEF Intact
    <2>4. ASSUME delivered.key \in Ids
          PROVE  /\ delivered.key < ip_id
                 /\ delivered.data = [b \in 1..length[delivered.key] |-> delivered.key]
      <3>1. /\ delivered.key \in 1..Len(length)
            /\ delivered.data = [b \in 1..length[delivered.key] |-> delivered.key]
        BY <2>2, <2>4, Zenon DEF Intact
      <3>2. Len(length) \in Nat
        BY <2>2, SMTT(60)
      <3>3. delivered.key < ip_id
        BY <3>1, <3>2 DEF ip_id
      <3>4. QED
        BY <3>1, <3>3, Zenon
    <2>5. QED
      BY <2>3, <2>4, Zenon
  <1>2. QED
    BY <1>1, PathInvariance, PTL

\* ip_output cuts every datagram, of any length and for any MTU of at least
\* one unit, into pieces that the reassembly accepts, that cover each byte
\* exactly once, and of which exactly those that end the datagram are marked
\* as last.
THEOREM OutputTiles == Spec => []PiecesTile
  <1>1. QED
    BY TilesHold, PathInvariance, PTL
=============================================================================
