------------------------------ MODULE FibProofs ------------------------------
(* Proofs about Fib for every address width, pool size and set of devices. *)
EXTENDS Fib, FiniteSetTheorems, TLAPS

\* A sequence is empty when its length is 0.
LEMMA SeqEmpty ==
  ASSUME NEW S
  PROVE  /\ <<>> \in Seq(S)
         /\ Len(<<>>) = 0
         /\ \A s \in Seq(S) : s # <<>> => Len(s) \in Nat \ {0}
  OBVIOUS

\* The length of a sequence.
LEMMA SeqLength ==
  ASSUME NEW S, NEW s \in Seq(S)
  PROVE  Len(s) \in Nat /\ s \in [1..Len(s) -> S] /\ DOMAIN s = 1..Len(s)
  OBVIOUS

\* Sequences with the same elements.
LEMMA SeqSame ==
  ASSUME NEW S, NEW s \in Seq(S), NEW t \in Seq(S), Len(s) = Len(t),
         \A i \in 1..Len(s) : s[i] = t[i]
  PROVE  s = t
  OBVIOUS

Entry == [in_use : {TRUE}, prefix : Prefixes, route : Route]

-----------------------------------------------------------------------------
(* Numbers and prefixes.                                                   *)

\* A set of natural numbers that is not empty has a least element.
LEMMA LeastNatural ==
    ASSUME NEW S \in SUBSET Nat, S # {}
    PROVE  \E m \in S : \A y \in S : m <= y
<1> DEFINE R == OpToRel(<, Nat)
<1>1. IsWellFoundedOn(R, Nat)
    BY NatLessThanWellFounded, ZenonT(60)
<1>2. R = {ss \in Nat \X Nat : ss[1] < ss[2]}
    BY Zenon DEF OpToRel
<1> HIDE DEF R
<1>3. PICK x \in S : \A y \in S : ~(<<y, x>> \in R)
    BY <1>1, WFMin, ZenonT(60)
<1>4. ASSUME NEW y \in S, y < x
      PROVE  FALSE
    <2>1. <<y, x>> \in Nat \X Nat /\ <<y, x>>[1] = y /\ <<y, x>>[2] = x
        BY Zenon
    <2> QED
        BY <1>2, <1>3, <1>4, <2>1, Zenon
<1> QED
    BY <1>4, SMT

\* So has a set of numbers up to N a greatest one.
LEMMA GreatestBounded ==
    ASSUME NEW N \in Nat, NEW S \in SUBSET (0..N), S # {}
    PROVE  \E m \in S : \A y \in S : y <= m
<1> DEFINE T == {N - x : x \in S}
<1>0. \A x \in S : N - x \in Nat
    OBVIOUS
<1>1. T \in SUBSET Nat /\ T # {}
    BY <1>0, ZenonT(60)
<1> HIDE DEF T
<1>2. PICK m \in T : \A y \in T : m <= y
    BY <1>1, LeastNatural, Zenon
<1>3. PICK x \in S : m = N - x
    BY Zenon DEF T
<1>4. \A y \in S : N - y \in T
    BY Zenon DEF T
<1>5. \A y \in S : y <= x
    BY <1>2, <1>3, <1>4
<1> QED
    BY <1>5, Zenon

\* The length of a sequence is given by its domain.
LEMMA EqualIntervals ==
    ASSUME NEW m \in Nat, NEW n \in Nat, 1..m = 1..n
    PROVE  m = n
<1>1. \A k \in Nat : k \in 1..m <=> k \in 1..n
    BY Zenon
<1>2. (m \in 1..m \/ m = 0) /\ (n \in 1..n \/ n = 0)
    OBVIOUS
<1> QED
    BY <1>1, <1>2

\* A prefix is a sequence of bits, at most as long as an address.
LEMMA PrefixSeq ==
    ASSUME NEW p \in Prefixes
    PROVE  p \in Seq(Bit) /\ Len(p) \in 0..W /\ DOMAIN p = 1..Len(p)
<1>1. PICK n \in 0..W : p \in [1..n -> Bit]
    BY Zenon DEF Prefixes
<1>2. n \in Nat
    BY WAssumption
<1>3. p \in Seq(Bit)
    BY <1>1, <1>2
<1>4. Len(p) \in Nat /\ DOMAIN p = 1..Len(p)
    BY <1>3, SeqLength, Zenon
<1>5. DOMAIN p = 1..n
    BY <1>1, Zenon
<1>6. Len(p) = n
    BY <1>2, <1>4, <1>5, EqualIntervals, ZenonT(60)
<1> QED
    BY <1>3, <1>4, <1>6, Zenon

\* The masked bits of an address are a prefix of that length.
LEMMA MaskType ==
    ASSUME NEW a \in Addr, NEW n \in 0..W
    PROVE  Mask(a, n) \in Prefixes /\ Len(Mask(a, n)) = n
<1>1. Mask(a, n) \in [1..n -> Bit]
    BY WAssumption DEF Mask, Addr
<1>2. Mask(a, n) \in Prefixes
    BY <1>1, Zenon DEF Prefixes
<1>3. DOMAIN Mask(a, n) = 1..n
    BY <1>1, Zenon
<1>4. Len(Mask(a, n)) = n
    BY <1>2, <1>3, PrefixSeq, EqualIntervals, WAssumption
<1> QED
    BY <1>2, <1>4, Zenon

\* Covering is an order.
LEMMA CoversOrder ==
    /\ \A p \in Prefixes : Covers(p, p)
    /\ \A p, q, s \in Prefixes : Covers(p, q) /\ Covers(q, s) => Covers(p, s)
<1>1. \A p \in Prefixes : Len(p) \in Nat
    BY PrefixSeq, WAssumption
<1> QED
    BY <1>1 DEF Covers

\* The first free entry of the pool is one, when there is one.
LEMMA PoolAlloc ==
    ASSUME NEW po, FreeSlots(po) # {}
    PROVE  pool_alloc(po) \in FreeSlots(po)
<1>1. FreeSlots(po) \in SUBSET Nat
    BY FibAssumption DEF FreeSlots, Slots
<1>2. \E m \in FreeSlots(po) : \A y \in FreeSlots(po) : m <= y
    BY <1>1, LeastNatural, Zenon
<1>3. Min(FreeSlots(po)) \in FreeSlots(po)
    BY <1>2, Zenon DEF Min
<1> QED
    BY <1>3, Zenon DEF pool_alloc
-----------------------------------------------------------------------------
(* The trie and the pool stay in step.                                     *)

\* What one fib_add makes of the table: the node of p and its ancestors are
\* there; either the pool had no entry for it, or p alone has a new route.
LEMMA AddEffect ==
    ASSUME IInv, NEW p \in Prefixes, NEW r \in Route,
           Apply(fib_add(trie, pool, p, r))
    PROVE  /\ DOMAIN trie' = DOMAIN trie \cup {q \in Prefixes : Covers(q, p)}
           /\ p \in DOMAIN trie'
           /\ \/ /\ FreeSlots(pool) = {}
                 /\ p \notin Routed
                 /\ pool' = pool
                 /\ trie' = [q \in DOMAIN trie' |-> IF q \in DOMAIN trie THEN trie[q] ELSE NULL]
              \/ \E e \in Slots :
                 /\ IF p \in Routed THEN e = trie[p] ELSE e \in FreeSlots(pool)
                 /\ pool' = [pool EXCEPT ![e] = [in_use |-> TRUE, prefix |-> p, route |-> r]]
                 /\ trie' = [q \in DOMAIN trie' |-> IF q = p THEN e
                                                  ELSE IF q \in DOMAIN trie THEN trie[q] ELSE NULL]
<1> DEFINE path == {q \in Prefixes : Covers(q, p)}
           grown == [q \in DOMAIN trie \cup path |-> IF q \in DOMAIN trie THEN trie[q] ELSE NULL]
           e == IF grown[p] # NULL THEN grown[p] ELSE pool_alloc(pool)
<1>1. p \in path
    BY CoversOrder, Zenon
<1>2. grown[p] # NULL <=> p \in Routed
    BY <1>1, Zenon DEF Routed
<1>3. grown[p] # NULL => grown[p] = trie[p] /\ trie[p] \in Slots
    BY <1>1, Zenon DEF IInv, TypeOK
<1>4. CASE e = NULL
    <2>1. trie' = grown /\ pool' = pool
        BY <1>4, Zenon DEF Apply, fib_add
    <2>2. grown[p] = NULL /\ pool_alloc(pool) = NULL
        BY <1>4, Zenon
    <2>3. NULL \notin FreeSlots(pool)
        BY FibAssumption DEF NULL, FreeSlots, Slots
    <2>4. FreeSlots(pool) = {}
        BY <2>2, <2>3, PoolAlloc, Zenon
    <2> QED
        BY <1>1, <1>2, <2>1, <2>2, <2>4, ZenonT(60)
<1>5. CASE e # NULL
    <2>1. /\ trie' = [grown EXCEPT ![p] = e]
          /\ pool' = [pool EXCEPT ![e] = [in_use |-> TRUE, prefix |-> p, route |-> r]]
        BY <1>5, Zenon DEF Apply, fib_add
    <2>2. IF p \in Routed THEN e = trie[p] ELSE e \in FreeSlots(pool)
        <3>1. CASE p \in Routed
            BY <1>2, <1>3, <3>1, Zenon
        <3>2. CASE p \notin Routed
            <4>1. e = pool_alloc(pool)
                BY <1>2, <3>2, Zenon
            <4>2. FreeSlots(pool) # {}
                BY <1>5, <4>1, Zenon DEF pool_alloc
            <4> QED
                BY <3>2, <4>1, <4>2, PoolAlloc, ZenonT(60)
        <3> QED
            BY <3>1, <3>2, Zenon
    <2>3. e \in Slots
        BY <1>2, <1>3, <2>2, Zenon DEF FreeSlots
    <2>4. /\ DOMAIN trie' = DOMAIN trie \cup path
          /\ trie' = [q \in DOMAIN trie' |-> IF q = p THEN e
                                           ELSE IF q \in DOMAIN trie THEN trie[q] ELSE NULL]
        BY <1>1, <2>1, ZenonT(60)
    <2> HIDE DEF e
    <2> QED
        BY <1>1, <2>1, <2>2, <2>3, <2>4, ZenonT(60)
<1> QED
    BY <1>4, <1>5, Zenon

\* fib_add keeps the trie and the pool in step.
LEMMA AddKeeps ==
    ASSUME IInv, NEW p \in Prefixes, NEW r \in Route,
           Apply(fib_add(trie, pool, p, r)), starved' \in BOOLEAN
    PROVE  IInv'
<1> DEFINE path == {q \in Prefixes : Covers(q, p)}
<1>1. DOMAIN trie' = DOMAIN trie \cup path /\ p \in DOMAIN trie'
    BY AddEffect, Zenon
<1>2. (\A s \in DOMAIN trie, q \in Prefixes : Covers(q, s) => q \in DOMAIN trie)'
    BY <1>1, CoversOrder, Zenon DEF IInv, PoolMatchesTrie, TypeOK
<1>3. NULL \notin Slots
    BY FibAssumption DEF NULL, Slots
<1>4. CASE /\ pool' = pool
           /\ trie' = [q \in DOMAIN trie' |-> IF q \in DOMAIN trie THEN trie[q] ELSE NULL]
    <2>1. TypeOK'
        BY <1>1, <1>4, ZenonT(60) DEF IInv, TypeOK
    <2> QED
        BY <1>1, <1>2, <1>4, <2>1, ZenonT(60) DEF IInv, PoolMatchesTrie, TypeOK
<1>5. ASSUME NEW e \in Slots,
             IF p \in Routed THEN e = trie[p] ELSE e \in FreeSlots(pool),
             pool' = [pool EXCEPT ![e] = [in_use |-> TRUE, prefix |-> p, route |-> r]],
             trie' = [q \in DOMAIN trie' |-> IF q = p THEN e
                                             ELSE IF q \in DOMAIN trie THEN trie[q] ELSE NULL]
      PROVE  IInv'
    <2>1. TypeOK'
        BY <1>1, <1>5, ZenonT(60) DEF IInv, TypeOK
    <2>2. \A q \in DOMAIN trie : trie[q] = e => q = p
        BY <1>3, <1>5 DEF IInv, PoolMatchesTrie, Routed, FreeSlots
    <2>3. \A i \in Slots : i # e => pool'[i] = pool[i]
        BY <1>5, Zenon DEF IInv, TypeOK
    <2>4. pool'[e].in_use /\ pool'[e].prefix = p
        BY <1>5, Zenon DEF IInv, TypeOK
    <2>5. (\A q \in DOMAIN trie : trie[q] # NULL => pool[trie[q]].in_use /\ pool[trie[q]].prefix = q)'
        BY <1>1, <1>3, <1>5, <2>2, <2>3, <2>4 DEF IInv, PoolMatchesTrie, TypeOK
    <2>6. ASSUME NEW i \in Slots, pool'[i].in_use
          PROVE  pool'[i].prefix \in DOMAIN trie' /\ trie'[pool'[i].prefix] = i
        <3>1. CASE i = e
            BY <1>1, <1>5, <2>4, <3>1
        <3>2. CASE i # e
            <4>1. pool[i].prefix \in DOMAIN trie /\ trie[pool[i].prefix] = i
                BY <2>3, <2>6, <3>2, Zenon DEF IInv, PoolMatchesTrie
            <4>2. pool[i].prefix # p
                BY <1>3, <1>5, <3>2, <4>1 DEF Routed
            <4> QED
                BY <1>1, <1>5, <2>3, <3>2, <4>1, <4>2, Zenon
        <3> QED
            BY <3>1, <3>2, Zenon
    <2> QED
        BY <1>2, <2>1, <2>5, <2>6, Zenon DEF IInv, PoolMatchesTrie
<1>6. CASE \E e \in Slots :
              /\ IF p \in Routed THEN e = trie[p] ELSE e \in FreeSlots(pool)
              /\ pool' = [pool EXCEPT ![e] = [in_use |-> TRUE, prefix |-> p, route |-> r]]
              /\ trie' = [q \in DOMAIN trie' |-> IF q = p THEN e
                                               ELSE IF q \in DOMAIN trie THEN trie[q] ELSE NULL]
    BY <1>5, <1>6, ZenonT(60)
<1> QED
    BY <1>4, <1>6, AddEffect, ZenonT(60)

\* What one fib_del makes of the table: p loses its entry, and of the nodes
\* only ones without an entry are gone.
LEMMA DelEffect ==
    ASSUME IInv, NEW p \in Prefixes, Apply(fib_del(trie, pool, p))
    PROVE  /\ DOMAIN trie' \subseteq DOMAIN trie
           /\ trie' = [q \in DOMAIN trie' |-> IF q = p THEN NULL ELSE trie[q]]
           /\ Routed \ {p} \subseteq DOMAIN trie'
           /\ \A s \in DOMAIN trie', q \in Prefixes : Covers(q, s) => q \in DOMAIN trie'
           /\ pool' = IF p \in Routed THEN [pool EXCEPT ![trie[p]] = Free] ELSE pool
<1> DEFINE met == {q \in DOMAIN trie : Covers(q, p)}
           left == [q \in DOMAIN trie |-> IF q = p THEN NULL ELSE trie[q]]
           freed == {q \in met \ {<<>>} :
                        \A s \in DOMAIN trie : Covers(q, s) => s \in met /\ left[s] = NULL}
<1>1. trie' = [q \in DOMAIN trie \ freed |-> left[q]]
    BY Zenon DEF Apply, fib_del, del_rec
<1>2. pool' = IF p \in Routed THEN [pool EXCEPT ![trie[p]] = Free] ELSE pool
    BY Zenon DEF Apply, fib_del, Routed
<1>3. /\ DOMAIN trie' = DOMAIN trie \ freed
      /\ trie' = [q \in DOMAIN trie' |-> IF q = p THEN NULL ELSE trie[q]]
    BY <1>1, Zenon
<1>4. DOMAIN trie \subseteq Prefixes
    BY Zenon DEF IInv, TypeOK
<1>5. Routed \ {p} \subseteq DOMAIN trie'
    BY <1>3, <1>4, CoversOrder, Zenon DEF Routed
<1>6. ASSUME NEW s \in DOMAIN trie', NEW q \in Prefixes, Covers(q, s)
      PROVE  q \in DOMAIN trie'
    <2>1. s \in DOMAIN trie /\ s \notin freed
        BY <1>3, Zenon
    <2>2. q \in DOMAIN trie
        BY <1>6, <2>1, Zenon DEF IInv, PoolMatchesTrie
    <2>3. ASSUME q \in freed
          PROVE  FALSE
        <3>1. \A u \in DOMAIN trie : Covers(s, u) => u \in met /\ left[u] = NULL
            BY <1>4, <1>6, <2>1, <2>2, <2>3, CoversOrder, Zenon
        <3>2. s \in met
            BY <1>4, <2>1, <3>1, CoversOrder, Zenon
        <3>3. q # <<>> /\ q \in Seq(Bit) /\ s \in Seq(Bit)
            BY <1>4, <2>1, <2>3, PrefixSeq, Zenon
        <3>4. Len(q) > 0
            BY <3>3, SeqEmpty
        <3>5. s # <<>>
            BY <1>6, <3>3, <3>4, SeqEmpty, SeqLength DEF Covers
        <3> QED
            BY <2>1, <3>1, <3>2, <3>5, Zenon
    <2> QED
        BY <1>3, <2>2, <2>3, Zenon
<1> HIDE DEF freed, met, left
<1> QED
    BY <1>2, <1>3, <1>5, <1>6, Zenon

\* fib_del keeps the trie and the pool in step.
LEMMA DelKeeps ==
    ASSUME IInv, NEW p \in Prefixes, Apply(fib_del(trie, pool, p)), UNCHANGED starved
    PROVE  IInv'
<1>1. NULL \notin Slots
    BY FibAssumption DEF NULL, Slots
<1>2. TypeOK'
    BY DelEffect, ZenonT(60) DEF IInv, TypeOK, Routed
<1>3. \A i \in Slots : pool'[i] = IF p \in Routed /\ trie[p] = i THEN Free ELSE pool[i]
    <2>1. pool' = IF p \in Routed THEN [pool EXCEPT ![trie[p]] = Free] ELSE pool
        BY DelEffect, Zenon
    <2>2. DOMAIN pool = Slots
        BY Zenon DEF IInv, TypeOK
    <2> QED
        BY <2>1, <2>2, Zenon
<1>4. ASSUME NEW q \in DOMAIN trie', trie'[q] # NULL
      PROVE  pool'[trie'[q]].in_use /\ pool'[trie'[q]].prefix = q
    <2>1. q \in DOMAIN trie /\ q # p /\ trie'[q] = trie[q]
        BY <1>4, DelEffect
    <2>2. pool[trie[q]].in_use /\ pool[trie[q]].prefix = q
        BY <1>4, <2>1, Zenon DEF IInv, PoolMatchesTrie
    <2>3. p \in Routed => trie[p] # trie[q]
        BY <2>1, <2>2, ZenonT(60) DEF IInv, PoolMatchesTrie, Routed
    <2>4. pool'[trie[q]] = pool[trie[q]]
        <3>1. trie[q] \in Slots
            BY <1>4, <2>1, Zenon DEF IInv, TypeOK
        <3> QED
            BY <1>3, <2>3, <3>1, Zenon
    <2> QED
        BY <2>1, <2>2, <2>4, Zenon
<1>5. ASSUME NEW i \in Slots, pool'[i].in_use
      PROVE  pool'[i].prefix \in DOMAIN trie' /\ trie'[pool'[i].prefix] = i
    <2>1. ~(p \in Routed /\ trie[p] = i)
        BY <1>5, <1>3 DEF Free
    <2>2. pool'[i] = pool[i]
        BY <1>3, <2>1, Zenon
    <2>3. pool[i].prefix \in DOMAIN trie /\ trie[pool[i].prefix] = i
        BY <1>5, <2>2, Zenon DEF IInv, PoolMatchesTrie
    <2>4. pool[i].prefix \in Routed \ {p}
        BY <1>1, <2>1, <2>3, Zenon DEF Routed
    <2> QED
        BY <2>2, <2>3, <2>4, DelEffect
<1> QED
    BY <1>2, <1>4, <1>5, DelEffect, Zenon DEF IInv, PoolMatchesTrie

-----------------------------------------------------------------------------
(* The answers.                                                            *)

\* fib_lookup returns the entry of the longest prefix that covers the
\* address, and no entry only when none does.
LEMMA LookupLongest ==
    ASSUME IInv, NEW a \in Addr
    PROVE  LET e == fib_lookup(trie, a)
           IN  IF e = NULL THEN \A q \in Routed : ~Covers(q, a)
                           ELSE /\ e \in Slots
                                /\ pool[e] \in Entry
                                /\ pool[e].prefix \in Routed
                                /\ trie[pool[e].prefix] = e
                                /\ Covers(pool[e].prefix, a)
                                /\ \A q \in Routed : Covers(q, a) => Len(q) <= Len(pool[e].prefix)
<1> DEFINE seen == {d \in 0..W : /\ \A k \in 0..d : Mask(a, k) \in DOMAIN trie
                                 /\ trie[Mask(a, d)] # NULL}
<1>1. a \in Prefixes /\ Len(a) = W
    <2>1. a \in Prefixes
        BY WAssumption DEF Addr, Prefixes
    <2>2. DOMAIN a = 1..W
        BY Zenon DEF Addr
    <2> QED
        BY <2>1, <2>2, PrefixSeq, EqualIntervals, WAssumption
<1>2. \A d \in 0..W : Mask(a, d) \in Prefixes /\ Len(Mask(a, d)) = d /\ Covers(Mask(a, d), a)
    BY <1>1, MaskType, WAssumption DEF Covers, Mask
<1>3. ASSUME NEW q \in Routed, Covers(q, a)
      PROVE  Len(q) \in seen
    <2>1. q \in Prefixes /\ Len(q) \in 0..W /\ q \in Seq(Bit)
        BY PrefixSeq, Zenon DEF IInv, TypeOK, Routed
    <2>2. Mask(a, Len(q)) = q
        <3>1. Mask(a, Len(q)) \in Seq(Bit) /\ Len(Mask(a, Len(q))) = Len(q)
            BY <1>2, <2>1, PrefixSeq, Zenon
        <3>2. \A i \in 1..Len(q) : Mask(a, Len(q))[i] = q[i]
            BY <1>3, Zenon DEF Mask, Covers
        <3> QED
            BY <2>1, <3>1, <3>2, SeqSame, Zenon
    <2>3. ASSUME NEW k \in 0..Len(q)
          PROVE  Mask(a, k) \in DOMAIN trie
        <3>1. k \in 0..W
            BY <2>1, WAssumption
        <3>2. Mask(a, k) \in Prefixes /\ Len(Mask(a, k)) = k
            BY <1>2, <3>1, Zenon
        <3>3. \A i \in 1..k : Mask(a, k)[i] = a[i] /\ a[i] = q[i]
            BY <1>3, <2>1 DEF Mask, Covers
        <3>4. Covers(Mask(a, k), q)
            BY <2>1, <3>2, <3>3 DEF Covers
        <3> QED
            BY <3>2, <3>4, Zenon DEF IInv, PoolMatchesTrie, Routed
    <2> QED
        BY <2>1, <2>2, <2>3, Zenon DEF Routed
<1>4. CASE seen = {}
    <2>1. fib_lookup(trie, a) = NULL
        BY <1>4, Zenon DEF fib_lookup
    <2> QED
        BY <1>3, <1>4, <2>1, Zenon
<1>5. CASE seen # {}
    <2>1. PICK m \in seen : \A y \in seen : y <= m
        BY <1>5, GreatestBounded, WAssumption, ZenonT(60)
    <2>2. \A y \in seen : y \in Int
        BY WAssumption
    <2>3. Max(seen) \in seen /\ \A y \in seen : y <= Max(seen)
        <3> HIDE DEF seen
        <3>1. \E x \in seen : \A y \in seen : x >= y
            BY <2>1, <2>2, Zenon
        <3>2. Max(seen) \in seen /\ \A y \in seen : Max(seen) >= y
            BY <3>1, Zenon DEF Max
        <3> QED
            BY <2>2, <3>2, Zenon
    <2> DEFINE d == Max(seen)
               e == trie[Mask(a, d)]
    <2>4. fib_lookup(trie, a) = e
        BY <1>5, Zenon DEF fib_lookup
    <2> HIDE DEF d
    <2>5. d \in 0..W /\ Mask(a, d) \in DOMAIN trie /\ e # NULL
        <3>1. d \in seen
            BY <2>3, ZenonT(60) DEF d
        <3>2. d \in 0..W /\ (\A k \in 0..d : Mask(a, k) \in DOMAIN trie) /\ trie[Mask(a, d)] # NULL
            BY <3>1, Zenon
        <3>3. d \in 0..d
            BY <3>2, WAssumption
        <3> QED
            BY <3>2, <3>3, Zenon
    <2>6. Mask(a, d) \in Routed /\ e \in Slots
        BY <2>5, Zenon DEF Routed, IInv, TypeOK
    <2>7. pool[e].in_use /\ pool[e].prefix = Mask(a, d)
        BY <2>5, Zenon DEF IInv, PoolMatchesTrie
    <2>8. pool[e] \in Entry
        <3>1. pool[e] \in {Free} \cup Entry
            BY <2>6, ZenonT(60) DEF IInv, TypeOK, Entry
        <3>2. Free.in_use = FALSE
            BY Zenon DEF Free
        <3> QED
            BY <2>7, <3>1, <3>2, Zenon
    <2>9. \A q \in Routed : Covers(q, a) => Len(q) <= d
        BY <1>3, <2>3, ZenonT(60) DEF d
    <2>10. Covers(Mask(a, d), a) /\ Len(Mask(a, d)) = d
        BY <1>2, <2>5, Zenon
    <2> HIDE DEF e
    <2> QED
        BY <2>4, <2>5, <2>6, <2>7, <2>8, <2>9, <2>10, ZenonT(60) DEF e
<1> QED
    BY <1>4, <1>5, Zenon

\* There is a free entry exactly when the table holds fewer routes than the
\* pool has entries.
LEMMA RoomIffFree ==
    ASSUME IInv
    PROVE  FreeSlots(pool) # {} <=> Cardinality(Routed) < FIB_MAX_ROUTES
<1> DEFINE f == [q \in Routed |-> trie[q]]
<1>1. f \in [Routed -> Slots]
    BY Zenon DEF IInv, TypeOK, Routed
<1>2. \A p, q \in Routed : f[p] = f[q] => p = q
    BY DEF IInv, PoolMatchesTrie, Routed
<1>3. f \in Injection(Routed, Slots)
    BY <1>1, <1>2, Zenon DEF Injection, IsInjective
<1>4. IsFiniteSet(Slots) /\ Cardinality(Slots) = FIB_MAX_ROUTES
    BY FS_Interval, FibAssumption DEF Slots
<1>5. /\ IsFiniteSet(Routed)
      /\ Cardinality(Routed) <= FIB_MAX_ROUTES
      /\ Cardinality(Routed) = FIB_MAX_ROUTES <=> f \in Surjection(Routed, Slots)
    BY <1>3, <1>4, FS_Injection, Zenon
<1>6. Cardinality(Routed) \in Nat
    BY <1>5, FS_CardinalityType, Zenon
<1>7. f \in Surjection(Routed, Slots) <=> FreeSlots(pool) = {}
    <2>1. ASSUME f \in Surjection(Routed, Slots), NEW i \in Slots
          PROVE  pool[i].in_use
        <3>1. PICK q \in Routed : f[q] = i
            BY <2>1, ZenonT(60) DEF Surjection
        <3> QED
            BY <3>1, Zenon DEF IInv, PoolMatchesTrie, Routed
    <2>2. ASSUME FreeSlots(pool) = {}, NEW i \in Slots
          PROVE  \E q \in Routed : f[q] = i
        <3>1. pool[i].prefix \in DOMAIN trie /\ trie[pool[i].prefix] = i
            BY <2>2, Zenon DEF FreeSlots, IInv, PoolMatchesTrie
        <3>2. i # NULL
            BY FibAssumption DEF Slots, NULL
        <3> QED
            BY <3>1, <3>2, Zenon DEF Routed
    <2> QED
        BY <1>1, <2>1, <2>2, Zenon DEF Surjection, FreeSlots
<1> QED
    BY <1>5, <1>6, <1>7, FibAssumption

\* The table of routes that the trie and the pool stand for.
Map == [p \in Routed |-> pool[trie[p]].route]

\* The mapped table has the prefixes of the nodes with an entry.
LEMMA MapDomain == DOMAIN Map = Routed
    BY Zenon DEF Map

\* The counting of the abstract table's module is that of this one.
LEMMA TableCardinality == \A S : Table!Cardinality(S) = Cardinality(S)
    BY Zenon DEF Cardinality, Table!Cardinality

\* The abstract table's operators, said of this map.
LEMMA TableForms ==
    ASSUME NEW p, NEW r, NEW nh
    PROVE  /\ Table!HasRoom(p) <=> p \in DOMAIN Map \/ Cardinality(DOMAIN Map) < FIB_MAX_ROUTES
           /\ Table!Install(p, r) <=>
                 /\ Table!HasRoom(p)
                 /\ Map' = [q \in DOMAIN Map \cup {p} |-> IF q = p THEN r ELSE Map[q]]
           /\ Table!InstallVia(p, nh) <=>
                 \E q \in DOMAIN Map :
                    /\ Table!IsLongest(q, nh)
                    /\ Map[q].connected
                    /\ Table!Install(p, [next_hop |-> nh, dev |-> Map[q].dev, connected |-> FALSE])
<1>1. Table!HasRoom(p) <=> p \in DOMAIN Map \/ Cardinality(DOMAIN Map) < FIB_MAX_ROUTES
    BY TableCardinality, Zenon DEF Table!HasRoom, Map
<1>2. Table!Install(p, r) <=>
          /\ Table!HasRoom(p)
          /\ Map' = [q \in DOMAIN Map \cup {p} |-> IF q = p THEN r ELSE Map[q]]
    BY Zenon DEF Table!Install, Map
<1>3. Table!InstallVia(p, nh) <=>
          \E q \in DOMAIN Map :
             /\ Table!IsLongest(q, nh)
             /\ Map[q].connected
             /\ Table!Install(p, [next_hop |-> nh, dev |-> Map[q].dev, connected |-> FALSE])
    BY Zenon DEF Table!InstallVia, Map
<1> QED
    BY <1>1, <1>2, <1>3, Zenon

\* The route of an address, read off the trie, is the one the map has.
LEMMA LookupInMap ==
    ASSUME IInv, NEW a \in Addr, fib_lookup(trie, a) # NULL
    PROVE  LET e == fib_lookup(trie, a)
           IN  /\ pool[e].prefix \in Routed
               /\ Table!IsLongest(pool[e].prefix, a)
               /\ Map[pool[e].prefix] = pool[e].route
               /\ pool[e].route \in Route
<1> DEFINE e == fib_lookup(trie, a)
<1>1. /\ pool[e] \in Entry
      /\ pool[e].prefix \in Routed
      /\ trie[pool[e].prefix] = e
      /\ Covers(pool[e].prefix, a)
      /\ \A q \in Routed : Covers(q, a) => Len(q) <= Len(pool[e].prefix)
    BY LookupLongest, Zenon
<1> HIDE DEF e
<1>2. Table!IsLongest(pool[e].prefix, a)
    BY <1>1, Zenon DEF Table!IsLongest, Table!Covers, Covers
<1> QED
    BY <1>1, <1>2, ZenonT(60) DEF e, Map, Entry

\* The answers that calls would give now are those of the table.
LEMMA AnswersHold == IInv => AnswersFromTable
<1> SUFFICES ASSUME IInv PROVE AnswersFromTable
    BY Zenon
<1>1. ASSUME NEW a \in Addr
      PROVE  LET e == fib_lookup(trie, a)
             IN  IF e = NULL THEN \A p \in Routed : ~Covers(p, a)
                             ELSE Table!IsLongest(pool[e].prefix, a)
    BY LookupLongest, LookupInMap, Zenon
<1>2. ASSUME NEW p \in Prefixes
      PROVE  (fib_add(trie, pool, p, {}).rc = 0) = Table!HasRoom(p)
    <2> DEFINE path == {q \in Prefixes : Covers(q, p)}
               grown == [q \in DOMAIN trie \cup path |-> IF q \in DOMAIN trie THEN trie[q] ELSE NULL]
               e == IF grown[p] # NULL THEN grown[p] ELSE pool_alloc(pool)
    <2>1. grown[p] # NULL <=> p \in Routed
        BY CoversOrder, Zenon DEF Routed
    <2>2. pool_alloc(pool) # NULL <=> FreeSlots(pool) # {}
        <3>1. NULL \notin FreeSlots(pool)
            BY FibAssumption DEF NULL, FreeSlots, Slots
        <3> QED
            BY <3>1, PoolAlloc, Zenon DEF pool_alloc
    <2>3. e # NULL <=> p \in Routed \/ FreeSlots(pool) # {}
        BY <2>1, <2>2, Zenon
    <2>4. fib_add(trie, pool, p, {}).rc = IF e = NULL THEN -1 ELSE 0
        BY Zenon DEF fib_add
    <2> HIDE DEF e
    <2>5. (fib_add(trie, pool, p, {}).rc = 0) <=> p \in Routed \/ Cardinality(Routed) < FIB_MAX_ROUTES
        BY <2>3, <2>4, RoomIffFree
    <2>6. Table!HasRoom(p) <=> p \in Routed \/ Cardinality(Routed) < FIB_MAX_ROUTES
        BY MapDomain, TableForms, ZenonT(60)
    <2>7. Table!HasRoom(p) \in BOOLEAN
        BY Zenon DEF Table!HasRoom
    <2> QED
        BY <2>5, <2>6, <2>7, Zenon
<1>3. ASSUME NEW p \in Prefixes
      PROVE  (fib_del(trie, pool, p).rc = 0) = (p \in Routed)
    BY DEF fib_del, Routed
<1> QED
    BY <1>1, <1>2, <1>3, Zenon DEF AnswersFromTable

-----------------------------------------------------------------------------
(* Safety.                                                                 *)

\* The empty table, as fib_init leaves it.
LEMMA InitIInv == Init => IInv
<1> SUFFICES ASSUME Init PROVE IInv
    BY Zenon
<1>1. \A i \in Slots : pool[i] = Free /\ ~pool[i].in_use
    BY Zenon DEF Init, Free
<1> QED
    BY <1>1, ZenonT(60) DEF Init, Empty, IInv, TypeOK, PoolMatchesTrie

\* The next hop of a connected route is an address.
LEMMA ZeroType == Zero \in Addr
    BY Zenon DEF Zero, Addr, Bit

\* A command with a proper mask is a call with a prefix length.
LEMMA CommandCalls ==
    ASSUME NEW prefix \in Addr, NEW mask \in Addr
    PROVE  /\ \A nh \in Addr : cmd_ip_route(prefix, mask, nh) =>
                 \E plen \in 0..W : fib_add_via(prefix, plen, nh)
           /\ cmd_no_ip_route(prefix, mask) => \E plen \in 0..W : del_route(prefix, plen)
<1>1. mask_to_plen(mask) \in 0..W \/ mask_to_plen(mask) = -1
    BY Zenon DEF mask_to_plen
<1>2. mask_to_plen(mask) >= 0 => mask_to_plen(mask) \in 0..W
    BY <1>1
<1> QED
    BY <1>2, Zenon DEF cmd_ip_route, cmd_no_ip_route

\* Every call keeps the trie and the pool in step.
LEMMA NextIInv == IInv /\ [Next]_vars => IInv'
<1> SUFFICES ASSUME IInv, [Next]_vars PROVE IInv'
    BY Zenon
<1>1. ASSUME NEW ip \in Addr, NEW plen \in 0..W, NEW dev \in Devs, pf_if_set_addr(ip, plen, dev)
      PROVE  IInv'
    <2> DEFINE r == [next_hop |-> Zero, dev |-> dev, connected |-> TRUE]
    <2>1. Mask(ip, plen) \in Prefixes /\ r \in Route
        BY MaskType, ZeroType, Zenon DEF Route
    <2>2. Apply(fib_add(trie, pool, Mask(ip, plen), r)) /\ starved' \in BOOLEAN
        BY <1>1, Zenon DEF pf_if_set_addr, IInv, TypeOK
    <2> QED
        BY <2>1, <2>2, AddKeeps, Zenon
<1>2. ASSUME NEW prefix \in Addr, NEW nh \in Addr, NEW plen \in 0..W, fib_add_via(prefix, plen, nh)
      PROVE  IInv'
    <2> DEFINE e == fib_lookup(trie, nh)
               r == [next_hop |-> nh, dev |-> pool[e].route.dev, connected |-> FALSE]
    <2>1. e # NULL /\ Apply(fib_add(trie, pool, Mask(prefix, plen), r)) /\ starved' \in BOOLEAN
        BY <1>2, Zenon DEF fib_add_via, IInv, TypeOK
    <2>2. pool[e].route \in Route
        BY <2>1, LookupInMap, Zenon
    <2> HIDE DEF e
    <2>3. Mask(prefix, plen) \in Prefixes /\ r \in Route
        <3>1. pool[e].route.dev \in Devs
            BY <2>2, Zenon DEF Route
        <3> QED
            BY <3>1, MaskType, Zenon DEF Route
    <2> QED
        BY <2>1, <2>3, AddKeeps, Zenon
<1>3. ASSUME NEW prefix \in Addr, NEW plen \in 0..W, del_route(prefix, plen)
      PROVE  IInv'
    BY <1>3, MaskType, DelKeeps, Zenon DEF del_route
<1>4. CASE fib_fini
    BY <1>4, InitIInv, ZenonT(60) DEF fib_fini, Init, Empty, IInv, TypeOK, PoolMatchesTrie, Free
<1>5. CASE UNCHANGED vars
    BY <1>5, ZenonT(60) DEF vars, IInv, TypeOK, PoolMatchesTrie
<1> QED
    BY <1>1, <1>2, <1>3, <1>4, <1>5, CommandCalls, ZenonT(60) DEF Next

\* The trie and the pool are well formed and in step after any sequence of
\* fib_add, fib_del and fib_fini.
THEOREM IInvariant == Spec => []IInv
    BY InitIInv, NextIInv, PTL DEF Spec

\* The entries in use and the nodes of the trie that refer to them are one
\* to one whatever calls were made (fib_add, fib_del, pool_alloc).
THEOREM TableSound == Spec => []PoolMatchesTrie
<1>1. IInv => PoolMatchesTrie
    BY Zenon DEF IInv
<1> QED
    BY <1>1, IInvariant, PTL

\* fib_lookup always answers with the longest match, fib_add is refused
\* only when every entry is taken by another prefix, fib_del only for a
\* prefix without a route.
THEOREM AnswersRight == Spec => []AnswersFromTable
    BY AnswersHold, IInvariant, PTL

\* A fib_add that found an entry leaves no branch without a route.
LEMMA AddBarren ==
    ASSUME IInv, NoBarrenBranch, NEW p \in Prefixes, NEW r \in Route,
           Apply(fib_add(trie, pool, p, r)),
           starved' = (starved \/ fib_add(trie, pool, p, r).rc = -1)
    PROVE  NoBarrenBranch'
<1> SUFFICES ASSUME ~starved' PROVE NoBarrenBranch'
    BY Zenon DEF NoBarrenBranch
<1>1. ~starved /\ fib_add(trie, pool, p, r).rc # -1
    BY ZenonT(60)
<1>2. ~(FreeSlots(pool) = {} /\ p \notin Routed)
    BY <1>1, CoversOrder, Zenon DEF fib_add, pool_alloc, Routed
<1>3. DOMAIN trie' = DOMAIN trie \cup {q \in Prefixes : Covers(q, p)}
    BY AddEffect, Zenon
<1>4. PICK e \in Slots :
         trie' = [q \in DOMAIN trie' |-> IF q = p THEN e
                                        ELSE IF q \in DOMAIN trie THEN trie[q] ELSE NULL]
    BY <1>2, AddEffect, ZenonT(60)
<1>5. e # NULL
    BY FibAssumption DEF Slots, NULL
<1>6. Routed \cup {p} \subseteq Routed'
    BY <1>3, <1>4, <1>5, CoversOrder DEF Routed
<1>7. \A q \in DOMAIN trie : q = <<>> \/ \E s \in Routed : Covers(q, s)
    BY <1>1, Zenon DEF NoBarrenBranch
<1> QED
    BY <1>3, <1>6, <1>7, Zenon DEF NoBarrenBranch

\* fib_del takes every node that no longer leads to a route.
LEMMA DelBarren ==
    ASSUME IInv, NoBarrenBranch, NEW p \in Prefixes,
           Apply(fib_del(trie, pool, p)), UNCHANGED starved
    PROVE  NoBarrenBranch'
<1> SUFFICES ASSUME ~starved, NEW q \in DOMAIN trie', q # <<>>
             PROVE  \E s \in Routed' : Covers(q, s)
    BY Zenon DEF NoBarrenBranch
<1>1. /\ DOMAIN trie' \subseteq DOMAIN trie
      /\ trie' = [n \in DOMAIN trie' |-> IF n = p THEN NULL ELSE trie[n]]
      /\ Routed \ {p} \subseteq DOMAIN trie'
    BY DelEffect, Zenon
<1>2. Routed \ {p} \subseteq Routed'
    BY <1>1, Zenon DEF Routed
<1>3. \A n \in DOMAIN trie : n = <<>> \/ \E s \in Routed : Covers(n, s)
    BY Zenon DEF NoBarrenBranch
<1>4. q \in Prefixes /\ DOMAIN trie \subseteq Prefixes /\ Routed \subseteq Prefixes
    BY <1>1, Zenon DEF IInv, TypeOK, Routed
<1>5. CASE ~Covers(q, p)
    BY <1>1, <1>2, <1>3, <1>5, Zenon
<1>6. CASE Covers(q, p)
    <2>1. PICK s \in DOMAIN trie : Covers(q, s) /\ ~(Covers(s, p) /\ (s = p \/ trie[s] = NULL))
        BY <1>1, <1>6 DEF Apply, fib_del, del_rec
    <2>2. CASE ~Covers(s, p)
        <3>1. s # <<>>
            BY <1>4, <2>2, PrefixSeq DEF Covers
        <3>2. PICK t \in Routed : Covers(s, t)
            BY <1>3, <3>1, Zenon
        <3> QED
            BY <1>2, <1>4, <2>1, <2>2, <3>2, CoversOrder, Zenon
    <2>3. CASE Covers(s, p)
        BY <1>2, <2>1, <2>3, Zenon DEF Routed
    <2> QED
        BY <2>2, <2>3, Zenon
<1> QED
    BY <1>5, <1>6, Zenon

\* As long as no fib_add was refused, fib_add and fib_del leave no branch of
\* the trie that leads to no route.
THEOREM NoBarren == Spec => []NoBarrenBranch
<1>1. Init => NoBarrenBranch
    BY Zenon DEF Init, Empty, NoBarrenBranch
<1>2. IInv /\ NoBarrenBranch /\ [Next]_vars => NoBarrenBranch'
    <2> SUFFICES ASSUME IInv, NoBarrenBranch, [Next]_vars PROVE NoBarrenBranch'
        BY Zenon
    <2>1. ASSUME NEW ip \in Addr, NEW plen \in 0..W, NEW dev \in Devs, pf_if_set_addr(ip, plen, dev)
          PROVE  NoBarrenBranch'
        BY <2>1, MaskType, ZeroType, AddBarren, ZenonT(60) DEF pf_if_set_addr, Route
    <2>2. ASSUME NEW prefix \in Addr, NEW nh \in Addr, NEW plen \in 0..W, fib_add_via(prefix, plen, nh)
          PROVE  NoBarrenBranch'
        <3> DEFINE e == fib_lookup(trie, nh)
                   r == [next_hop |-> nh, dev |-> pool[e].route.dev, connected |-> FALSE]
        <3>1. /\ e # NULL
              /\ Apply(fib_add(trie, pool, Mask(prefix, plen), r))
              /\ starved' = (starved \/ fib_add(trie, pool, Mask(prefix, plen), r).rc = -1)
            BY <2>2, Zenon DEF fib_add_via
        <3>2. pool[e].route \in Route
            BY <3>1, LookupInMap, Zenon
        <3> HIDE DEF e
        <3>3. Mask(prefix, plen) \in Prefixes /\ r \in Route
            <4>1. pool[e].route.dev \in Devs
                BY <3>2, Zenon DEF Route
            <4> QED
                BY <4>1, MaskType, Zenon DEF Route
        <3> QED
            BY <3>1, <3>3, AddBarren, ZenonT(60)
    <2>3. ASSUME NEW prefix \in Addr, NEW plen \in 0..W, del_route(prefix, plen)
          PROVE  NoBarrenBranch'
        BY <2>3, MaskType, DelBarren, Zenon DEF del_route
    <2>4. CASE fib_fini
        BY <2>4, Zenon DEF fib_fini, Empty, NoBarrenBranch
    <2>5. CASE UNCHANGED vars
        BY <2>5, Zenon DEF vars, NoBarrenBranch, Routed
    <2> QED
        BY <2>1, <2>2, <2>3, <2>4, <2>5, CommandCalls, ZenonT(60) DEF Next
<1> QED
    BY <1>1, <1>2, IInvariant, PTL DEF Spec

-----------------------------------------------------------------------------
(* Refinement.                                                             *)

\* A fib_add is an Install of the abstract table, or was refused.
LEMMA AddRefines ==
    ASSUME IInv, NEW p \in Prefixes, NEW r \in Route,
           Apply(fib_add(trie, pool, p, r))
    PROVE  Table!Install(p, r) \/ Map' = Map
<1>1. CASE /\ FreeSlots(pool) = {}
           /\ p \notin Routed
           /\ pool' = pool
           /\ trie' = [q \in DOMAIN trie' |-> IF q \in DOMAIN trie THEN trie[q] ELSE NULL]
    <2>1. DOMAIN trie \subseteq DOMAIN trie'
        BY AddEffect, ZenonT(60)
    <2>2. Routed' = Routed /\ \A q \in Routed : trie'[q] = trie[q]
        BY <1>1, <2>1, Zenon DEF Routed
    <2> QED
        BY <1>1, <2>2, Zenon DEF Map
<1>2. ASSUME NEW e \in Slots,
             IF p \in Routed THEN e = trie[p] ELSE e \in FreeSlots(pool),
             pool' = [pool EXCEPT ![e] = [in_use |-> TRUE, prefix |-> p, route |-> r]],
             trie' = [q \in DOMAIN trie' |-> IF q = p THEN e
                                             ELSE IF q \in DOMAIN trie THEN trie[q] ELSE NULL]
      PROVE  Table!Install(p, r)
    <2>1. DOMAIN trie \subseteq DOMAIN trie' /\ p \in DOMAIN trie'
        BY AddEffect, ZenonT(60)
    <2>2. e # NULL
        BY FibAssumption DEF Slots, NULL
    <2>3. Routed' = Routed \cup {p}
        BY <1>2, <2>1, <2>2, ZenonT(60) DEF Routed
    <2>4. pool'[trie'[p]].route = r
        BY <1>2, <2>1, Zenon DEF IInv, TypeOK
    <2>5. ASSUME NEW q \in Routed, q # p
          PROVE  pool'[trie'[q]].route = pool[trie[q]].route
        <3>1. trie'[q] = trie[q] /\ trie[q] \in Slots
            BY <1>2, <2>1, <2>5, Zenon DEF Routed, IInv, TypeOK
        <3>2. trie[q] # e
            BY <1>2, <2>5, SMTT(60) DEF Routed, FreeSlots, IInv, PoolMatchesTrie
        <3> QED
            BY <1>2, <3>1, <3>2, Zenon DEF IInv, TypeOK
    <2>6. Map' = [q \in Routed \cup {p} |-> IF q = p THEN r ELSE Map[q]]
        BY <2>3, <2>4, <2>5, Zenon DEF Map
    <2>7. p \in Routed \/ Cardinality(Routed) < FIB_MAX_ROUTES
        BY <1>2, RoomIffFree, Zenon
    <2> QED
        BY <2>6, <2>7, MapDomain, TableForms, Zenon
<1>3. CASE \E e \in Slots :
              /\ IF p \in Routed THEN e = trie[p] ELSE e \in FreeSlots(pool)
              /\ pool' = [pool EXCEPT ![e] = [in_use |-> TRUE, prefix |-> p, route |-> r]]
              /\ trie' = [q \in DOMAIN trie' |-> IF q = p THEN e
                                               ELSE IF q \in DOMAIN trie THEN trie[q] ELSE NULL]
    BY <1>2, <1>3, ZenonT(60)
<1> QED
    BY <1>1, <1>3, AddEffect, ZenonT(60)

\* A fib_del is a Remove of the abstract table, or found nothing.
LEMMA DelRefines ==
    ASSUME IInv, NEW p \in Prefixes, Apply(fib_del(trie, pool, p))
    PROVE  Table!Remove(p) \/ Map' = Map
<1>1. /\ DOMAIN trie' \subseteq DOMAIN trie
      /\ trie' = [q \in DOMAIN trie' |-> IF q = p THEN NULL ELSE trie[q]]
      /\ Routed \ {p} \subseteq DOMAIN trie'
      /\ pool' = IF p \in Routed THEN [pool EXCEPT ![trie[p]] = Free] ELSE pool
    BY DelEffect, Zenon
<1>2. Routed' = Routed \ {p}
    BY <1>1, Zenon DEF Routed
<1>3. ASSUME NEW q \in Routed \ {p}
      PROVE  pool'[trie'[q]] = pool[trie[q]]
    <2>1. trie'[q] = trie[q] /\ trie[q] \in Slots
        BY <1>1, Zenon DEF Routed, IInv, TypeOK
    <2>2. p \in Routed => trie[p] # trie[q]
        BY DEF Routed, IInv, PoolMatchesTrie
    <2> QED
        BY <1>1, <2>1, <2>2, Zenon DEF IInv, TypeOK
<1>4. Map' = [q \in Routed \ {p} |-> Map[q]]
    BY <1>2, <1>3, Zenon DEF Map
<1>5. CASE p \in Routed
    BY <1>4, <1>5, Zenon DEF Table!Remove, Map
<1>6. CASE p \notin Routed
    <2>1. Routed \ {p} = Routed
        BY <1>6, Zenon
    <2> QED
        BY <1>4, <2>1, ZenonT(60) DEF Map
<1> QED
    BY <1>5, <1>6, Zenon

\* The trie and its pool implement the abstract route table, for every
\* width of an address, every pool size and any sequence of calls.
THEOREM Refinement == Spec => ImplementsTable
<1>1. Init => Table!Init
    <2> SUFFICES ASSUME Init PROVE Table!Init
        BY Zenon
    <2>1. Routed = {}
        BY Zenon DEF Init, Empty, Routed
    <2> QED
        BY <2>1, Zenon DEF Table!Init
<1>2. IInv /\ [Next]_vars => [Table!Next]_Map
    <2> SUFFICES ASSUME IInv, [Next]_vars PROVE Table!Next \/ Map' = Map
        BY Zenon
    <2>1. ASSUME NEW ip \in Addr, NEW plen \in 0..W, NEW dev \in Devs, pf_if_set_addr(ip, plen, dev)
          PROVE  Table!Next \/ Map' = Map
        <3> DEFINE p == Mask(ip, plen)
                   r == [next_hop |-> Zero, dev |-> dev, connected |-> TRUE]
        <3>1. p \in Prefixes /\ r \in Route
            BY MaskType, ZeroType, Zenon DEF Route
        <3>2. Apply(fib_add(trie, pool, p, r))
            BY <2>1, Zenon DEF pf_if_set_addr
        <3>3. Table!Install(p, r) \/ Map' = Map
            BY <3>1, <3>2, AddRefines, Zenon
        <3> HIDE DEF p
        <3> QED
            BY <3>1, <3>3, ZenonT(60) DEF Table!Next, Zero, Table!Zero, Prefixes, Table!Prefixes, Bit, Table!Bit
    <2>2. ASSUME NEW prefix \in Addr, NEW nh \in Addr, NEW plen \in 0..W, fib_add_via(prefix, plen, nh)
          PROVE  Table!Next \/ Map' = Map
        <3> DEFINE p == Mask(prefix, plen)
                   e == fib_lookup(trie, nh)
                   via(d) == [next_hop |-> nh, dev |-> d, connected |-> FALSE]
        <3>1. /\ e # NULL /\ pool[e].route.connected
              /\ trie' = fib_add(trie, pool, p, via(pool[e].route.dev)).trie
              /\ pool' = fib_add(trie, pool, p, via(pool[e].route.dev)).pool
            BY <2>2, Zenon DEF fib_add_via, Apply
        <3>2. /\ pool[e].prefix \in Routed
              /\ Table!IsLongest(pool[e].prefix, nh)
              /\ Map[pool[e].prefix] = pool[e].route
              /\ pool[e].route \in Route
            BY <3>1, LookupInMap, Zenon
        <3> HIDE DEF e
        <3>3. PICK q \in Routed, d \in Devs :
                 /\ q = pool[e].prefix
                 /\ d = pool[e].route.dev
            BY <3>2, Zenon DEF Route
        <3>4. p \in Prefixes /\ via(d) \in Route
            BY MaskType, Zenon DEF Route
        <3> HIDE DEF p
        <3>5. Apply(fib_add(trie, pool, p, via(d)))
            BY <3>1, <3>3, Zenon DEF Apply
        <3>6. Table!Install(p, via(d)) \/ Map' = Map
            BY <3>4, <3>5, AddRefines, Zenon
        <3>7. ASSUME Table!Install(p, via(d))
              PROVE  Table!InstallVia(p, nh)
            <4>1. /\ q \in DOMAIN Map
                  /\ Table!IsLongest(q, nh)
                  /\ Map[q].connected
                  /\ Map[q].dev = d
                BY <3>1, <3>2, <3>3, MapDomain, Zenon
            <4>2. Table!Install(p, via(Map[q].dev))
                BY <3>7, <4>1, ZenonT(60) DEF Table!Install
            <4> QED
                BY <4>1, <4>2, TableForms, ZenonT(60)
        <3> QED
            <4>1. \E pp \in Table!Prefixes, n \in Table!Addr : Table!InstallVia(pp, n)
                  \/ Map' = Map
                BY Zenon, <3>4, <3>6, <3>7
                   DEF Prefixes, Table!Prefixes, Addr, Table!Addr, Bit, Table!Bit
            <4> QED
                BY <4>1, Zenon DEF Table!Next
    <2>3. ASSUME NEW prefix \in Addr, NEW plen \in 0..W, del_route(prefix, plen)
          PROVE  Table!Next \/ Map' = Map
        <3>1. Mask(prefix, plen) \in Prefixes
            BY MaskType, Zenon
        <3>2. Table!Remove(Mask(prefix, plen)) \/ Map' = Map
            BY <2>3, <3>1, DelRefines, Zenon DEF del_route
        <3> QED
            BY <3>1, <3>2, Zenon DEF Table!Next, Prefixes, Table!Prefixes, Bit, Table!Bit
    <2>4. CASE fib_fini
        <3>1. Routed' = {}
            BY <2>4, Zenon DEF fib_fini, Empty, Routed
        <3> QED
            BY <3>1, Zenon DEF Table!Next
    <2>5. CASE UNCHANGED vars
        BY <2>5, Zenon DEF vars, Map, Routed
    <2> QED
        BY <2>1, <2>2, <2>3, <2>4, <2>5, CommandCalls, Zenon DEF Next
<1> QED
    BY <1>1, <1>2, IInvariant, PTL DEF Spec, ImplementsTable, Table!Spec, Map
=============================================================================
