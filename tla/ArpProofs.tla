----------------------------- MODULE ArpProofs ------------------------------
(* Proofs about ArpCache for every table size, queue bound, timing and set *)
(* of neighbours.                                                          *)
EXTENDS ArpCache, TLAPS

\* An element of a sequence.
LEMMA SeqElement == ASSUME NEW S, NEW s \in Seq(S), NEW i \in 1..Len(s) PROVE s[i] \in S
  OBVIOUS

\* The concatenation of two sequences.
LEMMA SeqConcat ==
  ASSUME NEW S, NEW s \in Seq(S), NEW t \in Seq(S)
  PROVE  /\ s \o t \in Seq(S)
         /\ Len(s \o t) = Len(s) + Len(t)
         /\ \A i \in 1..(Len(s) + Len(t)) : (s \o t)[i] = IF i <= Len(s) THEN s[i] ELSE t[i - Len(s)]
  OBVIOUS

\* The first element and the others.
LEMMA SeqTail ==
  ASSUME NEW S, NEW s \in Seq(S), s # <<>>
  PROVE  /\ Head(s) \in S
         /\ Tail(s) \in Seq(S)
         /\ Len(Tail(s)) = Len(s) - 1
         /\ \A i \in 1..Len(Tail(s)) : Tail(s)[i] = s[i + 1]
  OBVIOUS

\* One more element.
LEMMA SeqAppend ==
  ASSUME NEW S, NEW s \in Seq(S), NEW x \in S
  PROVE  /\ Append(s, x) \in Seq(S)
         /\ Len(Append(s, x)) = Len(s) + 1
         /\ \A i \in 1..Len(s) : Append(s, x)[i] = s[i]
         /\ Append(s, x)[Len(s) + 1] = x
  OBVIOUS

\* Two numbers are ordered one way.
LEMMA Trichotomy ==
  ASSUME NEW a \in Nat, NEW b \in Nat
  PROVE  /\ a <= b \/ a > b
         /\ a < b => a # b
         /\ a < b => ~(b < a)
         /\ a # b => a < b \/ b < a
  OBVIOUS

\* No number is below itself.
LEMMA Irreflexive == ASSUME NEW a \in Int PROVE ~(a < a)
  OBVIOUS

\* The shortest intervals.
LEMMA OneTo == (\A k : k \notin 1..0) /\ (\A k \in 1..1 : k = 1)
  OBVIOUS

Entry == [state : States, ip : Hops \cup {None}, mac : Macs \cup {None},
          dev : Devs \cup {None}, tries : 0..ARP_PENDING_MAX_TRIES,
          left : Int, waitq : Seq(Pkts)]

Frame == [pkt : Pkts, hop : Hops, mac : Macs \cup {None}, dev : Devs]

-----------------------------------------------------------------------------
(* Lemmas about the operators on one entry.                                *)

\* The elements of a queue of packets are packets.
LEMMA ElemsType == ASSUME NEW q \in Seq(Pkts) PROVE Elems(q) \subseteq Pkts
  BY DEF Elems

\* A cleared entry is an entry.
LEMMA FreeEntryType == FreeEntry \in Entry
  BY ArpConstants DEF FreeEntry, Entry, States

\* Parking a packet keeps the entry well-formed, touches only its queue and
\* respects ARP_WAITQ_MAX; only the oldest packet can overflow.
LEMMA ParkLemma ==
  ASSUME NEW e \in Entry, NEW p \in Pkts, Len(e.waitq) <= ARP_WAITQ_MAX
  PROVE  /\ Park(e, p) \in Entry
         /\ Park(e, p).state = e.state
         /\ Park(e, p).ip = e.ip
         /\ Park(e, p).mac = e.mac
         /\ Len(Park(e, p).waitq) <= ARP_WAITQ_MAX
         /\ Overflow(e) \subseteq Pkts
  <1> DEFINE q == IF Len(e.waitq) >= ARP_WAITQ_MAX THEN Tail(e.waitq) ELSE e.waitq
  <1>1. e.waitq \in Seq(Pkts)
    BY Zenon DEF Entry
  <1>2. /\ q \in Seq(Pkts)
        /\ Len(q) + 1 <= ARP_WAITQ_MAX
        /\ Len(e.waitq) >= ARP_WAITQ_MAX => Head(e.waitq) \in Pkts
    <2>1. CASE Len(e.waitq) >= ARP_WAITQ_MAX
      <3>1. e.waitq # <<>>
        BY <1>1, <2>1, ArpConstants
      <3>2. QED
        BY <1>1, <2>1, <3>1, SeqTail, ArpConstants
    <2>2. CASE ~(Len(e.waitq) >= ARP_WAITQ_MAX)
      BY <1>1, <2>2, ArpConstants
    <2>3. QED
      BY <2>1, <2>2, Zenon
  <1>3. /\ Append(q, p) \in Seq(Pkts)
        /\ Len(Append(q, p)) = Len(q) + 1
    BY <1>2
  <1>4. Park(e, p) = [e EXCEPT !.waitq = Append(q, p)]
    BY Zenon DEF Park
  <1> HIDE DEF q
  <1>5. QED
    BY <1>1, <1>2, <1>3, <1>4, ZenonT(60) DEF Entry, Overflow

\* Resolving an entry keeps it well-formed and empties its queue.
LEMMA ResolveLemma ==
  ASSUME NEW e \in Entry, NEW dev \in Devs, NEW mac \in Macs,
         e.state # "PENDING" => e.waitq = <<>>
  PROVE  /\ arp_entry_resolve(e, dev, mac) \in Entry
         /\ arp_entry_resolve(e, dev, mac).state = "RESOLVED"
         /\ arp_entry_resolve(e, dev, mac).ip = e.ip
         /\ arp_entry_resolve(e, dev, mac).mac = mac
         /\ arp_entry_resolve(e, dev, mac).waitq = <<>>
  <1>1. arp_entry_resolve(e, dev, mac) =
          [e EXCEPT !.state = "RESOLVED", !.mac = mac, !.dev = dev,
                    !.left = ARP_CACHE_TTL, !.tries = 0, !.waitq = <<>>]
    BY ZenonT(60) DEF Entry, arp_entry_resolve
  <1>2. /\ <<>> \in Seq(Pkts)
        /\ ARP_CACHE_TTL \in Int
        /\ 0 \in 0..ARP_PENDING_MAX_TRIES
        /\ "RESOLVED" \in States
    BY ArpConstants DEF States
  <1>3. QED
    BY <1>1, <1>2, ZenonT(60) DEF Entry

\* The frames a flush transmits are addressed to the hop and the address.
LEMMA FlushLemma ==
  ASSUME NEW e \in Entry, NEW ip \in Hops, NEW dev \in Devs, NEW mac \in Macs
  PROVE  /\ Flushed(e, ip, dev, mac) \in Seq(Frame)
         /\ \A k \in 1..Len(Flushed(e, ip, dev, mac)) :
               /\ Flushed(e, ip, dev, mac)[k].hop = ip
               /\ Flushed(e, ip, dev, mac)[k].mac = mac
  <1>1. e.waitq \in Seq(Pkts)
    BY Zenon DEF Entry
  <1> DEFINE t == Transmit(e.waitq, ip, mac, dev)
  <1>2. /\ t \in Seq(Frame)
        /\ \A k \in 1..Len(t) : t[k].hop = ip /\ t[k].mac = mac
    BY <1>1 DEF Transmit, Frame
  <1>3. QED
    BY <1>2 DEF Flushed

\* One entry under the tick: well-formed, never a new address or binding,
\* and nothing left behind in a slot that becomes FREE.
LEMMA TickLemma ==
  ASSUME NEW e \in Entry, e.state # "PENDING" => e.waitq = <<>>,
         Len(e.waitq) <= ARP_WAITQ_MAX
  PROVE  /\ TickEntry(e) \in Entry
         /\ TickEntry(e).state # "FREE" =>
               /\ TickEntry(e).state = e.state
               /\ TickEntry(e).ip = e.ip
               /\ TickEntry(e).mac = e.mac
         /\ TickEntry(e).state # "PENDING" => TickEntry(e).waitq = <<>>
         /\ Len(TickEntry(e).waitq) <= ARP_WAITQ_MAX
  <1>1. CASE ~Due(e)
    BY <1>1, Zenon DEF TickEntry
  <1>2. CASE Due(e) /\ e.state = "RESOLVED"
    BY <1>2, FreeEntryType, ArpConstants, Zenon DEF TickEntry, Freed, FreeEntry, Entry
  <1>3. CASE Due(e) /\ e.state = "PENDING" /\ GivesUp(e)
    BY <1>3, FreeEntryType, ArpConstants DEF TickEntry, FreeEntry
  <1>4. CASE Due(e) /\ e.state = "PENDING" /\ ~GivesUp(e)
    <2>1. TickEntry(e) = [e EXCEPT !.tries = e.tries + 1, !.left = ARP_PENDING_RETRY]
      BY <1>4, Zenon DEF TickEntry
    <2>2. /\ e.tries + 1 \in 0..ARP_PENDING_MAX_TRIES
          /\ ARP_PENDING_RETRY \in Int
      BY <1>4, ArpConstants DEF GivesUp, Entry
    <2>3. QED
      BY <1>4, <2>1, <2>2, ZenonT(60) DEF Entry
  <1>5. QED
    BY <1>1, <1>2, <1>3, <1>4, Zenon DEF Due, Entry, States

-----------------------------------------------------------------------------
(* The invariant holds initially and every step preserves it.              *)

\* The empty cache satisfies the invariant.
LEMMA InitLemma == Init => IInv
  <1> SUFFICES ASSUME Init PROVE IInv
    BY Zenon
  <1>1. \A i \in Slots : entries[i] = FreeEntry
    BY Zenon DEF Init, arp_init
  <1>2. TypeOK
    BY FreeEntryType, ArpConstants DEF Init, arp_init, TypeOK, Entry, Pkts
  <1>3. AddressSet /\ UniqueAddress /\ LatestBinding
    BY <1>1 DEF AddressSet, UniqueAddress, LatestBinding, FreeEntry
  <1>4. ParkedOnlyPending
    BY <1>1, ArpConstants DEF ParkedOnlyPending, FreeEntry
  <1>5. QED
    BY <1>2, <1>3, <1>4, Zenon DEF IInv

\* arp_resolve preserves the invariant.
LEMMA ResolveStep ==
  ASSUME IInv, NEW hop \in Hops, NEW dev \in Devs, arp_resolve(hop, dev)
  PROVE  IInv'
  <1> USE DEF IInv
  <1>1. /\ entries \in [Slots -> Entry]
        /\ nextPkt \in Pkts
        /\ nextPkt' \in 1..(MaxPkts + 1)
        /\ heard' = heard
    BY ArpConstants, SMTT(60) DEF TypeOK, Entry, arp_resolve, Pkts
  <1>2. PICK i \in Slots :
          \/ arp_lookup(i, hop) /\ resolve_hit(i, dev)
          \/ arp_lookup(i, hop) /\ resolve_pending(i)
          \/ NoEntry(hop) /\ arp_alloc_entry(i) /\ resolve_miss(i, hop, dev)
    BY Zenon DEF arp_resolve
  <1>3. entries[i] \in Entry /\ Len(entries[i].waitq) <= ARP_WAITQ_MAX
    BY <1>1, Zenon DEF ParkedOnlyPending
  <1>4. CASE arp_lookup(i, hop) /\ resolve_hit(i, dev)
    <2>1. sent' \in Seq(Frame)
      BY <1>1, <1>3, <1>4 DEF TypeOK, resolve_hit, arp_lookup, Holds, Frame, Entry
    <2>2. TypeOK'
      BY <1>1, <1>4, <2>1, Zenon DEF TypeOK, resolve_hit, Frame
    <2>3. QED
      BY Zenon, <1>1, <1>4, <2>2
         DEF resolve_hit, AddressSet, UniqueAddress, ParkedOnlyPending, LatestBinding
  <1>5. CASE arp_lookup(i, hop) /\ resolve_pending(i)
    <2> DEFINE e == Park(entries[i], nextPkt)
    <2>1. /\ e \in Entry
          /\ e.state = "PENDING"
          /\ e.ip = entries[i].ip
          /\ Len(e.waitq) <= ARP_WAITQ_MAX
          /\ Overflow(entries[i]) \subseteq Pkts
      BY <1>1, <1>3, <1>5, ParkLemma, Zenon DEF resolve_pending
    <2>2. entries' = [entries EXCEPT ![i] = e]
      BY <1>5, Zenon DEF resolve_pending
    <2> HIDE DEF e
    <2>3. TypeOK'
      BY <1>1, <1>5, <2>1, <2>2, ZenonT(60) DEF TypeOK, Entry, resolve_pending
    <2>4. QED
      BY <1>1, <1>5, <2>1, <2>2, <2>3
         DEF resolve_pending, AddressSet, UniqueAddress, ParkedOnlyPending, LatestBinding
  <1>6. CASE NoEntry(hop) /\ arp_alloc_entry(i) /\ resolve_miss(i, hop, dev)
    <2> DEFINE b == [Reclaimed(i) EXCEPT !.state = "PENDING", !.ip = hop, !.dev = dev,
                                         !.tries = 1, !.left = ARP_PENDING_RETRY]
               e == Park(b, nextPkt)
    <2>1. /\ Reclaimed(i) \in Entry
          /\ Len(Reclaimed(i).waitq) <= ARP_WAITQ_MAX
      BY <1>3, FreeEntryType, ArpConstants DEF Reclaimed, FreeEntry
    <2>2. /\ b \in Entry
          /\ b.state = "PENDING"
          /\ b.ip = hop
          /\ Len(b.waitq) <= ARP_WAITQ_MAX
      <3>1. /\ 1 \in 0..ARP_PENDING_MAX_TRIES
            /\ ARP_PENDING_RETRY \in Int
            /\ "PENDING" \in States
        BY ArpConstants DEF States
      <3>2. QED
        BY <2>1, <3>1, ZenonT(60) DEF Entry
    <2>3. entries' = [entries EXCEPT ![i] = e]
      BY <1>6, Zenon DEF resolve_miss
    <2>4. /\ dropped' = dropped \cup Evicted(i) \cup Overflow(b)
          /\ sent' = sent
      BY <1>6, Zenon DEF resolve_miss
    <2> HIDE DEF b
    <2>5. /\ e \in Entry
          /\ e.state = "PENDING"
          /\ e.ip = hop
          /\ Len(e.waitq) <= ARP_WAITQ_MAX
          /\ Overflow(b) \subseteq Pkts
      BY <1>1, <2>2, ParkLemma, Zenon
    <2> HIDE DEF e
    <2>6. Evicted(i) \subseteq Pkts
      BY <1>3, ElemsType, Zenon DEF Evicted, Entry
    <2>7. TypeOK'
      BY <1>1, <2>3, <2>4, <2>5, <2>6, ZenonT(60) DEF TypeOK, Entry
    <2>8. UniqueAddress'
      BY <1>1, <1>6, <2>3, <2>5, Zenon DEF UniqueAddress, NoEntry, Holds
    <2>9. QED
      BY Zenon, <1>1, <2>3, <2>5, <2>7, <2>8
         DEF AddressSet, ParkedOnlyPending, LatestBinding
  <1>7. QED
    BY <1>2, <1>4, <1>5, <1>6, Zenon

\* arp_input preserves the invariant, and whatever it flushes goes to the
\* address just announced.
LEMMA InputStep ==
  ASSUME IInv, NEW spa \in Hops, NEW sha \in Macs, NEW dev \in Devs,
         NEW for_us \in BOOLEAN, arp_input(spa, sha, dev, for_us)
  PROVE  IInv'
  <1> USE DEF IInv
  <1>1. /\ entries \in [Slots -> Entry]
        /\ heard' = [heard EXCEPT ![spa] = sha]
        /\ nextPkt' = nextPkt
    BY Zenon DEF TypeOK, Entry, arp_input
  <1>2. heard' \in [Hops -> Macs \cup {None}]
    BY <1>1, Zenon DEF TypeOK
  <1>3. CASE \E i \in Slots : arp_lookup(i, spa) /\ merge_update(i, spa, sha, dev)
    <2>1. PICK i \in Slots : arp_lookup(i, spa) /\ merge_update(i, spa, sha, dev)
      BY <1>3, Zenon
    <2> DEFINE e == arp_entry_resolve(entries[i], dev, sha)
    <2>2. /\ e \in Entry
          /\ e.state = "RESOLVED"
          /\ e.ip = entries[i].ip
          /\ e.mac = sha
          /\ e.waitq = <<>>
      BY <1>1, ResolveLemma, Zenon DEF ParkedOnlyPending
    <2>3. /\ entries' = [entries EXCEPT ![i] = e]
          /\ dropped' = dropped
          /\ sent' = sent \o Flushed(entries[i], spa, dev, sha)
          /\ entries[i].state # "FREE"
          /\ entries[i].ip = spa
      BY <2>1, Zenon DEF merge_update, arp_lookup, Holds
    <2> HIDE DEF e
    <2>4. sent' \in Seq(Frame)
      <3>1. sent \in Seq(Frame) /\ entries[i] \in Entry
        BY <1>1, Zenon DEF TypeOK, Frame
      <3>2. Flushed(entries[i], spa, dev, sha) \in Seq(Frame)
        BY <3>1, FlushLemma, Zenon
      <3>3. QED
        BY <2>3, <3>1, <3>2
    <2>5. TypeOK'
      BY <1>1, <1>2, <2>2, <2>3, <2>4, Zenon DEF TypeOK, Entry, Frame
    <2>6. LatestBinding'
      BY <1>1, <2>2, <2>3, Zenon DEF LatestBinding, UniqueAddress, AddressSet, TypeOK
    <2>7. ParkedOnlyPending'
      BY <1>1, <2>2, <2>3, ArpConstants DEF ParkedOnlyPending
    <2>8. QED
      BY <1>1, <2>2, <2>3, <2>5, <2>6, <2>7 DEF AddressSet, UniqueAddress
  <1>4. CASE /\ NoEntry(spa)
             /\ \E i \in Slots : arp_alloc_entry(i) /\ merge_create(i, spa, sha, dev)
    <2>1. PICK i \in Slots : arp_alloc_entry(i) /\ merge_create(i, spa, sha, dev)
      BY <1>4, Zenon
    <2> DEFINE b == [Reclaimed(i) EXCEPT !.ip = spa]
               e == arp_entry_resolve(b, dev, sha)
    <2>2. /\ Reclaimed(i) \in Entry
          /\ Reclaimed(i).state = "FREE"
          /\ Reclaimed(i).waitq = <<>>
      BY <1>1, FreeEntryType, Zenon DEF Reclaimed, FreeEntry, ParkedOnlyPending
    <2>3. b \in Entry /\ b.waitq = <<>> /\ b.ip = spa
      BY <2>2, Zenon DEF Entry
    <2>4. /\ entries' = [entries EXCEPT ![i] = e]
          /\ dropped' = dropped \cup Evicted(i)
          /\ sent' = sent
      BY <2>1, Zenon DEF merge_create
    <2> HIDE DEF b
    <2>5. /\ e \in Entry
          /\ e.state = "RESOLVED"
          /\ e.ip = spa
          /\ e.mac = sha
          /\ e.waitq = <<>>
      BY <2>3, ResolveLemma, ZenonT(60)
    <2> HIDE DEF e
    <2>6. Evicted(i) \subseteq Pkts
      BY <1>1, ElemsType, Zenon DEF Evicted, Entry
    <2>7. TypeOK'
      BY <1>1, <1>2, <2>4, <2>5, <2>6, Zenon DEF TypeOK, Entry
    <2>8. UniqueAddress' /\ LatestBinding'
      BY Zenon, <1>1, <1>4, <2>4, <2>5
         DEF UniqueAddress, LatestBinding, AddressSet, NoEntry, Holds, TypeOK
    <2>9. ParkedOnlyPending'
      BY <1>1, <2>4, <2>5, ArpConstants DEF ParkedOnlyPending
    <2>10. QED
      BY <1>1, <2>4, <2>5, <2>7, <2>8, <2>9, Zenon DEF AddressSet
  <1>5. CASE NoEntry(spa) /\ UNCHANGED <<entries, sent, dropped>>
    <2>1. TypeOK'
      BY <1>1, <1>2, <1>5, Zenon DEF TypeOK
    <2>2. LatestBinding'
      BY <1>1, <1>5, Zenon DEF LatestBinding, AddressSet, NoEntry, Holds, TypeOK
    <2>3. QED
      BY <1>5, <2>1, <2>2, Zenon DEF AddressSet, UniqueAddress, ParkedOnlyPending
  <1>6. QED
    BY <1>3, <1>4, <1>5, Zenon DEF arp_input

\* arp_tick preserves the invariant.
LEMMA TickStep == ASSUME IInv, arp_tick PROVE IInv'
  <1> USE DEF IInv
  <1>1. /\ entries \in [Slots -> Entry]
        /\ entries' = [i \in Slots |-> TickEntry(entries[i])]
    BY Zenon DEF TypeOK, Entry, arp_tick
  <1>2. \A i \in Slots :
          /\ entries'[i] \in Entry
          /\ entries'[i].state # "FREE" =>
                /\ entries'[i].state = entries[i].state
                /\ entries'[i].ip = entries[i].ip
                /\ entries'[i].mac = entries[i].mac
          /\ entries'[i].state # "PENDING" => entries'[i].waitq = <<>>
          /\ Len(entries'[i].waitq) <= ARP_WAITQ_MAX
    BY <1>1, TickLemma, Zenon DEF ParkedOnlyPending
  <1>3. Abandoned \subseteq Pkts
    BY <1>1, ElemsType, Zenon DEF Abandoned, Entry
  <1>4. TypeOK'
    BY <1>1, <1>2, <1>3, Zenon DEF TypeOK, arp_tick, Entry
  <1>5. QED
    BY <1>2, <1>4
       DEF arp_tick, AddressSet, UniqueAddress, ParkedOnlyPending, LatestBinding

\* The passage of time preserves the invariant.
LEMMA AdvanceStep == ASSUME IInv, Advance PROVE IInv'
  <1> USE DEF IInv
  <1>1. entries \in [Slots -> Entry]
    BY Zenon DEF TypeOK, Entry
  <1>2. \A i \in Slots :
          /\ entries'[i] \in Entry
          /\ entries'[i].state = entries[i].state
          /\ entries'[i].ip = entries[i].ip
          /\ entries'[i].mac = entries[i].mac
          /\ entries'[i].waitq = entries[i].waitq
    <2> SUFFICES ASSUME NEW i \in Slots
                 PROVE  LET e == Elapse(entries[i]) IN
                        /\ e \in Entry
                        /\ e.state = entries[i].state
                        /\ e.ip = entries[i].ip
                        /\ e.mac = entries[i].mac
                        /\ e.waitq = entries[i].waitq
      BY Zenon DEF Advance
    <2>1. entries[i] \in Entry /\ entries[i].left - 1 \in Int
      BY <1>1 DEF Entry
    <2>2. QED
      BY <2>1, Zenon DEF Elapse, Entry
  <1>3. TypeOK'
    BY <1>1, <1>2, Zenon DEF TypeOK, Advance, Entry
  <1>4. QED
    BY <1>2, <1>3
       DEF Advance, AddressSet, UniqueAddress, ParkedOnlyPending, LatestBinding

\* Every step keeps the inductive invariant, one case per operation of arp.c.
LEMMA NextStep == IInv /\ [Next]_vars => IInv'
  <1> SUFFICES ASSUME IInv, [Next]_vars PROVE IInv'
    BY Zenon
  <1>1. CASE UNCHANGED vars
    BY Zenon, <1>1 DEF vars, IInv, TypeOK, AddressSet, UniqueAddress, ParkedOnlyPending,
                LatestBinding
  <1>2. CASE Next
    BY <1>2, ResolveStep, InputStep, TickStep, AdvanceStep, ArpConstants DEF Next
  <1>3. QED
    BY <1>1, <1>2, Zenon

-----------------------------------------------------------------------------
(* Theorems.                                                               *)

\* The invariant holds in every reachable state of the cache.
THEOREM Invariance == Spec => []IInv
  <1>1. QED
    BY InitLemma, NextStep, PTL DEF Spec

\* Every variable of the cache keeps its type whatever the sizes.
THEOREM TypeCorrect == Spec => []TypeOK
  <1>1. IInv => TypeOK
    BY Zenon DEF IInv
  <1>2. QED
    BY <1>1, Invariance, PTL

\* Two entries in use never hold the same next-hop address, so the slot
\* order of arp_lookup does not matter.
THEOREM AddressUnique == Spec => []UniqueAddress
  <1>1. IInv => UniqueAddress
    BY Zenon DEF IInv
  <1>2. QED
    BY <1>1, Invariance, PTL

\* Packets wait only behind a pending resolution, at most ARP_WAITQ_MAX of
\* them, so arp_alloc_entry never hands out a slot that still owns packets.
THEOREM QueuesBounded == Spec => []ParkedOnlyPending
  <1>1. IInv => ParkedOnlyPending
    BY Zenon DEF IInv
  <1>2. QED
    BY <1>1, Invariance, PTL

\* A resolved entry always carries the address last announced.
THEOREM BindingCurrent == Spec => []LatestBinding
  <1>1. IInv => LatestBinding
    BY Zenon DEF IInv
  <1>2. QED
    BY <1>1, Invariance, PTL

-----------------------------------------------------------------------------
(* The action property SentToLatestBinding.                                *)

NewFramesCurrent ==
    \A k \in 1..Len(sent') :
        k > Len(sent) => sent'[k].mac = heard'[sent'[k].hop]

\* A packet sent at once takes the address of the resolved entry, a parked
\* one the address of the frame that resolves it; nothing else transmits.
LEMMA SendStep == IInv /\ [Next]_vars => [NewFramesCurrent]_vars
  <1> SUFFICES ASSUME IInv, Next PROVE NewFramesCurrent
    BY Zenon DEF vars
  <1> USE DEF NewFramesCurrent
  <1>1. /\ entries \in [Slots -> Entry]
        /\ sent \in Seq(Frame)
        /\ heard \in [Hops -> Macs \cup {None}]
    BY Zenon DEF IInv, TypeOK, Entry, Frame
  <1>2. ASSUME sent' = sent PROVE NewFramesCurrent
    BY <1>1, <1>2, SMTT(60)
  <1>3. ASSUME NEW hop \in Hops, NEW dev \in Devs, arp_resolve(hop, dev)
        PROVE  NewFramesCurrent
    <2>1. PICK i \in Slots :
            \/ arp_lookup(i, hop) /\ resolve_hit(i, dev)
            \/ resolve_pending(i)
            \/ resolve_miss(i, hop, dev)
      BY <1>3, Zenon DEF arp_resolve
    <2>2. CASE arp_lookup(i, hop) /\ resolve_hit(i, dev)
      <3> DEFINE f == [pkt |-> nextPkt, hop |-> entries[i].ip,
                       mac |-> entries[i].mac, dev |-> dev]
      <3>1. sent' = Append(sent, f) /\ heard' = heard
        BY <1>3, <2>2, Zenon DEF resolve_hit, arp_resolve
      <3>2. f.mac = heard[f.hop]
        BY <2>2, Zenon DEF resolve_hit, IInv, LatestBinding
      <3> HIDE DEF f
      <3>3. QED
        BY <1>1, <3>1, <3>2
    <2>3. CASE resolve_pending(i)
      BY <1>2, <2>3, Zenon DEF resolve_pending
    <2>4. CASE resolve_miss(i, hop, dev)
      BY <1>2, <2>4, Zenon DEF resolve_miss
    <2>5. QED
      BY <2>1, <2>2, <2>3, <2>4, Zenon
  <1>4. ASSUME NEW spa \in Hops, NEW sha \in Macs, NEW dev \in Devs, NEW for_us \in BOOLEAN,
               arp_input(spa, sha, dev, for_us)
        PROVE  NewFramesCurrent
    <2>1. CASE \E i \in Slots : merge_update(i, spa, sha, dev)
      <3>1. PICK i \in Slots : merge_update(i, spa, sha, dev)
        BY <2>1, Zenon
      <3> DEFINE fs == Flushed(entries[i], spa, dev, sha)
      <3>2. sent' = sent \o fs /\ heard'[spa] = sha
        BY <1>1, <1>4, <3>1, Zenon DEF merge_update, arp_input
      <3>3. /\ fs \in Seq(Frame)
            /\ \A k \in 1..Len(fs) : fs[k].hop = spa /\ fs[k].mac = sha
        BY <1>1, FlushLemma
      <3> HIDE DEF fs
      <3>4. \A k \in 1..Len(sent') : k > Len(sent) =>
              /\ k - Len(sent) \in 1..Len(fs)
              /\ sent'[k] = fs[k - Len(sent)]
        BY <1>1, <3>2, <3>3
      <3>5. QED
        BY <3>2, <3>3, <3>4, Zenon
    <2>2. CASE \E i \in Slots : merge_create(i, spa, sha, dev)
      BY <1>2, <2>2, Zenon DEF merge_create
    <2>3. CASE UNCHANGED <<entries, sent, dropped>>
      BY <1>2, <2>3, Zenon
    <2>4. QED
      BY <1>4, <2>1, <2>2, <2>3, Zenon DEF arp_input
  <1>5. CASE arp_tick
    BY <1>2, <1>5, Zenon DEF arp_tick
  <1>6. CASE Advance
    BY <1>2, <1>6, Zenon DEF Advance
  <1>7. QED
    BY <1>3, <1>4, <1>5, <1>6, ArpConstants DEF Next

\* No packet ever leaves for a hardware address its next hop has superseded,
\* however long it was parked and however often the address changed.
THEOREM SendsCurrent == Spec => SentToLatestBinding
  <1>1. Spec => [][NewFramesCurrent]_vars
    BY Invariance, SendStep, PTL DEF Spec
  <1>2. QED
    BY <1>1, Zenon DEF SentToLatestBinding, NewFramesCurrent

-----------------------------------------------------------------------------
(* What becomes of a packet: PacketConserved and FifoPerHop.  The facts    *)
(* are stated of the queues Q, the addresses A they wait for, the frames   *)
(* S sent, the set D dropped and the number n of the next packet.          *)

\* Packets on one queue are in the order they were handed over, all of them
\* later than any packet already sent to the same hop; no packet is on two
\* queues, or on a queue and sent or dropped.
QueuesOrdered(Q, A, S, D, n) ==
    \A i \in Slots : \A k \in 1..Len(Q[i]) :
        /\ Q[i][k] < n
        /\ Q[i][k] \notin D
        /\ \A l \in 1..Len(Q[i]) : k < l => Q[i][k] < Q[i][l]
        /\ \A j \in Slots : \A l \in 1..Len(Q[j]) : Q[j][l] = Q[i][k] => i = j
        /\ \A s \in 1..Len(S) :
              /\ S[s].pkt # Q[i][k]
              /\ S[s].hop = A[i] => S[s].pkt < Q[i][k]

\* No packet is sent twice, or sent and dropped, and the frames for one hop
\* are in the order of the packets.
SentOnce(S, D, n) ==
    \A s \in 1..Len(S) :
        /\ S[s].pkt < n
        /\ S[s].pkt \notin D
        /\ \A t \in 1..Len(S) : s # t => S[s].pkt # S[t].pkt
        /\ \A t \in 1..Len(S) : (s < t /\ S[s].hop = S[t].hop) => S[s].pkt < S[t].pkt

\* Every packet handed over is somewhere.
NoneForgotten(Q, S, D, n) ==
    /\ \A p \in D : p < n
    /\ \A p \in 1..(n - 1) :
          \/ p \in D
          \/ \E i \in Slots : \E k \in 1..Len(Q[i]) : Q[i][k] = p
          \/ \E s \in 1..Len(S) : S[s].pkt = p

\* All packets are accounted for.
Placed(Q, A, S, D, n) ==
    /\ Q \in [Slots -> Seq(Pkts)]
    /\ S \in Seq(Frame)
    /\ D \in SUBSET Pkts
    /\ n \in Nat
    /\ QueuesOrdered(Q, A, S, D, n)
    /\ SentOnce(S, D, n)
    /\ NoneForgotten(Q, S, D, n)

\* The addresses of the queues in use are the same before and after.
SameHops(Q, A, B) == \A i \in Slots : Q[i] # <<>> => A[i] = B[i]

Queues == [i \in Slots |-> entries[i].waitq]
Addresses == [i \in Slots |-> entries[i].ip]

\* The inductive invariant behind PacketConserved and FifoPerHop.
PInv == Placed(Queues, Addresses, sent, dropped, nextPkt)

\* The empty cache satisfies it.
LEMMA FateInit == Init => PInv
  <1> SUFFICES ASSUME Init PROVE PInv
    BY Zenon
  <1>1. Queues \in [Slots -> Seq(Pkts)] /\ \A i \in Slots : Len(Queues[i]) = 0
    BY DEF Init, arp_init, Queues, FreeEntry
  <1>2. Len(sent) = 0 /\ nextPkt = 1 /\ dropped = {} /\ sent \in Seq(Frame)
    BY DEF Init
  <1>3. QED
    BY <1>1, <1>2 DEF PInv, Placed, QueuesOrdered, SentOnce, NoneForgotten

\* Queues that lose their d[i] oldest packets and get nothing new.
Shifted(Q, R, d) ==
    \A i \in Slots :
        /\ d[i] \in 0..Len(Q[i])
        /\ Len(R[i]) = Len(Q[i]) - d[i]
        /\ \A k \in 1..Len(R[i]) : R[i][k] = Q[i][k + d[i]]

\* The d[i] oldest packets of each queue.
Oldest(Q, d) == {p \in Pkts : \E i \in Slots : \E k \in 1..d[i] : Q[i][k] = p}

\* Packet n is appended to queue h, the others stay.
Appended(Q, R, h, n) == R[h] = Append(Q[h], n) /\ \A i \in Slots : i # h => R[i] = Q[i]

\* What the order of the queues says of the parked packets.
LEMMA OrderedAt ==
  ASSUME NEW Q, NEW A, NEW S, NEW D, NEW n, Placed(Q, A, S, D, n)
  PROVE  /\ \A i \in Slots : \A k \in 1..Len(Q[i]) : Q[i][k] < n /\ Q[i][k] \notin D
         /\ \A i \in Slots : \A k, l \in 1..Len(Q[i]) : k < l => Q[i][k] < Q[i][l]
         /\ \A i, j \in Slots : \A k \in 1..Len(Q[i]) : \A l \in 1..Len(Q[j]) :
               Q[j][l] = Q[i][k] => i = j
         /\ \A i \in Slots : \A k \in 1..Len(Q[i]) : \A s \in 1..Len(S) :
               /\ S[s].pkt # Q[i][k]
               /\ S[s].hop = A[i] => S[s].pkt < Q[i][k]
  <1>1. QueuesOrdered(Q, A, S, D, n)
    BY Zenon DEF Placed
  <1>2. QED
    BY <1>1, Zenon DEF QueuesOrdered

\* What the order of the frames says of one of them.
LEMMA SentAt ==
  ASSUME NEW Q, NEW A, NEW S, NEW D, NEW n, Placed(Q, A, S, D, n), NEW s \in 1..Len(S)
  PROVE  /\ S[s].pkt < n
         /\ S[s].pkt \notin D
         /\ \A t \in 1..Len(S) : s # t => S[s].pkt # S[t].pkt
         /\ \A t \in 1..Len(S) : (s < t /\ S[s].hop = S[t].hop) => S[s].pkt < S[t].pkt
  <1>1. SentOnce(S, D, n)
    BY Zenon DEF Placed
  <1>2. QED
    BY <1>1, Zenon DEF SentOnce

\* Where a packet can be.
LEMMA SomewhereAt ==
  ASSUME NEW Q, NEW A, NEW S, NEW D, NEW n, Placed(Q, A, S, D, n)
  PROVE  /\ \A p \in D : p < n
         /\ \A p \in 1..(n - 1) :
               \/ p \in D
               \/ \E i \in Slots : \E k \in 1..Len(Q[i]) : Q[i][k] = p
               \/ \E s \in 1..Len(S) : S[s].pkt = p
  <1>1. NoneForgotten(Q, S, D, n)
    BY Zenon DEF Placed
  <1>2. QED
    BY <1>1, Zenon DEF NoneForgotten

\* Types of what the packet lemmas speak about.
LEMMA FateTypes ==
  ASSUME NEW Q, NEW A, NEW S, NEW D, NEW n, Placed(Q, A, S, D, n)
  PROVE  /\ Pkts \subseteq Nat
         /\ D \subseteq Pkts
         /\ n \in Nat
         /\ S \in Seq(Frame)
         /\ \A i \in Slots : Q[i] \in Seq(Pkts) /\ Len(Q[i]) \in Nat
         /\ \A i \in Slots : \A k \in 1..Len(Q[i]) : Q[i][k] \in Pkts
         /\ \A i \in Slots : \A k \in 1..Len(Q[i]) : Q[i][k] \in Nat
         /\ Len(S) \in Nat
         /\ \A s \in 1..Len(S) : S[s].pkt \in Nat
  <1>1. Pkts \subseteq Nat
    BY DEF Pkts
  <1>0. Q \in [Slots -> Seq(Pkts)] /\ S \in Seq(Frame) /\ D \subseteq Pkts /\ n \in Nat
    BY Zenon DEF Placed
  <1>2. ASSUME NEW i \in Slots
        PROVE  /\ Q[i] \in Seq(Pkts)
               /\ Len(Q[i]) \in Nat
               /\ \A k \in 1..Len(Q[i]) : Q[i][k] \in Pkts
    <2>1. Q[i] \in Seq(Pkts)
      BY <1>0, Zenon
    <2>2. QED
      BY <2>1, SeqElement
  <1>3. ASSUME NEW s \in 1..Len(S) PROVE S[s].pkt \in Nat
    <2>1. S[s] \in Frame
      BY <1>0, SeqElement, Zenon
    <2>2. QED
      BY <1>1, <2>1, ZenonT(60) DEF Frame
  <1>4. Len(S) \in Nat
    BY <1>0
  <1>5. \A i \in Slots : \A k \in 1..Len(Q[i]) : Q[i][k] \in Nat
    BY <1>1, <1>2, ZenonT(60)
  <1>6. QED
    BY <1>0, <1>1, <1>2, <1>3, <1>4, <1>5, Zenon

\* Dropping the oldest packets of some queues keeps all packets accounted for.
LEMMA DropStep ==
  ASSUME NEW Q, NEW R \in [Slots -> Seq(Pkts)], NEW A, NEW B, NEW S, NEW D, NEW n,
         NEW d \in [Slots -> Nat], Placed(Q, A, S, D, n), Shifted(Q, R, d),
         SameHops(R, A, B)
  PROVE  Placed(R, B, S, D \cup Oldest(Q, d), n)
  <1> DEFINE E == D \cup Oldest(Q, d)
  <1>b. \A i \in Slots : \A k \in 1..Len(Q[i]) : Q[i][k] < n /\ Q[i][k] \notin D
    BY OrderedAt, Zenon
  <1>o. \A i \in Slots : \A k, l \in 1..Len(Q[i]) : k < l => Q[i][k] < Q[i][l]
    BY OrderedAt, Zenon
  <1>u. \A i, j \in Slots : \A k \in 1..Len(Q[i]) : \A l \in 1..Len(Q[j]) :
           Q[j][l] = Q[i][k] => i = j
    BY OrderedAt, Zenon
  <1>s. \A i \in Slots : \A k \in 1..Len(Q[i]) : \A s \in 1..Len(S) :
           /\ S[s].pkt # Q[i][k]
           /\ S[s].hop = A[i] => S[s].pkt < Q[i][k]
    BY OrderedAt, Zenon
  <1>p. \A p \in 1..(n - 1) :
           \/ p \in D
           \/ \E i \in Slots : \E k \in 1..Len(Q[i]) : Q[i][k] = p
           \/ \E s \in 1..Len(S) : S[s].pkt = p
    <2>1. NoneForgotten(Q, S, D, n)
      BY Zenon DEF Placed
    <2>2. QED
      BY <2>1, Zenon DEF NoneForgotten
  <1>0. /\ S \in Seq(Frame)
        /\ \A i \in Slots : Len(Q[i]) \in Nat
        /\ \A i \in Slots : \A k \in 1..Len(Q[i]) : Q[i][k] \in Pkts
        /\ \A i \in Slots : \A k \in 1..Len(Q[i]) : Q[i][k] \in Nat
        /\ n \in Nat
        /\ D \subseteq Pkts
    BY FateTypes, Zenon
  <1>1. ASSUME NEW i \in Slots
        PROVE  /\ Len(Q[i]) \in Nat
               /\ Len(R[i]) \in Nat
               /\ d[i] \in 0..Len(Q[i])
               /\ d[i] \in Nat
               /\ Len(R[i]) = Len(Q[i]) - d[i]
    <2>1. Len(Q[i]) \in Nat
      BY <1>0, Zenon
    <2>2. d[i] \in 0..Len(Q[i]) /\ Len(R[i]) = Len(Q[i]) - d[i]
      BY Zenon DEF Shifted
    <2>3. QED
      BY <2>1, <2>2
  <1>2. ASSUME NEW i \in Slots, NEW k \in 1..Len(R[i])
        PROVE  /\ k + d[i] \in 1..Len(Q[i])
               /\ k + d[i] > d[i]
               /\ R[i][k] = Q[i][k + d[i]]
               /\ A[i] = B[i]
    <2>1. R[i][k] = Q[i][k + d[i]]
      BY Zenon DEF Shifted
    <2>2. R[i] # <<>>
      BY <1>1
    <2>3. k + d[i] \in 1..Len(Q[i]) /\ k + d[i] > d[i]
      BY <1>1, SMTT(60)
    <2>4. A[i] = B[i]
      BY <2>2, Zenon DEF SameHops
    <2>5. QED
      BY <2>1, <2>3, <2>4, Zenon
  <1>3. ASSUME NEW i \in Slots, NEW k \in 1..Len(Q[i]), k > d[i], Q[i][k] \in E
        PROVE  FALSE
    <2>1. Q[i][k] \notin D
      BY <1>b, Zenon
    <2>2. PICK j \in Slots : \E l \in 1..d[j] : Q[j][l] = Q[i][k]
      BY <1>3, <2>1, Zenon DEF Oldest
    <2>3. PICK l \in 1..d[j] : Q[j][l] = Q[i][k]
      BY <2>2, Zenon
    <2>4. l \in 1..Len(Q[j]) /\ l \in Nat /\ l <= d[j] /\ d[i] \in Nat
      BY <1>1, SMTT(60)
    <2>5. i = j
      BY <2>3, <2>4, <1>u, Zenon
    <2>6. l < k /\ l \in 1..Len(Q[i])
      BY <1>3, <2>4, <2>5
    <2>7. Q[i][l] < Q[i][k]
      BY <2>6, <1>o, Zenon
    <2>8. Q[i][l] \in Nat /\ Q[i][k] \in Nat
      BY <1>0, <2>6, Zenon
    <2>9. QED
      BY <2>3, <2>5, <2>7, <2>8
  <1> HIDE DEF E
  <1>4. ASSUME NEW i \in Slots, NEW k \in 1..Len(R[i])
        PROVE  /\ R[i][k] < n
               /\ R[i][k] \notin E
               /\ \A l \in 1..Len(R[i]) : k < l => R[i][k] < R[i][l]
               /\ \A j \in Slots : \A l \in 1..Len(R[j]) : R[j][l] = R[i][k] => i = j
               /\ \A s \in 1..Len(S) : /\ S[s].pkt # R[i][k]
                                       /\ S[s].hop = B[i] => S[s].pkt < R[i][k]
    <2> DEFINE m == k + d[i]
    <2>0. m \in 1..Len(Q[i]) /\ m > d[i] /\ R[i][k] = Q[i][m] /\ A[i] = B[i]
      BY <1>2, Zenon
    <2> HIDE DEF m
    <2>1. R[i][k] < n /\ R[i][k] \notin E
      BY <1>3, <2>0, <1>b, Zenon
    <2>2. ASSUME NEW l \in 1..Len(R[i]), k < l PROVE R[i][k] < R[i][l]
      <3> DEFINE o == l + d[i]
      <3>1. o \in 1..Len(Q[i]) /\ R[i][l] = Q[i][o]
        BY <1>2, Zenon
      <3>2. m < o
        BY <1>1, <2>2 DEF m
      <3> HIDE DEF o
      <3>3. QED
        BY <2>0, <3>1, <3>2, <1>o, ZenonT(60)
    <2>3. ASSUME NEW j \in Slots, NEW l \in 1..Len(R[j]), R[j][l] = R[i][k] PROVE i = j
      <3>1. PICK o \in 1..Len(Q[j]) : R[j][l] = Q[j][o]
        BY <1>2, ZenonT(60)
      <3>2. QED
        BY <2>0, <2>3, <3>1, <1>u, ZenonT(60)
    <2>4. \A s \in 1..Len(S) : /\ S[s].pkt # R[i][k]
                               /\ S[s].hop = B[i] => S[s].pkt < R[i][k]
      BY <2>0, <1>s, Zenon
    <2>5. QED
      BY <2>1, <2>2, <2>3, <2>4, ZenonT(60)
  <1>5. ASSUME NEW s \in 1..Len(S), S[s].pkt \in E PROVE FALSE
    <2>1. S[s].pkt \notin D
      BY SentAt, Zenon
    <2>2. PICK j \in Slots : \E l \in 1..d[j] : Q[j][l] = S[s].pkt
      BY <1>5, <2>1, Zenon DEF Oldest, E
    <2>3. PICK l \in 1..d[j] : Q[j][l] = S[s].pkt
      BY <2>2, Zenon
    <2>4. l \in 1..Len(Q[j])
      BY <1>1
    <2>5. S[s].pkt # Q[j][l]
      BY <2>4, <1>s, Zenon
    <2>6. QED
      BY <2>3, <2>5, Zenon
  <1>6. ASSUME NEW p \in E PROVE p < n
    <2>1. CASE p \in D
      BY <2>1, SomewhereAt, Zenon
    <2>2. CASE p \in Oldest(Q, d)
      <3>1. PICK j \in Slots : \E l \in 1..d[j] : Q[j][l] = p
        BY <2>2, Zenon DEF Oldest
      <3>2. PICK l \in 1..d[j] : Q[j][l] = p
        BY <3>1, Zenon
      <3>3. l \in 1..Len(Q[j])
        BY <1>1, SMTT(60)
      <3>4. QED
        BY <3>2, <3>3, <1>b, Zenon
    <2>3. QED
      BY <2>1, <2>2, Zenon DEF E
  <1>7. ASSUME NEW i \in Slots, NEW k \in 1..Len(Q[i])
        PROVE  \/ Q[i][k] \in E
               \/ \E l \in 1..Len(R[i]) : R[i][l] = Q[i][k]
    <2>1. CASE k <= d[i]
      <3>1. k \in 1..d[i] /\ Q[i][k] \in Pkts
        BY <1>0, <1>1, <2>1, SMTT(60)
      <3>2. Q[i][k] \in Oldest(Q, d)
        BY <3>1, ZenonT(60) DEF Oldest
      <3>3. QED
        BY <3>2, Zenon DEF E
    <2>2. CASE k > d[i]
      <3>1. k - d[i] \in 1..Len(R[i]) /\ (k - d[i]) + d[i] = k
        BY <1>1, <2>2
      <3>2. R[i][k - d[i]] = Q[i][k]
        BY <1>2, <3>1, Zenon
      <3>3. QED
        BY <3>1, <3>2, Zenon
    <2>3. k \in Nat /\ d[i] \in Nat
      <3>1. Len(Q[i]) \in Nat /\ d[i] \in Nat
        BY <1>1, Zenon
      <3>2. QED
        BY <3>1
    <2>4. QED
      BY <2>1, <2>2, <2>3, Trichotomy, Zenon
  <1>8. ASSUME NEW p \in 1..(n - 1)
        PROVE  \/ p \in E
               \/ \E i \in Slots : \E k \in 1..Len(R[i]) : R[i][k] = p
               \/ \E s \in 1..Len(S) : S[s].pkt = p
    <2>1. CASE p \in D
      BY <2>1, Zenon DEF E
    <2>2. CASE \E i \in Slots : \E k \in 1..Len(Q[i]) : Q[i][k] = p
      <3>1. PICK i \in Slots : \E k \in 1..Len(Q[i]) : Q[i][k] = p
        BY <2>2, Zenon
      <3>2. PICK k \in 1..Len(Q[i]) : Q[i][k] = p
        BY <3>1, Zenon
      <3>3. QED
        BY <1>7, <3>2, Zenon
    <2>3. CASE \E s \in 1..Len(S) : S[s].pkt = p
      BY <2>3, Zenon
    <2>4. QED
      BY <1>p, <2>1, <2>2, <2>3, Zenon
  <1>9. QueuesOrdered(R, B, S, E, n)
    BY <1>4, Zenon DEF QueuesOrdered
  <1>10. SentOnce(S, E, n)
    <2>1. SentOnce(S, D, n)
      BY Zenon DEF Placed
    <2>2. QED
      BY <1>5, <2>1, Zenon DEF SentOnce
  <1>11. NoneForgotten(R, S, E, n)
    BY <1>6, <1>8, Zenon DEF NoneForgotten
  <1>12. E \in SUBSET Pkts
    BY <1>0, Zenon DEF E, Oldest
  <1>13. QED
    BY <1>0, <1>9, <1>10, <1>11, <1>12, Zenon DEF Placed, E

\* The places of a sequence that is one longer.
LEMMA OneMore ==
  ASSUME NEW a \in Nat
  PROVE  /\ a + 1 \in 1..(a + 1)
         /\ \A k \in 1..(a + 1) : k \notin 1..a => k = a + 1
         /\ \A k \in 1..a : k \in 1..(a + 1)
  BY SMTT(60)

\* Parking the new packet at the end of a queue keeps all packets accounted
\* for.  The queue may have been empty and belong to another hop until now.
LEMMA AppendStep ==
  ASSUME NEW Q, NEW R \in [Slots -> Seq(Pkts)], NEW A, NEW B, NEW S, NEW D,
         NEW n \in Pkts, NEW h \in Slots, Placed(Q, A, S, D, n),
         Appended(Q, R, h, n), SameHops(Q, A, B)
  PROVE  Placed(R, B, S, D, n + 1)
  <1>b. \A i \in Slots : \A k \in 1..Len(Q[i]) : Q[i][k] < n /\ Q[i][k] \notin D
    BY OrderedAt, Zenon
  <1>o. \A i \in Slots : \A k, l \in 1..Len(Q[i]) : k < l => Q[i][k] < Q[i][l]
    BY OrderedAt, Zenon
  <1>u. \A i, j \in Slots : \A k \in 1..Len(Q[i]) : \A l \in 1..Len(Q[j]) :
           Q[j][l] = Q[i][k] => i = j
    BY OrderedAt, Zenon
  <1>s. \A i \in Slots : \A k \in 1..Len(Q[i]) : \A s \in 1..Len(S) :
           /\ S[s].pkt # Q[i][k]
           /\ S[s].hop = A[i] => S[s].pkt < Q[i][k]
    BY OrderedAt, Zenon
  <1>p. \A p \in 1..(n - 1) :
           \/ p \in D
           \/ \E i \in Slots : \E k \in 1..Len(Q[i]) : Q[i][k] = p
           \/ \E s \in 1..Len(S) : S[s].pkt = p
    <2>1. NoneForgotten(Q, S, D, n)
      BY Zenon DEF Placed
    <2>2. QED
      BY <2>1, Zenon DEF NoneForgotten
  <1>1. /\ D \subseteq Pkts
        /\ D \subseteq Nat
        /\ S \in Seq(Frame)
        /\ \A i \in Slots : Q[i] \in Seq(Pkts) /\ Len(Q[i]) \in Nat
        /\ \A i \in Slots : \A k \in 1..Len(Q[i]) : Q[i][k] \in Nat
        /\ \A s \in 1..Len(S) : S[s].pkt \in Nat
        /\ n \in Nat
    <2>1. /\ D \subseteq Pkts
          /\ Pkts \subseteq Nat
          /\ S \in Seq(Frame)
          /\ \A i \in Slots : Q[i] \in Seq(Pkts) /\ Len(Q[i]) \in Nat
          /\ \A i \in Slots : \A k \in 1..Len(Q[i]) : Q[i][k] \in Nat
          /\ \A s \in 1..Len(S) : S[s].pkt \in Nat
          /\ n \in Nat
      BY FateTypes, ZenonT(60)
    <2>2. QED
      BY <2>1, Zenon
  <1>2. ASSUME NEW i \in Slots
        PROVE  /\ i = h => Len(R[i]) = Len(Q[i]) + 1
               /\ i # h => Len(R[i]) = Len(Q[i])
               /\ \A k \in 1..Len(Q[i]) : R[i][k] = Q[i][k]
               /\ i = h => R[i][Len(Q[i]) + 1] = n
    <2>1. Q[i] \in Seq(Pkts) /\ Len(Q[i]) \in Nat
      BY <1>1, Zenon
    <2>2. CASE i = h
      <3>1. R[i] = Append(Q[i], n)
        BY <2>2, Zenon DEF Appended
      <3>2. /\ Len(Append(Q[i], n)) = Len(Q[i]) + 1
            /\ \A k \in 1..Len(Q[i]) : Append(Q[i], n)[k] = Q[i][k]
            /\ Append(Q[i], n)[Len(Q[i]) + 1] = n
        BY <2>1, SeqAppend
      <3>3. QED
        BY <2>2, <3>1, <3>2, Zenon
    <2>3. CASE i # h
      <3>1. R[i] = Q[i]
        BY <2>3, Zenon DEF Appended
      <3>2. QED
        BY <2>1, <2>3, <3>1, Zenon
    <2>4. QED
      BY <2>2, <2>3, Zenon
  <1>3. ASSUME NEW i \in Slots, NEW k \in 1..Len(R[i])
        PROVE  \/ k \in 1..Len(Q[i]) /\ R[i][k] = Q[i][k] /\ A[i] = B[i]
               \/ i = h /\ k = Len(R[i]) /\ R[i][k] = n
    <2>0. Len(Q[i]) \in Nat
      BY <1>1, ZenonT(60)
    <2>1. CASE k \in 1..Len(Q[i])
      <3>1. Q[i] # <<>>
        BY <2>1
      <3>2. A[i] = B[i]
        BY <3>1, Zenon DEF SameHops
      <3>3. QED
        BY <1>2, <2>1, <3>2, Zenon
    <2>2. CASE k \notin 1..Len(Q[i])
      <3>1. i = h
        BY <1>2, <2>2, Zenon
      <3>2. Len(R[i]) = Len(Q[i]) + 1 /\ R[i][Len(Q[i]) + 1] = n
        BY <1>2, <3>1, Zenon
      <3>3. k = Len(R[i]) /\ k = Len(Q[i]) + 1
        BY <2>0, <2>2, <3>2, OneMore, Zenon
      <3>4. QED
        BY <3>1, <3>2, <3>3, Zenon
    <2>3. QED
      BY <2>1, <2>2, Zenon
  <1>4. /\ n < n + 1
        /\ \A p \in Nat : p < n => p < n + 1 /\ p # n
    BY <1>1
  <1>5. \A p \in D : p < n
    BY SomewhereAt, Zenon
  <1>6. n \notin D
    BY <1>1, <1>4, <1>5, ZenonT(60)
  <1>7. ASSUME NEW i \in Slots, NEW k \in 1..Len(R[i])
        PROVE  /\ R[i][k] < n + 1
               /\ R[i][k] \notin D
               /\ \A l \in 1..Len(R[i]) : k < l => R[i][k] < R[i][l]
               /\ \A j \in Slots : \A l \in 1..Len(R[j]) : R[j][l] = R[i][k] => i = j
               /\ \A s \in 1..Len(S) :
                     /\ S[s].pkt # R[i][k]
                     /\ S[s].hop = B[i] => S[s].pkt < R[i][k]
    <2>1. CASE k \in 1..Len(Q[i]) /\ R[i][k] = Q[i][k] /\ A[i] = B[i]
      <3>1. Q[i][k] < n /\ Q[i][k] \in Nat /\ Q[i][k] \notin D
        BY <1>1, <2>1, <1>b, Zenon
      <3>2. ASSUME NEW l \in 1..Len(R[i]), k < l PROVE R[i][k] < R[i][l]
        BY <1>3, <2>1, <3>1, <3>2, <1>o, Zenon
      <3>3. ASSUME NEW j \in Slots, NEW l \in 1..Len(R[j]), R[j][l] = R[i][k] PROVE i = j
        <4>1. R[j][l] # n
          BY <1>4, <2>1, <3>1, <3>3, Zenon
        <4>2. l \in 1..Len(Q[j]) /\ R[j][l] = Q[j][l]
          BY <1>3, <4>1, Zenon
        <4>3. QED
          BY <2>1, <3>3, <4>2, <1>u, Zenon
      <3>4. \A s \in 1..Len(S) : /\ S[s].pkt # Q[i][k]
                                 /\ S[s].hop = A[i] => S[s].pkt < Q[i][k]
        BY <2>1, <1>s, Zenon
      <3>5. QED
        BY <1>4, <2>1, <3>1, <3>2, <3>3, <3>4, Zenon
    <2>2. CASE i = h /\ k = Len(R[i]) /\ R[i][k] = n
      <3>1. R[i][k] < n + 1 /\ R[i][k] \notin D
        BY <1>4, <1>6, <2>2, Zenon
      <3>2. \A l \in 1..Len(R[i]) : ~(k < l)
        BY <2>2
      <3>3. ASSUME NEW j \in Slots, NEW l \in 1..Len(R[j]), R[j][l] = R[i][k] PROVE i = j
        <4>1. CASE l \in 1..Len(Q[j]) /\ R[j][l] = Q[j][l]
          <5>1. Q[j][l] < n /\ Q[j][l] \in Nat
            BY <1>1, <4>1, <1>b, Zenon
          <5>2. QED
            BY <1>4, <2>2, <3>3, <4>1, <5>1, Zenon
        <4>2. QED
          BY <1>3, <2>2, <4>1, Zenon
      <3>4. \A s \in 1..Len(S) : S[s].pkt < n /\ S[s].pkt # n
        BY <1>1, <1>4, SentAt, Zenon
      <3>5. QED
        BY <2>2, <3>1, <3>2, <3>3, <3>4, Zenon
    <2>3. QED
      BY <1>3, <2>1, <2>2, Zenon
  <1>8. QueuesOrdered(R, B, S, D, n + 1)
    BY <1>7, Zenon DEF QueuesOrdered
  <1>9. SentOnce(S, D, n + 1)
    BY <1>1, <1>4, SentAt, ZenonT(60) DEF SentOnce
  <1>10. ASSUME NEW i \in Slots, NEW k \in 1..Len(Q[i])
         PROVE  \E l \in 1..Len(R[i]) : R[i][l] = Q[i][k]
    <2>1. Len(Q[i]) \in Nat
      BY <1>1, Zenon
    <2>2. Len(R[i]) = Len(Q[i]) + 1 \/ Len(R[i]) = Len(Q[i])
      BY <1>2, Zenon
    <2>3. k \in 1..Len(R[i])
      BY <2>1, <2>2, OneMore, Zenon
    <2>4. R[i][k] = Q[i][k]
      BY <1>2, Zenon
    <2>5. QED
      BY <2>3, <2>4, Zenon
  <1>11. \E l \in 1..Len(R[h]) : R[h][l] = n
    <2>1. Len(Q[h]) \in Nat
      BY <1>1, Zenon
    <2>2. Len(R[h]) = Len(Q[h]) + 1 /\ R[h][Len(Q[h]) + 1] = n
      BY <1>2, Zenon
    <2>3. Len(Q[h]) + 1 \in 1..Len(R[h])
      BY <2>1, <2>2, OneMore, Zenon
    <2>4. QED
      BY <2>2, <2>3, Zenon
  <1>12. ASSUME NEW p \in 1..((n + 1) - 1)
         PROVE  \/ p \in D
                \/ \E i \in Slots : \E k \in 1..Len(R[i]) : R[i][k] = p
                \/ \E s \in 1..Len(S) : S[s].pkt = p
    <2>1. CASE p = n
      BY <1>11, <2>1, Zenon
    <2>2. CASE p \in 1..(n - 1)
      <3>1. CASE p \in D
        BY <3>1, Zenon
      <3>2. CASE \E i \in Slots : \E k \in 1..Len(Q[i]) : Q[i][k] = p
        <4>1. PICK i \in Slots : \E k \in 1..Len(Q[i]) : Q[i][k] = p
          BY <3>2, Zenon
        <4>2. PICK k \in 1..Len(Q[i]) : Q[i][k] = p
          BY <4>1, Zenon
        <4>3. QED
          BY <1>10, <4>2, Zenon
      <3>3. CASE \E s \in 1..Len(S) : S[s].pkt = p
        BY <3>3, Zenon
      <3>4. QED
        BY <1>p, <2>2, <3>1, <3>2, <3>3, Zenon
    <2>3. p = n \/ p \in 1..(n - 1)
      BY <1>1
    <2>4. QED
      BY <2>1, <2>2, <2>3, Zenon
  <1>13. NoneForgotten(R, S, D, n + 1)
    BY <1>1, <1>4, <1>5, <1>12, Zenon DEF NoneForgotten
  <1>14. QED
    BY <1>1, <1>8, <1>9, <1>13 DEF Placed

\* The concatenation of two lists of frames, frame by frame.
LEMMA Concatenation ==
  ASSUME NEW S \in Seq(Frame), NEW F \in Seq(Frame)
  PROVE  /\ S \o F \in Seq(Frame)
         /\ Len(S \o F) = Len(S) + Len(F)
         /\ Len(F) \in Nat
         /\ \A s \in 1..Len(S) : (S \o F)[s] = S[s]
         /\ \A k \in 1..Len(F) : (S \o F)[Len(S) + k] = F[k]
  <1>1. S \o F \in Seq(Frame) /\ Len(S \o F) = Len(S) + Len(F)
    BY SeqConcat, Zenon
  <1>2. Len(S) \in Nat /\ Len(F) \in Nat
    OBVIOUS
  <1>3. \A s \in 1..Len(S) : (S \o F)[s] = S[s]
    BY <1>2
  <1>4. ASSUME NEW k \in 1..Len(F) PROVE (S \o F)[Len(S) + k] = F[k]
    <2>1. Len(S) + k \in 1..(Len(S) + Len(F)) /\ Len(S) + k > Len(S) /\ (Len(S) + k) - Len(S) = k
      BY <1>2, SMTT(60)
    <2>2. QED
      BY <2>1, SeqConcat
  <1>5. QED
    BY <1>1, <1>2, <1>3, <1>4, Zenon

\* Sending the new packet at once keeps all packets accounted for, provided
\* that none waits for the same hop.
LEMMA HitStep ==
  ASSUME NEW Q, NEW A, NEW S, NEW f \in Frame, NEW D, NEW n \in Pkts, f.pkt = n,
         Placed(Q, A, S, D, n),
         \A i \in Slots : Q[i] # <<>> => A[i] # f.hop
  PROVE  Placed(Q, A, Append(S, f), D, n + 1)
  <1>b. \A i \in Slots : \A k \in 1..Len(Q[i]) : Q[i][k] < n /\ Q[i][k] \notin D
    BY OrderedAt, Zenon
  <1>o. \A i \in Slots : \A k, l \in 1..Len(Q[i]) : k < l => Q[i][k] < Q[i][l]
    BY OrderedAt, Zenon
  <1>u. \A i, j \in Slots : \A k \in 1..Len(Q[i]) : \A l \in 1..Len(Q[j]) :
           Q[j][l] = Q[i][k] => i = j
    BY OrderedAt, Zenon
  <1>s. \A i \in Slots : \A k \in 1..Len(Q[i]) : \A s \in 1..Len(S) :
           /\ S[s].pkt # Q[i][k]
           /\ S[s].hop = A[i] => S[s].pkt < Q[i][k]
    BY OrderedAt, Zenon
  <1>p. \A p \in 1..(n - 1) :
           \/ p \in D
           \/ \E i \in Slots : \E k \in 1..Len(Q[i]) : Q[i][k] = p
           \/ \E s \in 1..Len(S) : S[s].pkt = p
    <2>1. NoneForgotten(Q, S, D, n)
      BY Zenon DEF Placed
    <2>2. QED
      BY <2>1, Zenon DEF NoneForgotten
  <1>1. /\ D \subseteq Pkts
        /\ Pkts \subseteq Nat
        /\ S \in Seq(Frame)
        /\ \A i \in Slots : Q[i] \in Seq(Pkts) /\ Len(Q[i]) \in Nat
        /\ \A i \in Slots : \A k \in 1..Len(Q[i]) : Q[i][k] \in Nat
        /\ Len(S) \in Nat
        /\ \A s \in 1..Len(S) : S[s].pkt \in Nat
        /\ n \in Nat
    BY FateTypes, Zenon
  <1> DEFINE T == Append(S, f)
  <1>2. /\ T \in Seq(Frame)
        /\ Len(T) = Len(S) + 1
        /\ \A s \in 1..Len(S) : T[s] = S[s]
        /\ T[Len(S) + 1] = f
    BY <1>1, SeqAppend
  <1> HIDE DEF T
  <1>3. ASSUME NEW s \in 1..Len(T)
        PROVE  \/ s \in 1..Len(S) /\ T[s] = S[s]
               \/ s = Len(S) + 1 /\ T[s] = f /\ \A t \in 1..Len(T) : ~(s < t)
    BY <1>1, <1>2
  <1>4. /\ n < n + 1
        /\ \A p \in Nat : p < n => p < n + 1 /\ p # n
    BY <1>1
  <1>5. \A p \in D : p < n /\ p \in Nat
    BY <1>1, SomewhereAt, Zenon
  <1>6. ASSUME NEW i \in Slots, NEW k \in 1..Len(Q[i])
        PROVE  /\ Q[i][k] < n + 1
               /\ Q[i][k] \notin D
               /\ \A l \in 1..Len(Q[i]) : k < l => Q[i][k] < Q[i][l]
               /\ \A j \in Slots : \A l \in 1..Len(Q[j]) : Q[j][l] = Q[i][k] => i = j
               /\ \A s \in 1..Len(T) :
                     /\ T[s].pkt # Q[i][k]
                     /\ T[s].hop = A[i] => T[s].pkt < Q[i][k]
    <2>1. Q[i][k] < n /\ Q[i][k] \in Nat
      BY <1>1, <1>b, Zenon
    <2>2. /\ Q[i][k] \notin D
          /\ \A l \in 1..Len(Q[i]) : k < l => Q[i][k] < Q[i][l]
          /\ \A j \in Slots : \A l \in 1..Len(Q[j]) : Q[j][l] = Q[i][k] => i = j
      BY <1>b, <1>o, <1>u, Zenon
    <2>3. \A s \in 1..Len(S) : /\ S[s].pkt # Q[i][k]
                               /\ S[s].hop = A[i] => S[s].pkt < Q[i][k]
      BY <1>s, Zenon
    <2>4. f.pkt # Q[i][k] /\ f.hop # A[i]
      <3>1. Q[i] # <<>>
        BY <1>1
      <3>2. QED
        BY <1>4, <2>1, <3>1, Zenon
    <2>5. ASSUME NEW s \in 1..Len(T)
          PROVE  T[s].pkt # Q[i][k] /\ (T[s].hop = A[i] => T[s].pkt < Q[i][k])
      BY <1>3, <2>3, <2>4, Zenon
    <2>6. QED
      BY <1>4, <2>1, <2>2, <2>5, Zenon
  <1>7. QueuesOrdered(Q, A, T, D, n + 1)
    BY <1>6, ZenonT(60) DEF QueuesOrdered
  <1>8. ASSUME NEW s \in 1..Len(T)
        PROVE  /\ T[s].pkt < n + 1
               /\ T[s].pkt \notin D
               /\ \A t \in 1..Len(T) : s # t => T[s].pkt # T[t].pkt
               /\ \A t \in 1..Len(T) :
                     (s < t /\ T[s].hop = T[t].hop) => T[s].pkt < T[t].pkt
    <2>1. CASE s \in 1..Len(S) /\ T[s] = S[s]
      <3>1. /\ S[s].pkt < n
            /\ S[s].pkt \in Nat
            /\ S[s].pkt \notin D
            /\ \A t \in 1..Len(S) : s # t => S[s].pkt # S[t].pkt
            /\ \A t \in 1..Len(S) : (s < t /\ S[s].hop = S[t].hop) => S[s].pkt < S[t].pkt
        BY <1>1, <2>1, SentAt, ZenonT(60)
      <3>2. ASSUME NEW t \in 1..Len(T)
            PROVE  /\ s # t => T[s].pkt # T[t].pkt
                   /\ (s < t /\ T[s].hop = T[t].hop) => T[s].pkt < T[t].pkt
        <4>1. CASE t \in 1..Len(S) /\ T[t] = S[t]
          BY <2>1, <3>1, <4>1, Zenon
        <4>2. CASE T[t] = f
          BY <1>4, <2>1, <3>1, <4>2, Zenon
        <4>3. QED
          BY <1>3, <4>1, <4>2, Zenon
      <3>3. QED
        BY <1>4, <2>1, <3>1, <3>2, Zenon
    <2>2. CASE s = Len(S) + 1 /\ T[s] = f /\ \A t \in 1..Len(T) : ~(s < t)
      <3>1. T[s].pkt < n + 1 /\ T[s].pkt \notin D
        BY <1>4, <1>5, <2>2, Zenon
      <3>2. ASSUME NEW t \in 1..Len(T), s # t PROVE T[s].pkt # T[t].pkt
        <4>1. t \in 1..Len(S) /\ T[t] = S[t]
          BY <1>3, <2>2, <3>2, Zenon
        <4>2. S[t].pkt < n /\ S[t].pkt \in Nat
          BY <1>1, <4>1, SentAt, Zenon
        <4>3. QED
          BY <1>4, <2>2, <4>1, <4>2, ZenonT(60)
      <3>3. QED
        BY <2>2, <3>1, <3>2, Zenon
    <2>3. QED
      BY <1>3, <2>1, <2>2, Zenon
  <1>9. SentOnce(T, D, n + 1)
    BY <1>8, Zenon DEF SentOnce
  <1>10. ASSUME NEW p \in 1..((n + 1) - 1)
         PROVE  \/ p \in D
                \/ \E i \in Slots : \E k \in 1..Len(Q[i]) : Q[i][k] = p
                \/ \E s \in 1..Len(T) : T[s].pkt = p
    <2>1. \A s \in 1..Len(S) : s \in 1..Len(T) /\ T[s] = S[s]
      BY <1>1, <1>2, SMTT(60)
    <2>2. Len(S) + 1 \in 1..Len(T) /\ T[Len(S) + 1].pkt = n
      BY <1>1, <1>2
    <2>3. p = n \/ p \in 1..(n - 1)
      BY <1>1
    <2>4. CASE p = n
      BY <2>2, <2>4, Zenon
    <2>5. CASE p \in 1..(n - 1)
      <3>1. CASE p \in D
        BY <3>1, Zenon
      <3>2. CASE \E i \in Slots : \E k \in 1..Len(Q[i]) : Q[i][k] = p
        BY <3>2, Zenon
      <3>3. CASE \E s \in 1..Len(S) : S[s].pkt = p
        BY <3>3, <2>1, Zenon
      <3>4. QED
        BY <1>p, <2>5, <3>1, <3>2, <3>3, Zenon
    <2>6. QED
      BY <2>3, <2>4, <2>5, Zenon
  <1>11. NoneForgotten(Q, T, D, n + 1)
    BY <1>4, <1>5, <1>10, ZenonT(60) DEF NoneForgotten
  <1>12. QED
    BY <1>1, <1>2, <1>7, <1>9, <1>11 DEF T, Placed

\* Queue h is emptied, the others stay.
Emptied(Q, R, h) == R[h] = <<>> /\ \A i \in Slots : i # h => R[i] = Q[i]

\* The frames carry the packets of q to hop, in the order of q.
Carries(F, q, hop) ==
    /\ Len(F) = Len(q)
    /\ \A k \in 1..Len(F) : F[k].pkt = q[k] /\ F[k].hop = hop

\* The other queues in use keep their addresses, and wait for another one.
OtherHops(Q, A, B, h) ==
    \A i \in Slots : (i # h /\ Q[i] # <<>>) => A[i] = B[i] /\ A[i] # A[h]

\* Flushing the queue of slot h keeps all packets accounted for, provided
\* that no other queue waits for the same hop.
LEMMA FlushStep ==
  ASSUME NEW Q, NEW R \in [Slots -> Seq(Pkts)], NEW A, NEW B, NEW S,
         NEW F \in Seq(Frame), NEW D, NEW n, Placed(Q, A, S, D, n),
         NEW h \in Slots, Emptied(Q, R, h), Carries(F, Q[h], A[h]), OtherHops(Q, A, B, h)
  PROVE  Placed(R, B, S \o F, D, n)
  <1>b. \A i \in Slots : \A k \in 1..Len(Q[i]) : Q[i][k] < n /\ Q[i][k] \notin D
    BY OrderedAt, Zenon
  <1>o. \A i \in Slots : \A k, l \in 1..Len(Q[i]) : k < l => Q[i][k] < Q[i][l]
    BY OrderedAt, Zenon
  <1>u. \A i, j \in Slots : \A k \in 1..Len(Q[i]) : \A l \in 1..Len(Q[j]) :
           Q[j][l] = Q[i][k] => i = j
    BY OrderedAt, Zenon
  <1>s. \A i \in Slots : \A k \in 1..Len(Q[i]) : \A s \in 1..Len(S) :
           /\ S[s].pkt # Q[i][k]
           /\ S[s].hop = A[i] => S[s].pkt < Q[i][k]
    BY OrderedAt, Zenon
  <1>p. \A p \in 1..(n - 1) :
           \/ p \in D
           \/ \E i \in Slots : \E k \in 1..Len(Q[i]) : Q[i][k] = p
           \/ \E s \in 1..Len(S) : S[s].pkt = p
    <2>1. NoneForgotten(Q, S, D, n)
      BY Zenon DEF Placed
    <2>2. QED
      BY <2>1, Zenon DEF NoneForgotten
  <1>1. /\ D \subseteq Pkts
        /\ S \in Seq(Frame)
        /\ \A i \in Slots : Q[i] \in Seq(Pkts) /\ Len(Q[i]) \in Nat
        /\ \A i \in Slots : \A k \in 1..Len(Q[i]) : Q[i][k] \in Nat
        /\ Len(S) \in Nat
        /\ \A s \in 1..Len(S) : S[s].pkt \in Nat
        /\ n \in Nat
    BY FateTypes, Zenon
  <1> DEFINE T == S \o F
  <1>2. /\ T \in Seq(Frame)
        /\ Len(T) = Len(S) + Len(Q[h])
        /\ Len(Q[h]) \in Nat
        /\ \A s \in 1..Len(S) : T[s] = S[s]
        /\ \A k \in 1..Len(Q[h]) : T[Len(S) + k].pkt = Q[h][k] /\ T[Len(S) + k].hop = A[h]
    <2>1. /\ T \in Seq(Frame)
          /\ Len(T) = Len(S) + Len(F)
          /\ Len(F) \in Nat
          /\ \A s \in 1..Len(S) : T[s] = S[s]
          /\ \A k \in 1..Len(F) : T[Len(S) + k] = F[k]
      BY <1>1, Concatenation, Zenon
    <2>2. Len(F) = Len(Q[h]) /\ \A k \in 1..Len(F) : F[k].pkt = Q[h][k] /\ F[k].hop = A[h]
      BY Zenon DEF Carries
    <2>3. Len(Q[h]) \in Nat
      BY <1>1, Zenon
    <2>4. ASSUME NEW k \in 1..Len(Q[h])
          PROVE  T[Len(S) + k].pkt = Q[h][k] /\ T[Len(S) + k].hop = A[h]
      <3>1. k \in 1..Len(F)
        BY <2>2, Zenon
      <3>2. T[Len(S) + k] = F[k]
        BY <2>1, <3>1, ZenonT(60)
      <3>3. QED
        BY <2>2, <3>1, <3>2, Zenon
    <2>5. QED
      BY <2>1, <2>2, <2>3, <2>4, ZenonT(60)
  <1> HIDE DEF T
  <1>3. ASSUME NEW s \in 1..Len(T)
        PROVE  \/ s \in 1..Len(S) /\ T[s] = S[s]
               \/ \E k \in 1..Len(Q[h]) :
                     s = Len(S) + k /\ T[s].pkt = Q[h][k] /\ T[s].hop = A[h]
    <2>1. CASE s \in 1..Len(S)
      BY <1>2, <2>1, Zenon
    <2>2. CASE s \notin 1..Len(S)
      <3>1. s - Len(S) \in 1..Len(Q[h]) /\ s = Len(S) + (s - Len(S))
        BY <1>1, <1>2, <2>2
      <3>2. QED
        BY <1>2, <3>1, ZenonT(60)
    <2>3. QED
      BY <2>1, <2>2, Zenon
  <1>4. ASSUME NEW i \in Slots, NEW k \in 1..Len(R[i])
        PROVE  i # h /\ R[i] = Q[i] /\ k \in 1..Len(Q[i]) /\ A[i] = B[i] /\ A[i] # A[h]
    <2>1. i # h
      BY DEF Emptied
    <2>2. R[i] = Q[i]
      BY <2>1, Zenon DEF Emptied
    <2>3. k \in 1..Len(Q[i]) /\ Q[i] # <<>>
      BY <2>2
    <2>4. QED
      BY <2>1, <2>2, <2>3, Zenon DEF OtherHops
  <1>5. ASSUME NEW i \in Slots, NEW k \in 1..Len(R[i])
        PROVE  /\ R[i][k] < n
               /\ R[i][k] \notin D
               /\ \A l \in 1..Len(R[i]) : k < l => R[i][k] < R[i][l]
               /\ \A j \in Slots : \A l \in 1..Len(R[j]) : R[j][l] = R[i][k] => i = j
               /\ \A s \in 1..Len(T) :
                     /\ T[s].pkt # R[i][k]
                     /\ T[s].hop = B[i] => T[s].pkt < R[i][k]
    <2>1. i # h /\ R[i] = Q[i] /\ k \in 1..Len(Q[i]) /\ A[i] = B[i] /\ A[i] # A[h]
      BY <1>4, Zenon
    <2>2. /\ Q[i][k] < n
          /\ Q[i][k] \notin D
          /\ \A l \in 1..Len(Q[i]) : k < l => Q[i][k] < Q[i][l]
      BY <2>1, <1>b, <1>o, Zenon
    <2>3. \A a \in Slots : \A b \in 1..Len(Q[a]) : Q[a][b] = Q[i][k] => i = a
      BY <2>1, <1>u, Zenon
    <2>4. \A s \in 1..Len(S) : /\ S[s].pkt # Q[i][k]
                               /\ S[s].hop = A[i] => S[s].pkt < Q[i][k]
      BY <2>1, <1>s, Zenon
    <2>5. ASSUME NEW j \in Slots, NEW l \in 1..Len(R[j]), R[j][l] = R[i][k] PROVE i = j
      <3>1. R[j] = Q[j] /\ l \in 1..Len(Q[j])
        BY <1>4, Zenon
      <3>2. QED
        BY <2>1, <2>3, <2>5, <3>1, ZenonT(60)
    <2>6. ASSUME NEW s \in 1..Len(T)
          PROVE  T[s].pkt # R[i][k] /\ (T[s].hop = B[i] => T[s].pkt < R[i][k])
      <3>1. CASE s \in 1..Len(S) /\ T[s] = S[s]
        BY <2>1, <2>4, <3>1, Zenon
      <3>2. CASE \E b \in 1..Len(Q[h]) : T[s].pkt = Q[h][b] /\ T[s].hop = A[h]
        <4>1. PICK b \in 1..Len(Q[h]) : T[s].pkt = Q[h][b] /\ T[s].hop = A[h]
          BY <3>2, Zenon
        <4>2. Q[h][b] # Q[i][k]
          BY <2>1, <2>3, Zenon
        <4>3. QED
          BY <2>1, <4>1, <4>2, ZenonT(60)
      <3>3. QED
        BY <1>3, <3>1, <3>2, Zenon
    <2>7. QED
      BY <2>1, <2>2, <2>5, <2>6, ZenonT(60)
  <1>6. QueuesOrdered(R, B, T, D, n)
    BY <1>5, Zenon DEF QueuesOrdered
  <1>7. ASSUME NEW k \in 1..Len(Q[h])
        PROVE  /\ Q[h][k] < n
               /\ Q[h][k] \notin D
               /\ \A l \in 1..Len(Q[h]) : k < l => Q[h][k] < Q[h][l]
               /\ \A s \in 1..Len(S) : /\ S[s].pkt # Q[h][k]
                                       /\ S[s].hop = A[h] => S[s].pkt < Q[h][k]
    BY <1>b, <1>o, <1>s, ZenonT(60)
  <1>8. ASSUME NEW s \in 1..Len(T)
        PROVE  /\ T[s].pkt < n
               /\ T[s].pkt \notin D
               /\ \A t \in 1..Len(T) : s # t => T[s].pkt # T[t].pkt
               /\ \A t \in 1..Len(T) :
                     (s < t /\ T[s].hop = T[t].hop) => T[s].pkt < T[t].pkt
    <2>1. CASE s \in 1..Len(S) /\ T[s] = S[s]
      <3>1. /\ S[s].pkt < n
            /\ S[s].pkt \notin D
            /\ \A t \in 1..Len(S) : s # t => S[s].pkt # S[t].pkt
            /\ \A t \in 1..Len(S) : (s < t /\ S[s].hop = S[t].hop) => S[s].pkt < S[t].pkt
        BY <2>1, SentAt, Zenon
      <3>2. ASSUME NEW t \in 1..Len(T)
            PROVE  /\ s # t => T[s].pkt # T[t].pkt
                   /\ (s < t /\ T[s].hop = T[t].hop) => T[s].pkt < T[t].pkt
        <4>1. CASE t \in 1..Len(S) /\ T[t] = S[t]
          BY <2>1, <3>1, <4>1, Zenon
        <4>2. CASE \E k \in 1..Len(Q[h]) : T[t].pkt = Q[h][k] /\ T[t].hop = A[h]
          <5>1. PICK k \in 1..Len(Q[h]) : T[t].pkt = Q[h][k] /\ T[t].hop = A[h]
            BY <4>2, Zenon
          <5>2. S[s].pkt # Q[h][k] /\ (S[s].hop = A[h] => S[s].pkt < Q[h][k])
            BY <1>7, <2>1, Zenon
          <5>3. QED
            BY <2>1, <5>1, <5>2, ZenonT(60)
        <4>3. QED
          BY <1>3, <4>1, <4>2, Zenon
      <3>3. QED
        BY <2>1, <3>1, <3>2, Zenon
    <2>2. CASE \E k \in 1..Len(Q[h]) :
                  s = Len(S) + k /\ T[s].pkt = Q[h][k] /\ T[s].hop = A[h]
      <3>1. PICK k \in 1..Len(Q[h]) :
                  s = Len(S) + k /\ T[s].pkt = Q[h][k] /\ T[s].hop = A[h]
        BY <2>2, Zenon
      <3>2. ASSUME NEW t \in 1..Len(T)
            PROVE  /\ s # t => T[s].pkt # T[t].pkt
                   /\ (s < t /\ T[s].hop = T[t].hop) => T[s].pkt < T[t].pkt
        <4>1. CASE t \in 1..Len(S) /\ T[t] = S[t]
          <5>1. ~(s < t)
            BY <1>1, <1>2, <3>1, <4>1
          <5>2. T[t].pkt # Q[h][k]
            BY <1>7, <4>1, ZenonT(60)
          <5>3. QED
            BY <3>1, <5>1, <5>2, ZenonT(60)
        <4>2. CASE \E l \in 1..Len(Q[h]) :
                      t = Len(S) + l /\ T[t].pkt = Q[h][l] /\ T[t].hop = A[h]
          <5>1. PICK l \in 1..Len(Q[h]) : t = Len(S) + l /\ T[t].pkt = Q[h][l]
            BY <4>2, Zenon
          <5>2. /\ s < t => k < l
                /\ s # t => k < l \/ l < k
            <6>1. s = Len(S) + k /\ t = Len(S) + l
              BY <3>1, <5>1, Zenon
            <6>2. Len(S) \in Nat /\ k \in Nat /\ l \in Nat
              BY <1>1, <1>2
            <6>3. QED
              BY <6>1, <6>2, SMTT(60)
          <5>3. /\ k < l => Q[h][k] < Q[h][l]
                /\ l < k => Q[h][l] < Q[h][k]
            BY <1>7, Zenon
          <5>4. Q[h][k] \in Nat /\ Q[h][l] \in Nat
            BY <1>1, Zenon
          <5>5. QED
            BY <3>1, <5>1, <5>2, <5>3, <5>4, Trichotomy, ZenonT(60)
        <4>3. QED
          BY <1>3, <4>1, <4>2, Zenon
      <3>3. QED
        BY <1>7, <3>1, <3>2, ZenonT(60)
    <2>3. QED
      BY <1>3, <2>1, <2>2, Zenon
  <1>9. SentOnce(T, D, n)
    BY <1>8, ZenonT(60) DEF SentOnce
  <1>10. ASSUME NEW i \in Slots, NEW k \in 1..Len(Q[i])
         PROVE  \/ \E l \in 1..Len(R[i]) : R[i][l] = Q[i][k]
                \/ \E s \in 1..Len(T) : T[s].pkt = Q[i][k]
    <2>1. CASE i = h
      <3>1. Len(S) + k \in 1..Len(T) /\ k \in 1..Len(Q[h])
        BY <1>1, <1>2, <2>1, SMTT(60)
      <3>2. T[Len(S) + k].pkt = Q[i][k]
        BY <1>2, <2>1, <3>1, Zenon
      <3>3. QED
        BY <3>1, <3>2, Zenon
    <2>2. CASE i # h
      <3>1. R[i] = Q[i]
        BY <2>2, Zenon DEF Emptied
      <3>2. QED
        BY <3>1, Zenon
    <2>3. QED
      BY <2>1, <2>2, Zenon
  <1>11. \A s \in 1..Len(S) : s \in 1..Len(T) /\ T[s] = S[s]
    BY <1>1, <1>2, SMTT(60)
  <1>12. ASSUME NEW p \in 1..(n - 1)
         PROVE  \/ p \in D
                \/ \E i \in Slots : \E k \in 1..Len(R[i]) : R[i][k] = p
                \/ \E s \in 1..Len(T) : T[s].pkt = p
    <2>1. CASE p \in D
      BY <2>1, Zenon
    <2>2. CASE \E i \in Slots : \E k \in 1..Len(Q[i]) : Q[i][k] = p
      <3>1. PICK i \in Slots : \E k \in 1..Len(Q[i]) : Q[i][k] = p
        BY <2>2, Zenon
      <3>2. PICK k \in 1..Len(Q[i]) : Q[i][k] = p
        BY <3>1, Zenon
      <3>3. QED
        BY <1>10, <3>2, ZenonT(60)
    <2>3. CASE \E s \in 1..Len(S) : S[s].pkt = p
      BY <2>3, <1>11, Zenon
    <2>4. QED
      BY <1>p, <2>1, <2>2, <2>3, ZenonT(60)
  <1>13. NoneForgotten(R, T, D, n)
    BY <1>12, SomewhereAt, ZenonT(60) DEF NoneForgotten
  <1>14. QED
    BY <1>1, <1>2, <1>6, <1>9, <1>13, Zenon DEF T, Placed

\* Types of the queues and of the frames sent.
LEMMA FateState ==
  ASSUME IInv
  PROVE  /\ entries \in [Slots -> Entry]
         /\ Queues \in [Slots -> Seq(Pkts)]
         /\ \A i \in Slots : Queues[i] = entries[i].waitq /\ Addresses[i] = entries[i].ip
         /\ \A i \in Slots : Queues[i] # <<>> => entries[i].state = "PENDING"
         /\ sent \in Seq(Frame)
         /\ dropped \in SUBSET Pkts
         /\ nextPkt \in Nat
  BY DEF IInv, TypeOK, Queues, Addresses, Frame, Entry, ParkedOnlyPending

\* Losing whole queues: slots in X give up their packets, the others keep
\* theirs; used for eviction and for the tick.
LEMMA LoseQueues ==
  ASSUME NEW Q, NEW R \in [Slots -> Seq(Pkts)], NEW A, NEW B, NEW S, NEW D, NEW n,
         NEW X \in SUBSET Slots, Placed(Q, A, S, D, n), SameHops(R, A, B),
         \A i \in X : R[i] = <<>>, \A i \in Slots \ X : R[i] = Q[i]
  PROVE  Placed(R, B, S, D \cup UNION {Elems(Q[i]) : i \in X}, n)
  <1> DEFINE d == [i \in Slots |-> IF i \in X THEN Len(Q[i]) ELSE 0]
  <1>0. Q \in [Slots -> Seq(Pkts)]
    BY Zenon DEF Placed
  <1>1. \A i \in Slots : Q[i] \in Seq(Pkts) /\ Len(Q[i]) \in Nat
    BY <1>0, SMTT(60)
  <1>2. /\ d \in [Slots -> Nat]
        /\ \A i \in Slots : R[i] = IF i \in X THEN <<>> ELSE Q[i]
        /\ \A i \in Slots : d[i] = IF i \in X THEN Len(Q[i]) ELSE 0
    BY <1>1, Zenon
  <1> HIDE DEF d
  <1>3. Shifted(Q, R, d)
    <2> SUFFICES ASSUME NEW i \in Slots
                 PROVE  /\ d[i] \in 0..Len(Q[i])
                        /\ Len(R[i]) = Len(Q[i]) - d[i]
                        /\ \A k \in 1..Len(R[i]) : R[i][k] = Q[i][k + d[i]]
      BY Zenon DEF Shifted
    <2>1. CASE i \in X
      <3>1. R[i] = <<>> /\ d[i] = Len(Q[i])
        BY <1>2, <2>1, Zenon
      <3>2. QED
        BY <1>1, <3>1, SMTT(60)
    <2>2. CASE i \notin X
      <3>1. R[i] = Q[i] /\ d[i] = 0
        BY <1>2, <2>2, Zenon
      <3>2. QED
        BY <1>1, <3>1, SMTT(60)
    <2>3. QED
      BY <2>1, <2>2, Zenon
  <1>5. Placed(R, B, S, D \cup Oldest(Q, d), n)
    BY <1>2, <1>3, DropStep, Zenon
  <1>6. Oldest(Q, d) = UNION {Elems(Q[i]) : i \in X}
    <2>1. ASSUME NEW p \in Oldest(Q, d) PROVE p \in UNION {Elems(Q[i]) : i \in X}
      <3>1. PICK i \in Slots : \E k \in 1..d[i] : Q[i][k] = p
        BY Zenon DEF Oldest
      <3>2. PICK k \in 1..d[i] : Q[i][k] = p
        BY <3>1, Zenon
      <3>3. i \in X /\ k \in 1..Len(Q[i])
        BY <1>1, <1>2, SMTT(60)
      <3>4. p \in Elems(Q[i])
        BY <3>2, <3>3, Zenon DEF Elems
      <3>5. QED
        BY <3>3, <3>4, Zenon
    <2>2. ASSUME NEW p \in UNION {Elems(Q[i]) : i \in X} PROVE p \in Oldest(Q, d)
      <3>1. PICK i \in X : p \in Elems(Q[i])
        BY Zenon
      <3>2. PICK k \in 1..Len(Q[i]) : Q[i][k] = p
        BY <3>1, Zenon DEF Elems
      <3>3. i \in Slots /\ k \in 1..d[i] /\ p \in Pkts
        BY <1>1, <1>2, <3>2, SeqElement, Zenon
      <3>4. QED
        BY <3>2, <3>3, Zenon DEF Oldest
    <2>3. QED
      BY <2>1, <2>2, Zenon
  <1>8. QED
    BY <1>5, <1>6, Zenon

\* Park on the queue of slot h: the oldest packet goes if the queue is full,
\* then the new one is appended.
LEMMA ParkFate ==
  ASSUME NEW Q, NEW R \in [Slots -> Seq(Pkts)], NEW A, NEW B, NEW S, NEW D,
         NEW n \in Pkts, NEW h \in Slots, NEW e, e.waitq = Q[h], Placed(Q, A, S, D, n),
         R[h] = Append(IF Len(Q[h]) >= ARP_WAITQ_MAX THEN Tail(Q[h]) ELSE Q[h], n),
         \A i \in Slots : i # h => R[i] = Q[i],
         SameHops(Q, A, B)
  PROVE  Placed(R, B, S, D \cup Overflow(e), n + 1)
  <1>0. Q \in [Slots -> Seq(Pkts)]
    BY Zenon DEF Placed
  <1>1. /\ \A i \in Slots : Q[i] \in Seq(Pkts) /\ Len(Q[i]) \in Nat
        /\ n \in Nat
        /\ ARP_WAITQ_MAX \in Nat \ {0}
    BY <1>0, ArpConstants, SMTT(60) DEF Pkts
  <1>2. CASE Len(Q[h]) >= ARP_WAITQ_MAX
    <2> DEFINE d == [i \in Slots |-> IF i = h THEN 1 ELSE 0]
               P == [Q EXCEPT ![h] = Tail(Q[h])]
               E == D \cup Oldest(Q, d)
    <2>1. /\ Q[h] # <<>>
          /\ Len(Q[h]) >= 1
          /\ Head(Q[h]) = Q[h][1]
          /\ Head(Q[h]) \in Pkts
          /\ Tail(Q[h]) \in Seq(Pkts)
          /\ Len(Tail(Q[h])) = Len(Q[h]) - 1
          /\ \A k \in 1..Len(Tail(Q[h])) : Tail(Q[h])[k] = Q[h][k + 1]
      <3>1. Q[h] # <<>> /\ Len(Q[h]) >= 1
        BY <1>1, <1>2, SMTT(60)
      <3>2. QED
        BY <1>1, <3>1, SeqTail, SMTT(60)
    <2>2. /\ P \in [Slots -> Seq(Pkts)]
          /\ P[h] = Tail(Q[h])
          /\ \A i \in Slots : i # h => P[i] = Q[i]
          /\ d \in [Slots -> Nat]
          /\ d[h] = 1
          /\ \A i \in Slots : i # h => d[i] = 0
          /\ Appended(P, R, h, n)
      BY <1>0, <1>2, <2>1, Zenon DEF Appended
    <2> HIDE DEF d, P
    <2>3. Shifted(Q, P, d)
      <3> SUFFICES ASSUME NEW i \in Slots
                   PROVE  /\ d[i] \in 0..Len(Q[i])
                          /\ Len(P[i]) = Len(Q[i]) - d[i]
                          /\ \A k \in 1..Len(P[i]) : P[i][k] = Q[i][k + d[i]]
        BY Zenon DEF Shifted
      <3>1. CASE i = h
        <4>1. P[i] = Tail(Q[i]) /\ d[i] = 1
          BY <2>2, <3>1, Zenon
        <4>2. QED
          BY <1>1, <2>1, <3>1, <4>1, SMTT(60)
      <3>2. CASE i # h
        <4>1. P[i] = Q[i] /\ d[i] = 0
          BY <2>2, <3>2, Zenon
        <4>2. QED
          BY <1>1, <4>1, SMTT(60)
      <3>3. QED
        BY <3>1, <3>2, Zenon
    <2>4. SameHops(P, A, B) /\ SameHops(P, B, B)
      BY <2>1, <2>2, ZenonT(60) DEF SameHops
    <2>5. Placed(P, B, S, E, n)
      BY <2>2, <2>3, <2>4, DropStep, ZenonT(60)
    <2>6. Oldest(Q, d) = Overflow(e)
      <3>1. Overflow(e) = {Q[h][1]}
        BY <1>2, <2>1, Zenon DEF Overflow
      <3>2. Q[h][1] \in Oldest(Q, d)
        <4>1. Q[h][1] \in Pkts /\ 1 \in 1..d[h]
          BY <2>1, <2>2, SMTT(60)
        <4>2. QED
          BY <4>1, Zenon DEF Oldest
      <3>3. ASSUME NEW p \in Oldest(Q, d) PROVE p = Q[h][1]
        <4>1. PICK i \in Slots : \E k \in 1..d[i] : Q[i][k] = p
          BY Zenon DEF Oldest
        <4>2. PICK k \in 1..d[i] : Q[i][k] = p
          BY <4>1, Zenon
        <4>3. i = h /\ k = 1
          BY <2>2, OneTo, ZenonT(60)
        <4>4. QED
          BY <4>2, <4>3, Zenon
      <3>4. QED
        BY <3>1, <3>2, <3>3, Zenon
    <2> HIDE DEF E
    <2>9. Placed(R, B, S, E, n + 1)
      BY <2>2, <2>4, <2>5, AppendStep, Zenon
    <2>10. QED
      BY <2>6, <2>9, Zenon DEF E
  <1>3. CASE ~(Len(Q[h]) >= ARP_WAITQ_MAX)
    <2>1. D \cup Overflow(e) = D
      BY <1>3, Zenon DEF Overflow
    <2>2. Appended(Q, R, h, n)
      BY <1>3, Zenon DEF Appended
    <2>4. Placed(R, B, S, D, n + 1)
      BY <2>2, AppendStep, Zenon
    <2>5. QED
      BY <2>1, <2>4, ZenonT(60)
  <1>4. QED
    BY <1>2, <1>3, Zenon

\* What is evicted with a slot is its queue; a FREE slot has none.
LEMMA EvictedElems ==
  ASSUME IInv, NEW i \in Slots
  PROVE  Evicted(i) = UNION {Elems(Queues[j]) : j \in {i}}
  <1>1. /\ Queues[i] = entries[i].waitq
        /\ entries[i].state = "FREE" => Queues[i] = <<>>
    BY FateState, Zenon DEF IInv, ParkedOnlyPending
  <1>2. Elems(Queues[i]) = Evicted(i)
    <2>1. CASE entries[i].state = "FREE"
      BY <1>1, <2>1 DEF Evicted, Elems
    <2>2. CASE entries[i].state # "FREE"
      BY <1>1, <2>2, Zenon DEF Evicted
    <2>3. QED
      BY <2>1, <2>2, Zenon
  <1>3. QED
    BY <1>2, Zenon

\* arp_resolve accounts for the packet it is given and for those it drops.
LEMMA ResolveFate ==
  ASSUME IInv, PInv, NEW hop \in Hops, NEW dev \in Devs, arp_resolve(hop, dev)
  PROVE  PInv'
  <1>1. IInv'
    BY ResolveStep, Zenon
  <1>2. /\ entries \in [Slots -> Entry]
        /\ Queues \in [Slots -> Seq(Pkts)]
        /\ \A i \in Slots : Queues[i] = entries[i].waitq /\ Addresses[i] = entries[i].ip
        /\ \A i \in Slots : Queues[i] # <<>> => entries[i].state = "PENDING"
        /\ sent \in Seq(Frame)
        /\ dropped \in SUBSET Pkts
    BY FateState, Zenon
  <1>3. /\ nextPkt \in Pkts
        /\ nextPkt' = nextPkt + 1
    BY DEF IInv, TypeOK, arp_resolve, Pkts
  <1>4. Queues' \in [Slots -> Seq(Pkts)]
    BY <1>1, Zenon DEF IInv, TypeOK, Queues
  <1>0. PICK i \in Slots :
          \/ arp_lookup(i, hop) /\ resolve_hit(i, dev)
          \/ arp_lookup(i, hop) /\ resolve_pending(i)
          \/ NoEntry(hop) /\ arp_alloc_entry(i) /\ resolve_miss(i, hop, dev)
    BY Zenon DEF arp_resolve
  <1>5. CASE arp_lookup(i, hop) /\ resolve_hit(i, dev)
    <2> DEFINE f == [pkt |-> nextPkt, hop |-> entries[i].ip, mac |-> entries[i].mac,
                     dev |-> dev]
    <2>1. /\ sent' = Append(sent, f)
          /\ entries' = entries
          /\ dropped' = dropped
          /\ entries[i].state = "RESOLVED"
          /\ entries[i].ip = hop
      BY <1>5, Zenon DEF resolve_hit, arp_lookup, Holds
    <2>2. f \in Frame /\ f.pkt = nextPkt /\ f.hop = hop
      BY <1>2, <1>3, <2>1, Zenon DEF Frame, Entry
    <2> HIDE DEF f
    <2>3. ASSUME NEW j \in Slots, Queues[j] # <<>> PROVE Addresses[j] # f.hop
      <3>1. entries[j].state = "PENDING" /\ Addresses[j] = entries[j].ip
        BY <1>2, <2>3, Zenon
      <3>2. j # i
        BY <2>1, <3>1, Zenon
      <3>3. QED
        BY <2>1, <2>2, <3>1, <3>2, Zenon DEF IInv, UniqueAddress
    <2>4. Queues' = Queues /\ Addresses' = Addresses
      BY <2>1, Zenon DEF Queues, Addresses
    <2>6. Placed(Queues, Addresses, Append(sent, f), dropped, nextPkt + 1)
      BY <1>3, <2>2, <2>3, HitStep, ZenonT(60) DEF PInv
    <2>7. QED
      BY <1>3, <2>1, <2>4, <2>6, Zenon DEF PInv
  <1>6. CASE arp_lookup(i, hop) /\ resolve_pending(i)
    <2>1. /\ entries' = [entries EXCEPT ![i] = Park(@, nextPkt)]
          /\ dropped' = dropped \cup Overflow(entries[i])
          /\ sent' = sent
      BY <1>6, Zenon DEF resolve_pending
    <2>2. /\ Park(entries[i], nextPkt).ip = entries[i].ip
          /\ Park(entries[i], nextPkt).waitq =
                Append(IF Len(Queues[i]) >= ARP_WAITQ_MAX THEN Tail(Queues[i])
                       ELSE Queues[i], nextPkt)
      BY <1>2, Zenon DEF Park, Entry
    <2>3. /\ Queues' \in [Slots -> Seq(Pkts)]
          /\ Queues'[i] = Append(IF Len(Queues[i]) >= ARP_WAITQ_MAX THEN Tail(Queues[i])
                                 ELSE Queues[i], nextPkt)
          /\ \A j \in Slots : j # i => Queues'[j] = Queues[j]
      <3>1. \A j \in Slots : Queues'[j] =
               IF j = i THEN Park(entries[i], nextPkt).waitq ELSE Queues[j]
        BY <1>2, <2>1, Zenon DEF Queues
      <3>2. QED
        BY <1>4, <2>2, <3>1, Zenon
    <2>4. Addresses' = Addresses
      <3>1. \A j \in Slots : entries'[j].ip = entries[j].ip
        BY <1>2, <2>1, <2>2, Zenon
      <3>2. QED
        BY <3>1, Zenon DEF Addresses
    <2>5. entries[i].waitq = Queues[i]
      BY <1>2, Zenon
    <2>6. Placed(Queues', Addresses, sent, dropped \cup Overflow(entries[i]), nextPkt + 1)
      <3>1. SameHops(Queues, Addresses, Addresses)
        BY Zenon DEF SameHops
      <3>2. QED
        BY <1>3, <2>3, <2>5, <3>1, ParkFate, ZenonT(60) DEF PInv
    <2>7. QED
      BY <1>3, <2>1, <2>4, <2>6, Zenon DEF PInv
  <1>7. CASE NoEntry(hop) /\ arp_alloc_entry(i) /\ resolve_miss(i, hop, dev)
    <2> DEFINE b == [Reclaimed(i) EXCEPT !.state = "PENDING", !.ip = hop, !.dev = dev,
                                         !.tries = 1, !.left = ARP_PENDING_RETRY]
               P == [j \in Slots |-> IF j \in {i} THEN <<>> ELSE Queues[j]]
               E == dropped \cup UNION {Elems(Queues[j]) : j \in {i}}
    <2>1. /\ entries' = [entries EXCEPT ![i] = Park(b, nextPkt)]
          /\ dropped' = dropped \cup Evicted(i) \cup Overflow(b)
          /\ sent' = sent
      BY <1>7, Zenon DEF resolve_miss
    <2>2. Reclaimed(i) \in Entry /\ Reclaimed(i).waitq = <<>>
      BY <1>2, FreeEntryType, Zenon DEF Reclaimed, FreeEntry, IInv, ParkedOnlyPending
    <2>3. /\ b.waitq = <<>>
          /\ b.ip = hop
          /\ Park(b, nextPkt).waitq =
                Append(IF Len(b.waitq) >= ARP_WAITQ_MAX THEN Tail(b.waitq) ELSE b.waitq,
                       nextPkt)
      BY <2>2, Zenon DEF Park, Entry
    <2>4. E = dropped \cup Evicted(i)
      BY EvictedElems, Zenon
    <2>7. \A j \in Slots \ {i} : Queues[j] # <<>> => Addresses[j] = Addresses'[j]
      BY <1>2, <2>1, Zenon DEF Addresses
    <2>8. Placed(P, Addresses', sent, E, nextPkt)
      <3>1. PICK B : B = Addresses'
        BY Zenon
      <3>2. {i} \in SUBSET Slots
        BY Zenon
      <3>3. SameHops(P, Addresses, B)
        BY <2>7, <3>1, Zenon DEF SameHops
      <3>4. /\ P \in [Slots -> Seq(Pkts)]
            /\ \A j \in {i} : P[j] = <<>>
            /\ \A j \in Slots \ {i} : P[j] = Queues[j]
        BY <1>2, SMTT(60)
      <3> HIDE DEF P
      <3>6. Placed(P, B, sent, E, nextPkt)
        BY <3>2, <3>3, <3>4, LoseQueues, ZenonT(60) DEF PInv
      <3>7. QED
        BY <3>1, <3>6, Zenon
    <2>9. P[i] = <<>> /\ \A j \in Slots : j # i => P[j] = Queues[j]
      BY Zenon
    <2> HIDE DEF P, E
    <2>11. b.waitq = P[i]
      BY <2>3, <2>9, Zenon
    <2>10. /\ Queues'[i] = Append(IF Len(P[i]) >= ARP_WAITQ_MAX THEN Tail(P[i])
                                  ELSE P[i], nextPkt)
           /\ \A j \in Slots : j # i => Queues'[j] = P[j]
      <3>1. \A j \in Slots : Queues'[j] =
               IF j = i THEN Park(b, nextPkt).waitq ELSE P[j]
        BY <1>2, <2>1, <2>9, Zenon DEF Queues
      <3>2. QED
        BY <2>3, <2>11, <3>1, Zenon
    <2> HIDE DEF b
    <2>12. Placed(Queues', Addresses', sent, E \cup Overflow(b), nextPkt + 1)
      <3>1. PICK B : B = Addresses'
        BY Zenon
      <3>2. Placed(P, B, sent, E, nextPkt)
        BY <2>8, <3>1, Zenon
      <3>3. PICK R : R = Queues'
        BY Zenon
      <3>4. /\ R \in [Slots -> Seq(Pkts)]
            /\ R[i] = Append(IF Len(P[i]) >= ARP_WAITQ_MAX THEN Tail(P[i]) ELSE P[i], nextPkt)
            /\ \A j \in Slots : j # i => R[j] = P[j]
            /\ SameHops(P, B, B)
        BY <1>4, <2>10, <3>3, Zenon DEF SameHops
      <3>5. Placed(R, B, sent, E \cup Overflow(b), nextPkt + 1)
        BY <1>3, <2>11, <3>2, <3>4, ParkFate, ZenonT(60)
      <3>6. QED
        BY <3>1, <3>3, <3>5, Zenon
    <2>13. QED
      BY <1>3, <2>1, <2>4, <2>12, Zenon DEF PInv
  <1>8. QED
    BY <1>0, <1>5, <1>6, <1>7, Zenon


\* The frames of a flush carry the packets of the queue, in its order.
LEMMA FlushPackets ==
  ASSUME NEW e \in Entry, NEW ip \in Hops, NEW dev \in Devs, NEW mac \in Macs,
         e.state # "PENDING" => e.waitq = <<>>
  PROVE  /\ Len(Flushed(e, ip, dev, mac)) = Len(e.waitq)
         /\ \A k \in 1..Len(e.waitq) : Flushed(e, ip, dev, mac)[k].pkt = e.waitq[k]
  <1>1. e.waitq \in Seq(Pkts)
    BY Zenon DEF Entry
  <1> DEFINE t == Transmit(e.waitq, ip, mac, dev)
  <1>2. /\ Len(t) = Len(e.waitq)
        /\ \A k \in 1..Len(e.waitq) : t[k].pkt = e.waitq[k]
    BY <1>1, SMTT(60) DEF Transmit
  <1>3. CASE e.state = "PENDING"
    BY <1>2, <1>3, Zenon DEF Flushed
  <1>4. CASE e.state # "PENDING"
    BY <1>4 DEF Flushed
  <1>5. QED
    BY <1>3, <1>4, Zenon

\* An ARP frame sends the queue behind its sender in order, or evicts one.
LEMMA InputFate ==
  ASSUME IInv, PInv, NEW spa \in Hops, NEW sha \in Macs, NEW dev \in Devs,
         NEW for_us \in BOOLEAN, arp_input(spa, sha, dev, for_us)
  PROVE  PInv'
  <1>1. IInv'
    BY InputStep, Zenon
  <1>2. /\ entries \in [Slots -> Entry]
        /\ Queues \in [Slots -> Seq(Pkts)]
        /\ \A i \in Slots : Queues[i] = entries[i].waitq /\ Addresses[i] = entries[i].ip
        /\ \A i \in Slots : Queues[i] # <<>> => entries[i].state = "PENDING"
        /\ sent \in Seq(Frame)
        /\ dropped \in SUBSET Pkts
    BY FateState, Zenon
  <1>3. nextPkt' = nextPkt
    BY Zenon DEF arp_input
  <1>4. Queues' \in [Slots -> Seq(Pkts)]
    BY <1>1, Zenon DEF IInv, TypeOK, Queues
  <1>5. PICK R : R = Queues'
    BY Zenon
  <1>6. PICK B : B = Addresses'
    BY Zenon
  <1>7. ASSUME NEW i \in Slots, arp_lookup(i, spa), merge_update(i, spa, sha, dev)
        PROVE  PInv'
    <2> DEFINE F == Flushed(entries[i], spa, dev, sha)
               e == arp_entry_resolve(entries[i], dev, sha)
    <2>1. /\ entries' = [entries EXCEPT ![i] = e]
          /\ dropped' = dropped
          /\ sent' = sent \o F
          /\ entries[i].state # "FREE"
          /\ entries[i].ip = spa
      BY <1>7, Zenon DEF merge_update, arp_lookup, Holds
    <2>2. entries[i].state # "PENDING" => entries[i].waitq = <<>>
      BY Zenon DEF IInv, ParkedOnlyPending
    <2>3. e.ip = entries[i].ip /\ e.waitq = <<>>
      BY <1>2, <2>2, ResolveLemma, SMTT(60)
    <2> HIDE DEF e
    <2>4. /\ F \in Seq(Frame)
          /\ \A k \in 1..Len(F) : F[k].hop = spa
      BY <1>2, FlushLemma, SMTT(60)
    <2>5. /\ Len(F) = Len(Queues[i])
          /\ \A k \in 1..Len(Queues[i]) : F[k].pkt = Queues[i][k]
      BY <1>2, <2>2, FlushPackets, SMTT(60)
    <2> HIDE DEF F
    <2>6. Emptied(Queues, R, i)
      BY <1>2, <1>5, <2>1, <2>3, Zenon DEF Queues, Emptied
    <2>7. \A j \in Slots : B[j] = Addresses[j]
      BY <1>2, <1>6, <2>1, <2>3, Zenon DEF Addresses
    <2>8. OtherHops(Queues, Addresses, B, i)
      BY <1>2, <2>1, <2>7, ZenonT(60) DEF IInv, UniqueAddress, OtherHops
    <2>9. Placed(R, B, sent \o F, dropped, nextPkt)
      <3>1. /\ R \in [Slots -> Seq(Pkts)]
            /\ \A k \in 1..Len(F) : F[k].hop = Addresses[i]
        BY <1>2, <1>4, <1>5, <2>1, <2>4, Zenon
      <3>2. Carries(F, Queues[i], Addresses[i])
        BY <2>5, <3>1, ZenonT(60) DEF Carries
      <3>3. Placed(Queues, Addresses, sent, dropped, nextPkt)
        BY Zenon DEF PInv
      <3>4. QED
        <4>1. R \in [Slots -> Seq(Pkts)] /\ F \in Seq(Frame)
          BY <2>4, <3>1, Zenon
        <4>2. QED
          BY <2>6, <2>8, <3>2, <3>3, <4>1, FlushStep, ZenonT(60)
    <2>10. QED
      BY <1>3, <1>5, <1>6, <2>1, <2>9, Zenon DEF PInv
  <1>8. ASSUME NEW i \in Slots, merge_create(i, spa, sha, dev)
        PROVE  PInv'
    <2> DEFINE b == [Reclaimed(i) EXCEPT !.ip = spa]
               e == arp_entry_resolve(b, dev, sha)
    <2>1. /\ entries' = [entries EXCEPT ![i] = e]
          /\ dropped' = dropped \cup Evicted(i)
          /\ sent' = sent
      BY <1>8, Zenon DEF merge_create
    <2>2. Reclaimed(i) \in Entry /\ Reclaimed(i).waitq = <<>>
      BY <1>2, FreeEntryType, Zenon DEF Reclaimed, FreeEntry, IInv, ParkedOnlyPending
    <2>3. b \in Entry /\ b.waitq = <<>>
      BY <2>2, Zenon DEF Entry
    <2> HIDE DEF b
    <2>4. e.waitq = <<>>
      BY <2>3, ResolveLemma, Zenon
    <2> HIDE DEF e
    <2>5. /\ {i} \in SUBSET Slots
          /\ \A j \in {i} : R[j] = <<>>
          /\ \A j \in Slots \ {i} : R[j] = Queues[j]
      BY <1>2, <1>5, <2>1, <2>4, Zenon DEF Queues
    <2>6. SameHops(R, Addresses, B)
      BY <1>2, <1>6, <2>1, <2>5, Zenon DEF Addresses, SameHops
    <2>7. Placed(R, B, sent, dropped \cup UNION {Elems(Queues[j]) : j \in {i}}, nextPkt)
      BY <1>4, <1>5, <2>5, <2>6, LoseQueues, ZenonT(60) DEF PInv
    <2>8. dropped' = dropped \cup UNION {Elems(Queues[j]) : j \in {i}}
      BY <2>1, EvictedElems, Zenon
    <2>9. QED
      BY <1>3, <1>5, <1>6, <2>1, <2>7, <2>8, Zenon DEF PInv
  <1>9. CASE UNCHANGED <<entries, sent, dropped>>
    BY <1>3, <1>9, Zenon DEF PInv, Queues, Addresses
  <1>10. QED
    BY <1>7, <1>8, <1>9, Zenon DEF arp_input

\* A tick drops the queues behind the resolutions that fail and no others.
LEMMA TickFate == ASSUME IInv, PInv, arp_tick PROVE PInv'
  <1>1. IInv'
    BY TickStep, Zenon
  <1>2. /\ entries \in [Slots -> Entry]
        /\ \A i \in Slots : Queues[i] = entries[i].waitq /\ Addresses[i] = entries[i].ip
        /\ \A i \in Slots : Queues[i] # <<>> => entries[i].state = "PENDING"
    BY FateState, Zenon
  <1>3. Queues' \in [Slots -> Seq(Pkts)]
    BY <1>1, Zenon DEF IInv, TypeOK, Queues
  <1>4. PICK R : R = Queues'
    BY Zenon
  <1>5. PICK B : B = Addresses'
    BY Zenon
  <1> DEFINE X == {j \in Slots : GivesUp(entries[j])}
  <1>6. ASSUME NEW i \in Slots
        PROVE  /\ R[i] = TickEntry(entries[i]).waitq
               /\ B[i] = TickEntry(entries[i]).ip
    BY <1>4, <1>5, Zenon DEF arp_tick, Queues, Addresses
  <1>7. ASSUME NEW i \in X PROVE R[i] = <<>>
    <2>1. TickEntry(entries[i]) = FreeEntry
      BY <1>7, Zenon DEF TickEntry, GivesUp
    <2>2. QED
      BY <1>6, <2>1 DEF FreeEntry
  <1>8. ASSUME NEW i \in Slots \ X
        PROVE  R[i] = Queues[i] /\ (R[i] # <<>> => Addresses[i] = B[i])
    <2>1. entries[i] \in Entry /\ ~GivesUp(entries[i])
      BY <1>2, Zenon
    <2>2. CASE ~Due(entries[i])
      BY <1>2, <1>6, <2>2, Zenon DEF TickEntry
    <2>3. CASE Due(entries[i]) /\ entries[i].state = "RESOLVED"
      BY <1>2, <1>6, <2>3, Zenon DEF TickEntry, Freed, FreeEntry
    <2>4. CASE Due(entries[i]) /\ entries[i].state # "RESOLVED"
      <3>1. TickEntry(entries[i]) = [entries[i] EXCEPT !.tries = entries[i].tries + 1,
                                                       !.left = ARP_PENDING_RETRY]
        BY <2>1, <2>4, Zenon DEF TickEntry
      <3>2. QED
        BY <1>2, <1>6, <2>1, <3>1, ZenonT(60) DEF Entry
    <2>5. QED
      BY <2>2, <2>3, <2>4, Zenon
  <1>9. X \in SUBSET Slots /\ SameHops(R, Addresses, B)
    BY <1>7, <1>8, Zenon DEF SameHops
  <1>10. dropped' = dropped \cup UNION {Elems(Queues[i]) : i \in X}
    <2>1. \A i \in X : Elems(Queues[i]) = Elems(entries[i].waitq)
      BY <1>2, Zenon
    <2>2. Abandoned = UNION {Elems(Queues[i]) : i \in X}
      BY <2>1, Zenon DEF Abandoned
    <2>3. QED
      BY <2>2, Zenon DEF arp_tick
  <1> HIDE DEF X
  <1>11. Placed(R, B, sent, dropped \cup UNION {Elems(Queues[i]) : i \in X}, nextPkt)
    BY <1>3, <1>4, <1>7, <1>8, <1>9, LoseQueues, ZenonT(60) DEF PInv
  <1>12. QED
    BY <1>4, <1>5, <1>10, <1>11, ZenonT(60) DEF PInv, arp_tick

\* Time moves no packet.
LEMMA AdvanceFate == ASSUME IInv, PInv, Advance PROVE PInv'
  <1>1. entries \in [Slots -> Entry]
    BY FateState, Zenon
  <1>2. ASSUME NEW i \in Slots
        PROVE  entries'[i].waitq = entries[i].waitq /\ entries'[i].ip = entries[i].ip
    <2>1. entries[i] \in Entry /\ entries'[i] = Elapse(entries[i])
      BY <1>1, Zenon DEF Advance
    <2>2. QED
      BY <2>1, Zenon DEF Elapse, Entry
  <1>3. Queues' = Queues /\ Addresses' = Addresses
    BY <1>2, Zenon DEF Queues, Addresses
  <1>4. QED
    BY <1>3, Zenon DEF PInv, Advance

\* Every step accounts for every packet, one case per operation of arp.c.
LEMMA FateStep == IInv /\ PInv /\ [Next]_vars => PInv'
  <1> SUFFICES ASSUME IInv, PInv, [Next]_vars PROVE PInv'
    BY Zenon
  <1>1. CASE UNCHANGED vars
    BY <1>1, Zenon DEF vars, PInv, Queues, Addresses
  <1>2. CASE Next
    BY <1>2, ResolveFate, InputFate, TickFate, AdvanceFate, ArpConstants DEF Next
  <1>3. QED
    BY <1>1, <1>2, Zenon

\* All packets are accounted for in every reachable state of the cache.
THEOREM FateInvariance == Spec => [](IInv /\ PInv)
  <1>1. QED
    BY InitLemma, NextStep, FateInit, FateStep, PTL DEF Spec

\* Packets for one next hop leave in the order ip_output handed them to
\* arp_resolve, whatever is parked, flushed, evicted or retried in between.
THEOREM HopsFifo == Spec => []FifoPerHop
  <1>1. PInv => FifoPerHop
    BY ZenonT(60) DEF PInv, Placed, SentOnce, FifoPerHop
  <1>2. QED
    BY <1>1, FateInvariance, PTL

\* The invariant places every packet exactly once.
LEMMA FateConserved == ASSUME IInv, PInv PROVE PacketConserved
  <1> DEFINE onQueue(p) == {x \in Slots \X (1..ARP_WAITQ_MAX) :
                               /\ x[2] <= Len(entries[x[1]].waitq)
                               /\ entries[x[1]].waitq[x[2]] = p}
             onWire(p) == {k \in 1..Len(sent) : sent[k].pkt = p}
  <1> SUFFICES ASSUME NEW p \in 1..(nextPkt - 1)
               PROVE  \/ p \in dropped /\ onQueue(p) = {} /\ onWire(p) = {}
                      \/ /\ p \notin dropped
                         /\ onWire(p) = {}
                         /\ \E x \in onQueue(p) : onQueue(p) = {x}
                      \/ /\ p \notin dropped
                         /\ onQueue(p) = {}
                         /\ \E x \in onWire(p) : onWire(p) = {x}
    BY ZenonT(60) DEF PacketConserved
  <1>1. /\ \A i \in Slots : Queues[i] = entries[i].waitq /\ Queues[i] \in Seq(Pkts)
        /\ \A i \in Slots : Len(Queues[i]) \in Nat /\ Len(Queues[i]) <= ARP_WAITQ_MAX
        /\ ARP_WAITQ_MAX \in Nat
    <2>1. \A i \in Slots : Queues[i] = entries[i].waitq
      BY FateState, Zenon
    <2>2. \A i \in Slots : Queues[i] \in Seq(Pkts)
      BY FateState, Zenon
    <2>3. ParkedOnlyPending
      BY Zenon DEF IInv
    <2>4. \A i \in Slots : Len(Queues[i]) <= ARP_WAITQ_MAX
      BY <2>1, <2>3, Zenon DEF ParkedOnlyPending
    <2>5. \A i \in Slots : Len(Queues[i]) \in Nat
      BY <2>2, SMT
    <2>6. ARP_WAITQ_MAX \in Nat
      BY ArpConstants, Zenon
    <2> QED BY <2>1, <2>2, <2>4, <2>5, <2>6, Zenon
  <1>2. Placed(Queues, Addresses, sent, dropped, nextPkt)
    BY Zenon DEF PInv
  <1>s. \A i \in Slots : \A k \in 1..Len(Queues[i]) :
           /\ Queues[i][k] \notin dropped
           /\ \A s \in 1..Len(sent) : sent[s].pkt # Queues[i][k]
    BY <1>2, OrderedAt, Zenon
  <1>o. \A i \in Slots : \A k, l \in 1..Len(Queues[i]) : k < l => Queues[i][k] < Queues[i][l]
    BY <1>2, OrderedAt, Zenon
  <1>u. \A i, j \in Slots : \A k \in 1..Len(Queues[i]) : \A l \in 1..Len(Queues[j]) :
           Queues[j][l] = Queues[i][k] => i = j
    BY <1>2, OrderedAt, ZenonT(60)
  <1>3. \/ p \in dropped
        \/ \E i \in Slots : \E k \in 1..Len(Queues[i]) : Queues[i][k] = p
        \/ \E s \in 1..Len(sent) : sent[s].pkt = p
    BY Zenon DEF PInv, Placed, NoneForgotten
  <1>4. ASSUME NEW x \in onQueue(p)
        PROVE  /\ x[1] \in Slots
               /\ x[2] \in 1..Len(Queues[x[1]])
               /\ Queues[x[1]][x[2]] = p
               /\ x = <<x[1], x[2]>>
    BY <1>1
  <1>5. ASSUME NEW i \in Slots, NEW k \in 1..Len(Queues[i]), Queues[i][k] = p
        PROVE  <<i, k>> \in onQueue(p)
    BY <1>1, <1>5, SMTT(60)
  <1>6. onQueue(p) # {} => p \notin dropped /\ onWire(p) = {}
    <2>1. SUFFICES ASSUME NEW x \in onQueue(p) PROVE p \notin dropped /\ onWire(p) = {}
      BY Zenon
    <2>2. /\ Queues[x[1]][x[2]] \notin dropped
          /\ \A s \in 1..Len(sent) : sent[s].pkt # Queues[x[1]][x[2]]
      BY <1>4, <1>s, ZenonT(60)
    <2>3. QED
      BY <1>4, <2>2, Zenon
  <1>7. ASSUME NEW x \in onQueue(p), NEW y \in onQueue(p) PROVE x = y
    <2> DEFINE i == x[1]
               k == x[2]
               j == y[1]
               l == y[2]
    <2>1. /\ i \in Slots /\ k \in 1..Len(Queues[i]) /\ Queues[i][k] = p /\ x = <<i, k>>
          /\ j \in Slots /\ l \in 1..Len(Queues[j]) /\ Queues[j][l] = p /\ y = <<j, l>>
      BY <1>4, Zenon
    <2> HIDE DEF i, j, k, l
    <2>2. i = j
      <3>1. Queues[j][l] = Queues[i][k]
        BY <2>1, Zenon
      <3>2. QED
        BY <1>u, <2>1, <3>1, Zenon
    <2>3. /\ \A m \in 1..Len(Queues[i]) : k < m => Queues[i][k] < Queues[i][m]
          /\ \A m \in 1..Len(Queues[i]) : l < m => Queues[i][l] < Queues[i][m]
      BY <1>o, <2>1, <2>2, ZenonT(60)
    <2>4. k = l
      <3>0. ~(p < p)
        <4>1. p \in Int
          OBVIOUS
        <4>2. QED
          BY <4>1, Irreflexive, Zenon
      <3>1. k \in Nat /\ l \in Nat
        <4>1. Len(Queues[i]) \in Nat /\ Len(Queues[j]) \in Nat
          BY <1>1, <2>1, Zenon
        <4>2. QED
          BY <2>1, <4>1
      <3>2. ~(k < l)
        BY <2>1, <2>2, <2>3, <3>0, ZenonT(60)
      <3>3. ~(l < k)
        BY <2>1, <2>2, <2>3, <3>0, ZenonT(60)
      <3>4. QED
        BY <3>1, <3>2, <3>3, Trichotomy, Zenon
    <2>5. QED
      BY <2>1, <2>2, <2>4, Zenon
  <1>8. onWire(p) # {} => p \notin dropped
    BY Zenon DEF PInv, Placed, SentOnce
  <1>9. ASSUME NEW s \in onWire(p), NEW t \in onWire(p) PROVE s = t
    BY Zenon DEF PInv, Placed, SentOnce
  <1> HIDE DEF onQueue
  <1>10. CASE p \in dropped
    BY <1>6, <1>8, <1>10, Zenon
  <1>11. CASE \E i \in Slots : \E k \in 1..Len(Queues[i]) : Queues[i][k] = p
    <2>1. PICK i \in Slots : \E k \in 1..Len(Queues[i]) : Queues[i][k] = p
      BY <1>11, Zenon
    <2>2. PICK k \in 1..Len(Queues[i]) : Queues[i][k] = p
      BY <2>1, Zenon
    <2>3. <<i, k>> \in onQueue(p)
      BY <1>5, <2>2, Zenon
    <2>4. onQueue(p) = {<<i, k>>}
      BY <1>7, <2>3, Zenon
    <2>5. QED
      BY <1>6, <2>3, <2>4, Zenon
  <1>12. CASE \E s \in 1..Len(sent) : sent[s].pkt = p
    <2>1. PICK s \in onWire(p) : TRUE
      BY <1>12, Zenon
    <2>2. onWire(p) = {s}
      BY <1>9, <2>1, Zenon
    <2>3. QED
      BY <1>6, <1>8, <2>1, <2>2, Zenon
  <1>13. QED
    BY <1>3, <1>10, <1>11, <1>12, Zenon

\* Every packet handed to arp_resolve is transmitted once, parked in one
\* place, or dropped, and never two of these: arp.c neither leaks nor
\* duplicates a packet, whatever the order of its calls.
THEOREM PacketsConserved == Spec => []PacketConserved
  <1>1. IInv /\ PInv => PacketConserved
    BY FateConserved, Zenon
  <1>2. QED
    BY <1>1, FateInvariance, PTL
=============================================================================
