------------------------------ MODULE ArpCache ------------------------------
(***************************************************************************)
(* The ARP cache of PacketForge (src/src/arp/arp.c): a fixed table of      *)
(* entries, each FREE, PENDING (a request is out, IPv4 packets are parked  *)
(* on its wait queue) or RESOLVED.                                         *)
(*                                                                         *)
(* Packets are numbered in the order the IP layer hands them to            *)
(* arp_resolve.  A deadline is kept as the time left until it,             *)
(* left = deadline_ms - now, so the clock itself needs no variable.        *)
(*                                                                         *)
(* The auxiliary variables sent, dropped and heard record what             *)
(* happened to every packet and which binding was last announced.          *)
(***************************************************************************)
EXTENDS Integers, Sequences

CONSTANTS
    ARP_CACHE_SIZE,         \* entries in the table
    ARP_CACHE_TTL,          \* life of a RESOLVED entry, in clock units
    ARP_PENDING_RETRY,      \* time between two requests
    ARP_PENDING_MAX_TRIES,  \* requests before a resolution fails
    ARP_WAITQ_MAX,          \* packets parked behind one resolution
    Hops,                   \* next-hop addresses in use
    Macs,                   \* hardware addresses
    MacsOf,                 \* MacsOf[h]: the addresses neighbour h announces
    Devs,                   \* network devices
    None,                   \* an address or device that was never set
    MaxPkts,                \* bound: packets handed to the cache
    MaxLate                 \* bound: how late the tick may run

ASSUME ArpConstants ==
    /\ ARP_CACHE_SIZE \in Nat \ {0}
    /\ ARP_CACHE_TTL \in Nat \ {0}
    /\ ARP_PENDING_RETRY \in Nat \ {0}
    /\ ARP_PENDING_MAX_TRIES \in Nat \ {0}
    /\ ARP_WAITQ_MAX \in Nat \ {0}
    /\ MaxPkts \in Nat
    /\ MaxLate \in Nat
    /\ MacsOf \in [Hops -> SUBSET Macs]
    /\ None \notin Hops \cup Macs \cup Devs

VARIABLES
    entries,    \* struct arp_entry entries[ARP_CACHE_SIZE]
    nextPkt,    \* number of the next packet handed to arp_resolve
    sent,       \* IPv4 packets transmitted, in order
    dropped,    \* packets freed without being transmitted
    heard       \* heard[h]: hardware address of the last ARP frame from h

vars == <<entries, nextPkt, sent, dropped, heard>>

Slots == 1..ARP_CACHE_SIZE
Pkts == 1..MaxPkts
States == {"FREE", "PENDING", "RESOLVED"}

Elems(q) == {q[k] : k \in 1..Len(q)}

Parked(p) == \E i \in Slots : p \in Elems(entries[i].waitq)

TypeOK ==
    /\ entries \in [Slots -> [state : States,
                              ip    : Hops \cup {None},
                              mac   : Macs \cup {None},
                              dev   : Devs \cup {None},
                              tries : 0..ARP_PENDING_MAX_TRIES,
                              left  : Int,
                              waitq : Seq(Pkts)]]
    /\ nextPkt \in 1..(MaxPkts + 1)
    /\ sent \in Seq([pkt : Pkts, hop : Hops, mac : Macs \cup {None}, dev : Devs])
    /\ dropped \in SUBSET Pkts
    /\ heard \in [Hops -> Macs \cup {None}]

FreeEntry ==
    [state |-> "FREE", ip |-> None, mac |-> None, dev |-> None, tries |-> 0,
     left |-> 0, waitq |-> <<>>]

arp_init == [i \in Slots |-> FreeEntry]

Init ==
    /\ entries = arp_init
    /\ nextPkt = 1
    /\ sent = <<>>
    /\ dropped = {}
    /\ heard = [h \in Hops |-> None]

-----------------------------------------------------------------------------
(* Table operations.  The lookups are relations "slot i is the one the     *)
(* loop stops at"; at most one slot satisfies each.                        *)

\* Fault variant: a pending entry is not found.
Holds_resolved(i, ip) == entries[i].state = "RESOLVED" /\ entries[i].ip = ip

Holds(i, ip) == entries[i].state # "FREE" /\ entries[i].ip = ip

arp_lookup(i, ip) ==
    /\ Holds(i, ip)
    /\ \A j \in Slots : j < i => ~Holds(j, ip)

NoEntry(ip) == \A i \in Slots : ~Holds(i, ip)

\* The first FREE slot, else the entry closest to its deadline.
arp_alloc_entry(i) ==
    IF \E j \in Slots : entries[j].state = "FREE"
    THEN /\ entries[i].state = "FREE"
         /\ \A j \in Slots : j < i => entries[j].state # "FREE"
    ELSE \A j \in Slots : /\ entries[i].left <= entries[j].left
                          /\ j < i => entries[i].left < entries[j].left

\* An evicted entry is cleared and its parked packets are freed; a FREE one
\* is handed out as it is.
Reclaimed(i) ==
    IF entries[i].state = "FREE" THEN entries[i] ELSE FreeEntry

Evicted(i) ==
    IF entries[i].state = "FREE" THEN {} ELSE Elems(entries[i].waitq)

\* Fault variant: the queue is flushed from its tail.
Transmit_lifo(q, hop, mac, dev) ==
    [k \in 1..Len(q) |-> [pkt |-> q[Len(q) + 1 - k], hop |-> hop, mac |-> mac, dev |-> dev]]

Transmit(q, hop, mac, dev) ==
    [k \in 1..Len(q) |-> [pkt |-> q[k], hop |-> hop, mac |-> mac, dev |-> dev]]

\* Fault variant: parked packets stay on the queue of a resolved entry.
arp_entry_resolve_noflush(e, dev, mac) ==
    [e EXCEPT !.state = "RESOLVED", !.mac = mac, !.dev = dev,
              !.left = ARP_CACHE_TTL, !.tries = 0]

arp_entry_resolve(e, dev, mac) ==
    [e EXCEPT !.state = "RESOLVED", !.mac = mac, !.dev = dev,
              !.left = ARP_CACHE_TTL, !.tries = 0,
              !.waitq = IF e.state = "PENDING" THEN <<>> ELSE @]

Flushed(e, ip, dev, mac) ==
    IF e.state = "PENDING" THEN Transmit(e.waitq, ip, mac, dev) ELSE <<>>

-----------------------------------------------------------------------------
(* arp_resolve as its callers use it (ip_output_one, ip_forward): a hit    *)
(* is transmitted at once, everything else is parked.                      *)

Park(e, p) ==
    [e EXCEPT !.waitq = Append(IF Len(@) >= ARP_WAITQ_MAX THEN Tail(@) ELSE @, p)]

Overflow(e) ==
    IF Len(e.waitq) >= ARP_WAITQ_MAX THEN {Head(e.waitq)} ELSE {}

resolve_hit(i, dev) ==
    /\ entries[i].state = "RESOLVED"
    /\ sent' = Append(sent, [pkt |-> nextPkt, hop |-> entries[i].ip,
                             mac |-> entries[i].mac, dev |-> dev])
    /\ UNCHANGED <<entries, dropped>>

resolve_pending(i) ==
    /\ entries[i].state = "PENDING"
    /\ entries' = [entries EXCEPT ![i] = Park(@, nextPkt)]
    /\ dropped' = dropped \cup Overflow(entries[i])
    /\ UNCHANGED sent

resolve_miss(i, hop, dev) ==
    LET e == [Reclaimed(i) EXCEPT !.state = "PENDING", !.ip = hop, !.dev = dev,
                                  !.tries = 1, !.left = ARP_PENDING_RETRY]
    IN  /\ entries' = [entries EXCEPT ![i] = Park(e, nextPkt)]
        /\ dropped' = dropped \cup Evicted(i) \cup Overflow(e)
        /\ UNCHANGED sent

arp_resolve(hop, dev) ==
    /\ nextPkt <= MaxPkts
    /\ nextPkt' = nextPkt + 1
    /\ \E i \in Slots :
          \/ arp_lookup(i, hop) /\ resolve_hit(i, dev)
          \/ arp_lookup(i, hop) /\ resolve_pending(i)
          \/ NoEntry(hop) /\ arp_alloc_entry(i) /\ resolve_miss(i, hop, dev)
    /\ UNCHANGED heard

-----------------------------------------------------------------------------
(* A well-formed ARP frame arrives on dev: sender (spa, sha), for_us when  *)
(* its target is the address of dev.  An existing mapping is updated from  *)
(* any frame, a new one is created only when we are the target.  The reply *)
(* to a request for us, and op, touch nothing of the cache.                *)

\* Fault variant: a resolved entry is refreshed but keeps its address.
merge_update_once(i, spa, sha, dev) ==
    LET e == entries[i]
        mac == IF e.state = "RESOLVED" THEN e.mac ELSE sha
    IN  /\ entries' = [entries EXCEPT ![i] = arp_entry_resolve(e, dev, mac)]
        /\ sent' = sent \o Flushed(e, spa, dev, mac)
        /\ UNCHANGED dropped

merge_update(i, spa, sha, dev) ==
    /\ entries' = [entries EXCEPT ![i] = arp_entry_resolve(@, dev, sha)]
    /\ sent' = sent \o Flushed(entries[i], spa, dev, sha)
    /\ UNCHANGED dropped

merge_create(i, spa, sha, dev) ==
    /\ entries' = [entries EXCEPT ![i] =
                      arp_entry_resolve([Reclaimed(i) EXCEPT !.ip = spa], dev, sha)]
    /\ dropped' = dropped \cup Evicted(i)
    /\ UNCHANGED sent

arp_input(spa, sha, dev, for_us) ==
    /\ \/ \E i \in Slots : arp_lookup(i, spa) /\ merge_update(i, spa, sha, dev)
       \/ /\ NoEntry(spa)
          /\ for_us
          /\ \E i \in Slots : arp_alloc_entry(i) /\ merge_create(i, spa, sha, dev)
       \/ /\ NoEntry(spa)
          /\ ~for_us
          /\ UNCHANGED <<entries, sent, dropped>>
    /\ heard' = [heard EXCEPT ![spa] = sha]
    /\ UNCHANGED nextPkt

-----------------------------------------------------------------------------
(* arp_tick: expire RESOLVED entries, retry or give up PENDING ones.       *)

Due(e) == e.state # "FREE" /\ e.left <= 0

GivesUp(e) ==
    /\ Due(e)
    /\ e.state = "PENDING"
    /\ e.tries >= ARP_PENDING_MAX_TRIES

\* state = ARP_FREE.  The code leaves the other fields stale; none is read
\* before it is assigned again, except waitq, which is kept here.
Freed(e) == [FreeEntry EXCEPT !.waitq = e.waitq]

\* Fault variant: the retry does not count.
TickEntry_forever(e) ==
    IF ~Due(e) THEN e
    ELSE IF e.state = "RESOLVED" THEN Freed(e)
    ELSE [e EXCEPT !.left = ARP_PENDING_RETRY]

TickEntry(e) ==
    IF ~Due(e) THEN e
    ELSE IF e.state = "RESOLVED" THEN Freed(e)
    ELSE IF GivesUp(e) THEN FreeEntry
    ELSE [e EXCEPT !.tries = @ + 1, !.left = ARP_PENDING_RETRY]

Abandoned == UNION {Elems(entries[i].waitq) : i \in {j \in Slots : GivesUp(entries[j])}}

arp_tick ==
    /\ \E i \in Slots : Due(entries[i])
    /\ entries' = [i \in Slots |-> TickEntry(entries[i])]
    /\ dropped' = dropped \cup Abandoned
    /\ UNCHANGED <<nextPkt, sent, heard>>

\* The clock; the event loop runs the tick at most MaxLate units late.
Elapse(e) == IF e.state = "FREE" THEN e ELSE [e EXCEPT !.left = @ - 1]

Advance ==
    /\ \E i \in Slots : entries[i].state # "FREE"
    /\ \A i \in Slots : entries[i].state # "FREE" => entries[i].left > -MaxLate
    /\ entries' = [i \in Slots |-> Elapse(entries[i])]
    /\ UNCHANGED <<nextPkt, sent, dropped, heard>>

Next ==
    \/ \E hop \in Hops, dev \in Devs : arp_resolve(hop, dev)
    \/ \E spa \in Hops : \E sha \in MacsOf[spa], dev \in Devs, for_us \in BOOLEAN :
          arp_input(spa, sha, dev, for_us)
    \/ arp_tick
    \/ Advance

Spec == Init /\ [][Next]_vars

\* pf_loop_once polls for at most 10 ms and then always runs pf_tick, and
\* the clock runs: both go on for ever.
FairSpec == Spec /\ WF_vars(arp_tick) /\ WF_vars(Advance)

-----------------------------------------------------------------------------
(* Properties.                                                             *)

\* arp_lookup's answer does not depend on the slot order: two entries in
\* use never hold the same address, whatever was evicted and recreated.
UniqueAddress ==
    \A i, j \in Slots :
        (i # j /\ entries[i].state # "FREE" /\ entries[j].state # "FREE")
            => entries[i].ip # entries[j].ip

\* Packets are parked only behind a pending resolution: a slot that goes
\* back to FREE (and may be handed out again for another neighbour) and a
\* resolved entry have empty queues, and no queue outgrows ARP_WAITQ_MAX.
ParkedOnlyPending ==
    \A i \in Slots :
        /\ entries[i].state # "PENDING" => entries[i].waitq = <<>>
        /\ Len(entries[i].waitq) <= ARP_WAITQ_MAX

\* Every packet handed to arp_resolve is transmitted once, parked in one
\* place, or dropped, and never two of these.
PacketConserved ==
    \A p \in 1..(nextPkt - 1) :
        LET onQueue == {x \in Slots \X (1..ARP_WAITQ_MAX) :
                            /\ x[2] <= Len(entries[x[1]].waitq)
                            /\ entries[x[1]].waitq[x[2]] = p}
            onWire  == {k \in 1..Len(sent) : sent[k].pkt = p}
        IN  \/ p \in dropped /\ onQueue = {} /\ onWire = {}
            \/ p \notin dropped /\ onWire = {} /\ \E x \in onQueue : onQueue = {x}
            \/ p \notin dropped /\ onQueue = {} /\ \E x \in onWire : onWire = {x}

\* Packets for one next hop leave in the order the IP layer produced them,
\* although some wait for the resolution and later ones are sent at once.
FifoPerHop ==
    \A j, k \in 1..Len(sent) :
        (j < k /\ sent[j].hop = sent[k].hop) => sent[j].pkt < sent[k].pkt

\* A resolved entry carries the hardware address its neighbour announced
\* last, so no packet goes to an address that was already superseded.
LatestBinding ==
    \A i \in Slots :
        entries[i].state = "RESOLVED" => entries[i].mac = heard[entries[i].ip]

\* Every entry in use holds a real next-hop address.
AddressSet ==
    \A i \in Slots : entries[i].state # "FREE" => entries[i].ip \in Hops

\* The table is sound after every call: one entry per address, packets only
\* behind pending resolutions, and current bindings.  None of these is
\* inductive alone; together with the types they are.
IInv == TypeOK /\ AddressSet /\ UniqueAddress /\ ParkedOnlyPending /\ LatestBinding

\* Every packet leaves for the hardware address last announced by its hop.
SentToLatestBinding ==
    [][\A k \in 1..Len(sent') :
          k > Len(sent) => sent'[k].mac = heard'[sent'[k].hop]]_vars

\* A parked packet does not wait for ever: its hop answers, or the
\* resolution fails after ARP_PENDING_MAX_TRIES requests.
ParkedLeaves == \A p \in Pkts : Parked(p) ~> ~Parked(p)

=============================================================================
