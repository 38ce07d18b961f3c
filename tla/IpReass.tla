------------------------------ MODULE IpReass -------------------------------
(***************************************************************************)
(* IPv4 reassembly (src/src/ipv4/ip_reass.c): a fixed table of contexts,   *)
(* each collecting the fragments of one datagram in a buffer and a sorted  *)
(* list of byte ranges.                                                    *)
(*                                                                         *)
(* A fragment is [key, off, len, mf, tag]: key stands for (src, dst, id,   *)
(* protocol) and tag for the bytes it carries.  A byte of a buffer that no *)
(* fragment has filled holds Junk, what malloc left there.  As in          *)
(* ArpCache, a deadline is kept as the time left until it.  IpPath says    *)
(* which fragments arrive.                                                 *)
(***************************************************************************)
EXTENDS Integers, Sequences, FiniteSetsExt

CONSTANTS
    IP_REASS_CTXS,          \* contexts in the table
    IP_REASS_TIMEOUT,       \* life of a context, in clock units
    IP_REASS_MAX_RANGES,    \* ranges a context can hold
    IP_REASS_MAX_PAYLOAD,   \* bytes a context can hold
    FRAG_UNIT,              \* offsets count this many bytes (8)
    Keys,                   \* reassembly keys in use
    Tags,                   \* what a fragment's bytes can be
    FragLens,               \* payload lengths of the fragments of other hosts
    Junk,                   \* what an uninitialised byte is
    None,                   \* no key, no datagram
    MaxLate                 \* bound: how late the tick may run

ASSUME ReassConstants ==
    /\ {IP_REASS_CTXS, IP_REASS_TIMEOUT, IP_REASS_MAX_RANGES, IP_REASS_MAX_PAYLOAD, FRAG_UNIT}
          \subseteq Nat \ {0}
    /\ MaxLate \in Nat
    /\ FragLens \subseteq Nat
    /\ None \notin Keys
    /\ Junk \notin Tags

VARIABLES
    ctxs,       \* struct ip_reass_ctx ctxs[IP_REASS_CTXS]
    delivered   \* the datagram the last step handed to ip_local_deliver, or None

reassVars == <<ctxs, delivered>>

Slots == 1..IP_REASS_CTXS
Bytes == 0..(IP_REASS_MAX_PAYLOAD - 1)
Range_ == [start : 0..IP_REASS_MAX_PAYLOAD, end : 0..IP_REASS_MAX_PAYLOAD]

ReassTypeOK ==
    /\ ctxs \in [Slots -> [in_use     : BOOLEAN,
                           key        : Keys \cup {None},
                           left       : (-MaxLate)..IP_REASS_TIMEOUT,
                           have_first : BOOLEAN,
                           total      : -1..IP_REASS_MAX_PAYLOAD,
                           ranges     : Seq(Range_),
                           payload    : [Bytes -> Tags \cup {Junk}]]]
    /\ \A i \in Slots : Len(ctxs[i].ranges) <= IP_REASS_MAX_RANGES

\* ctx_release zeroes a context; what its buffer held is gone.
FreeCtx ==
    [in_use |-> FALSE, key |-> None, left |-> 0, have_first |-> FALSE, total |-> -1,
     ranges |-> <<>>, payload |-> [b \in Bytes |-> Junk]]

ReassInit ==
    /\ ctxs = [i \in Slots |-> FreeCtx]
    /\ delivered = None

-----------------------------------------------------------------------------
(* Contexts.                                                               *)

\* Fault variant: fragments that arrive late open a context of their own.
Matches_fresh(i, key) == ctxs[i].in_use /\ ctxs[i].key = key /\ ctxs[i].left > 0

\* Fault variant: the identification is left out of the key.
Matches_any(i, key) == ctxs[i].in_use

Matches(i, key) == ctxs[i].in_use /\ ctxs[i].key = key

ctx_find(i, key) == Matches(i, key) /\ \A j \in Slots : j < i => ~Matches(j, key)

\* The first free slot, or the context closest to its timeout.
ctx_alloc(i) ==
    \/ /\ ~ctxs[i].in_use
       /\ \A j \in Slots : j < i => ctxs[j].in_use
    \/ /\ \A j \in Slots : ctxs[j].in_use
       /\ \A j \in Slots : /\ ctxs[i].left <= ctxs[j].left
                           /\ j < i => ctxs[i].left < ctxs[j].left

Opened(key) == [FreeCtx EXCEPT !.in_use = TRUE, !.key = key, !.left = IP_REASS_TIMEOUT]

\* Where fragment f goes, and the context it meets there.
Meets(f, i, c) ==
    \/ ctx_find(i, f.key) /\ c = ctxs[i]
    \/ /\ \A j \in Slots : ~Matches(j, f.key)
       /\ ctx_alloc(i)
       /\ c = Opened(f.key)

-----------------------------------------------------------------------------
(* Ranges.                                                                 *)

\* Fault variant: only an overlap with the start of a range is noticed.
Overlaps_head(rs, start, end) ==
    \E i \in DOMAIN rs : start <= rs[i].start /\ rs[i].start < end

Overlaps(rs, start, end) ==
    \E i \in DOMAIN rs : start < rs[i].end /\ rs[i].start < end

\* Fault variant: only the first pair of neighbours is merged.
Coalesced_once(rs) ==
    IF Len(rs) > 1 /\ rs[1].end = rs[2].start
    THEN <<[start |-> rs[1].start, end |-> rs[2].end]>> \o SubSeq(rs, 3, Len(rs))
    ELSE rs

\* Range r in front of the list rs, merged with its head when exactly adjacent.
Join(r, rs) ==
    IF rs # <<>> /\ r.end = Head(rs).start
    THEN <<[start |-> r.start, end |-> Head(rs).end]>> \o Tail(rs)
    ELSE <<r>> \o rs

\* Exactly adjacent neighbours are merged, from the right: merged[m] is what
\* becomes of the ranges from m on.
Coalesced(rs) ==
    LET merged[m \in 1..(Len(rs) + 1)] ==
            IF m = Len(rs) + 1 THEN <<>> ELSE Join(rs[m], merged[m + 1])
    IN  merged[1]

\* The position of the first range behind end, or one past the list.
Position(rs, end) == Min({m \in 1..Len(rs) : end <= rs[m].start} \cup {Len(rs) + 1})

\* The ranges from p on move up to make room for r.
InsertedAt(rs, p, r) == SubSeq(rs, 1, p - 1) \o <<r>> \o SubSeq(rs, p, Len(rs))

\* The list with [start, end) in its place.
ranges_insert(rs, start, end) ==
    Coalesced(InsertedAt(rs, Position(rs, end), [start |-> start, end |-> end]))

-----------------------------------------------------------------------------
(* ip_reass_input.                                                         *)

\* A fragment without bytes, or one that is not the last and not a multiple
\* of the unit.
BadFrag(f) == f.len = 0 \/ (f.mf /\ f.len % FRAG_UNIT # 0)

End(f) == f.off + f.len

\* The total length once f is in: the last fragment pins it.
Total(c, f) == IF f.mf THEN c.total ELSE End(f)

\* Fragment f ends the reassembly of c: it does not fit the buffer, a second
\* last fragment contradicts the first, there is data past the end, an
\* overlap, or one range too many.
Aborts(c, f) ==
    \/ End(f) > IP_REASS_MAX_PAYLOAD
    \/ ~f.mf /\ c.total >= 0 /\ c.total # End(f)
    \/ Total(c, f) >= 0 /\ End(f) > Total(c, f)
    \/ Overlaps(c.ranges, f.off, End(f))
    \/ Len(c.ranges) >= IP_REASS_MAX_RANGES

Taken(c, f) ==
    [c EXCEPT !.total = Total(c, f),
              !.ranges = ranges_insert(c.ranges, f.off, End(f)),
              !.payload = [b \in Bytes |-> IF f.off <= b /\ b < End(f) THEN f.tag ELSE c.payload[b]],
              !.have_first = c.have_first \/ f.off = 0]

Complete(c) ==
    /\ c.have_first
    /\ c.total >= 0
    /\ c.ranges = <<[start |-> 0, end |-> c.total]>>

\* deliver_complete: the rebuilt datagram.
Datagram(c) == [key |-> c.key, data |-> [b \in 1..c.total |-> c.payload[b - 1]]]

\* What ip_reass_input does with f in context c at slot i.
input_in(f, i, c) ==
    LET taken == Taken(c, f)
        whole == ~Aborts(c, f) /\ Complete(taken)
    IN  /\ ctxs' = [ctxs EXCEPT ![i] = IF Aborts(c, f) \/ whole THEN FreeCtx ELSE taken]
        /\ delivered' = IF whole THEN Datagram(taken) ELSE None

ip_reass_input(f) ==
    \/ /\ BadFrag(f)
       /\ delivered' = None
       /\ UNCHANGED ctxs
    \/ /\ ~BadFrag(f)
       /\ \E i \in Slots : \E c \in {ctxs[i], Opened(f.key)} : Meets(f, i, c) /\ input_in(f, i, c)

-----------------------------------------------------------------------------
(* Time.                                                                   *)

\* Fault variant: only contexts that would send an ICMP error time out.
Expired_first(c) == c.in_use /\ c.left <= 0 /\ c.have_first

Expired(c) == c.in_use /\ c.left <= 0

ip_reass_tick ==
    /\ \E i \in Slots : Expired(ctxs[i])
    /\ ctxs' = [i \in Slots |-> IF Expired(ctxs[i]) THEN FreeCtx ELSE ctxs[i]]
    /\ delivered' = None

\* The clock moves on; the event loop runs the tick within MaxLate of a
\* deadline.
Advance ==
    /\ \E i \in Slots : ctxs[i].in_use
    /\ \A i \in Slots : ctxs[i].in_use => ctxs[i].left > -MaxLate
    /\ ctxs' = [i \in Slots |-> IF ctxs[i].in_use THEN [ctxs[i] EXCEPT !.left = @ - 1] ELSE ctxs[i]]
    /\ delivered' = None

\* ip_input sends only fragments here.
IsFragment(f) == f.mf \/ f.off > 0

\* Any fragment with this key: offsets in units, at most one unit past the
\* buffer.
Fragments(key, tag) ==
    {f \in [key : {key}, off : {FRAG_UNIT * n : n \in 0..(IP_REASS_MAX_PAYLOAD \div FRAG_UNIT)},
            len : FragLens, mf : BOOLEAN, tag : {tag}] : IsFragment(f)}

-----------------------------------------------------------------------------
(* Properties.                                                             *)

Covered(rs) == UNION {rs[i].start..(rs[i].end - 1) : i \in DOMAIN rs}

\* ctx_find can stop at its first match: two contexts never collect the same
\* datagram.
OneContextPerDatagram ==
    \A i, j \in Slots :
        (ctxs[i].in_use /\ ctxs[j].in_use /\ ctxs[i].key = ctxs[j].key) => i = j

\* ranges_insert keeps the list sorted with a gap between any two ranges, and
\* the list is exactly the bytes that were copied into the buffer.  The
\* header ip_reass_tick quotes in its time-exceeded message is there when the
\* bytes it quotes with it are.
RangesDescribeBuffer ==
    \A i \in Slots :
        LET rs == ctxs[i].ranges
        IN  /\ \A m \in DOMAIN rs : rs[m].start < rs[m].end
            /\ \A m, n \in DOMAIN rs : m < n => rs[m].end < rs[n].start
            /\ Covered(rs) = {b \in Bytes : ctxs[i].payload[b] # Junk}
            /\ ctxs[i].have_first <=> 0 \in Covered(rs)

\* A context never keeps a datagram all of whose bytes are there, in whatever
\* order they came: the test of deliver_complete looks at one range only and
\* relies on the merging before it.
CompleteIsDelivered ==
    \A i \in Slots :
        LET c == ctxs[i]
        IN  c.total > 0 => Covered(c.ranges) # 0..(c.total - 1)

\* No context is pinned: whatever fragments keep arriving for it, it is
\* completed, aborted, evicted or timed out.
ContextEnds ==
    \A i \in Slots : \A k \in Keys :
        (ctxs[i].in_use /\ ctxs[i].key = k /\ ctxs[i].left = IP_REASS_TIMEOUT)
            ~> (~ctxs[i].in_use \/ ctxs[i].key # k)

=============================================================================
