--------------------------------- MODULE Fib ---------------------------------
(***************************************************************************)
(* The routing table of src/src/route/fib.c: a trie with one bit per level *)
(* and a fixed pool of entries.                                            *)
(*                                                                         *)
(* A node of the trie is named by the bits on the way to it, the root by   *)
(* <<>>.  trie maps every node there is to the index of its entry in the   *)
(* pool, or to NULL; before the first fib_add there is no root and the map *)
(* is empty.  An entry that is not in_use is Free: its other fields are    *)
(* left over from an earlier route and nothing reads them.                 *)
(***************************************************************************)
EXTENDS Prefix, FiniteSets, FiniteSetsExt

CONSTANTS
    Devs,
    FIB_MAX_ROUTES

ASSUME FibAssumption == FIB_MAX_ROUTES \in Nat /\ Devs # {}

VARIABLES
    trie,
    pool,
    starved         \* history: some fib_add found the pool exhausted

vars == <<trie, pool, starved>>

NULL == 0
Free == [in_use |-> FALSE]
Slots == 1..FIB_MAX_ROUTES
Zero == [i \in 1..W |-> 0]
Route == [next_hop : Addr, dev : Devs, connected : BOOLEAN]
Empty == [n \in {} |-> NULL]

TypeOK ==
    /\ DOMAIN trie \subseteq Prefixes
    /\ trie \in [DOMAIN trie -> {NULL} \cup Slots]
    /\ pool \in [Slots -> {Free} \cup [in_use : {TRUE}, prefix : Prefixes, route : Route]]
    /\ starved \in BOOLEAN

-----------------------------------------------------------------------------
\* The functions of fib.c.  Each one that changes the table returns the table
\* it leaves and its result.

FreeSlots(po) == {i \in Slots : ~po[i].in_use}

\* The first entry of the pool that is not in use, or NULL.
pool_alloc(po) == IF FreeSlots(po) = {} THEN NULL ELSE Min(FreeSlots(po))

\* Fault variant: a node that has an entry takes a new one all the same.
fib_add_anew(tr, po, p, r) ==
    LET path == {q \in Prefixes : Covers(q, p)}
        grown == [q \in DOMAIN tr \cup path |-> IF q \in DOMAIN tr THEN tr[q] ELSE NULL]
        e == pool_alloc(po)
    IN  IF e = NULL
        THEN [trie |-> grown, pool |-> po, rc |-> -1]
        ELSE [trie |-> [grown EXCEPT ![p] = e],
              pool |-> [po EXCEPT ![e] = [in_use |-> TRUE, prefix |-> p, route |-> r]],
              rc |-> 0]

\* The nodes on the way to p are there before an entry is looked for, so a
\* pool without a free entry leaves them behind.
fib_add(tr, po, p, r) ==
    LET path == {q \in Prefixes : Covers(q, p)}
        grown == [q \in DOMAIN tr \cup path |-> IF q \in DOMAIN tr THEN tr[q] ELSE NULL]
        e == IF grown[p] # NULL THEN grown[p] ELSE pool_alloc(po)
    IN  IF e = NULL
        THEN [trie |-> grown, pool |-> po, rc |-> -1]
        ELSE [trie |-> [grown EXCEPT ![p] = e],
              pool |-> [po EXCEPT ![e] = [in_use |-> TRUE, prefix |-> p, route |-> r]],
              rc |-> 0]

\* Fault variant: a child that returns empty is not looked at, only the
\* node of p itself is freed.
del_rec_node(tr, p) ==
    LET left == [q \in DOMAIN tr |-> IF q = p THEN NULL ELSE tr[q]]
        freed == {q \in {p} \ {<<>>} : \A s \in DOMAIN tr : Covers(q, s) => s = q}
    IN  [q \in DOMAIN tr \ freed |-> left[q]]

\* The nodes a removal of p meets on its way down; the walk ends at a missing
\* child.  On the way up a node is freed when it has no entry and its
\* children are gone, which is when nothing but such nodes is below it.  The
\* root is kept.
del_rec(tr, p) ==
    LET met == {q \in DOMAIN tr : Covers(q, p)}
        left == [q \in DOMAIN tr |-> IF q = p THEN NULL ELSE tr[q]]
        freed == {q \in met \ {<<>>} :
                     \A s \in DOMAIN tr : Covers(q, s) => s \in met /\ left[s] = NULL}
    IN  [q \in DOMAIN tr \ freed |-> left[q]]

fib_del(tr, po, p) ==
    LET found == p \in DOMAIN tr /\ tr[p] # NULL
    IN  [trie |-> del_rec(tr, p),
         pool |-> IF found THEN [po EXCEPT ![tr[p]] = Free] ELSE po,
         rc |-> IF found THEN 0 ELSE -1]

\* Fault variant: only the node where the walk ends is asked.
fib_lookup_last(tr, dst) ==
    LET met == {d \in 0..W : \A k \in 0..d : Mask(dst, k) \in DOMAIN tr}
    IN  IF met = {} THEN NULL ELSE tr[Mask(dst, Max(met))]

\* The walk along the bits of dst keeps the last entry it passes.
fib_lookup(tr, dst) ==
    LET seen == {d \in 0..W : /\ \A k \in 0..d : Mask(dst, k) \in DOMAIN tr
                              /\ tr[Mask(dst, d)] # NULL}
    IN  IF seen = {} THEN NULL ELSE tr[Mask(dst, Max(seen))]

-----------------------------------------------------------------------------
\* The callers.

Init ==
    /\ trie = Empty
    /\ pool = [i \in Slots |-> Free]
    /\ starved = FALSE

Apply(new) ==
    /\ trie' = new.trie
    /\ pool' = new.pool

\* The connected route of an interface address; the result of fib_add is not
\* looked at.
pf_if_set_addr(ip, plen, dev) ==
    LET new == fib_add(trie, pool, Mask(ip, plen),
                       [next_hop |-> Zero, dev |-> dev, connected |-> TRUE])
    IN  Apply(new) /\ starved' = (starved \/ new.rc = -1)

\* Fault variant: a next hop that is itself behind a router is accepted.
fib_add_via_any(prefix, plen, nh) ==
    LET via == fib_lookup(trie, nh)
        new == fib_add(trie, pool, Mask(prefix, plen),
                       [next_hop |-> nh, dev |-> pool[via].route.dev, connected |-> FALSE])
    IN  /\ via # NULL
        /\ Apply(new)
        /\ starved' = (starved \/ new.rc = -1)

\* A static route: the next hop must have a connected route now.
fib_add_via(prefix, plen, nh) ==
    LET via == fib_lookup(trie, nh)
        new == fib_add(trie, pool, Mask(prefix, plen),
                       [next_hop |-> nh, dev |-> pool[via].route.dev, connected |-> FALSE])
    IN  /\ via # NULL
        /\ pool[via].route.connected
        /\ Apply(new)
        /\ starved' = (starved \/ new.rc = -1)

del_route(prefix, plen) ==
    Apply(fib_del(trie, pool, Mask(prefix, plen))) /\ UNCHANGED starved

\* The mask is plen ones and then zeros, or not a mask: -1.
mask_to_plen(mask) ==
    LET OfLength(plen) == \A i \in 1..W : mask[i] = IF i <= plen THEN 1 ELSE 0
    IN  IF \E plen \in 0..W : OfLength(plen)
        THEN CHOOSE plen \in 0..W : OfLength(plen)
        ELSE -1

\* "ip route" and "no ip route" of the command line; app_set_gw's default route
\* is the first with an empty mask.  A mask with holes changes nothing.
cmd_ip_route(prefix, mask, nh) ==
    /\ mask_to_plen(mask) >= 0
    /\ fib_add_via(prefix, mask_to_plen(mask), nh)

cmd_no_ip_route(prefix, mask) ==
    /\ mask_to_plen(mask) >= 0
    /\ del_route(prefix, mask_to_plen(mask))

fib_fini == trie' = Empty /\ pool' = [i \in Slots |-> Free] /\ starved' = FALSE

Next ==
    \/ \E ip \in Addr, plen \in 0..W, dev \in Devs : pf_if_set_addr(ip, plen, dev)
    \/ \E prefix, mask, nh \in Addr : cmd_ip_route(prefix, mask, nh)
    \/ \E prefix, mask \in Addr : cmd_no_ip_route(prefix, mask)
    \/ fib_fini

Spec == Init /\ [][Next]_vars

-----------------------------------------------------------------------------
\* Properties.

\* The entries in use and the trie's references to them are one to one, each
\* entry sits at the node of its own prefix, and every node but the root
\* hangs on its parent.  A lost entry would never be free again; a shared one
\* would change under another prefix.
PoolMatchesTrie ==
    /\ \A p \in DOMAIN trie : trie[p] # NULL =>
          pool[trie[p]].in_use /\ pool[trie[p]].prefix = p
    /\ \A i \in Slots : pool[i].in_use =>
          pool[i].prefix \in DOMAIN trie /\ trie[pool[i].prefix] = i
    /\ \A p \in DOMAIN trie, q \in Prefixes : Covers(q, p) => q \in DOMAIN trie

\* The table is sound after every call, and the two conjuncts together are
\* inductive.
IInv == TypeOK /\ PoolMatchesTrie

Routed == {p \in DOMAIN trie : trie[p] # NULL}

Table == INSTANCE RouteTable WITH
             MaxRoutes <- FIB_MAX_ROUTES,
             routes <- [p \in Routed |-> pool[trie[p]].route]

\* The trie with its pool is the route table of fib.h, whatever was added,
\* replaced, refused and removed before.
ImplementsTable == Table!Spec

\* Every call that can be made now answers what the table says: fib_lookup
\* finds the longest match and nothing else, fib_add is refused only for a
\* new prefix when all entries are taken, fib_del only for a prefix that is
\* not there.  Nodes that a refused fib_add left behind change no answer.
AnswersFromTable ==
    /\ \A a \in Addr :
          LET e == fib_lookup(trie, a)
          IN  IF e = NULL THEN \A p \in Routed : ~Covers(p, a)
                          ELSE Table!IsLongest(pool[e].prefix, a)
    /\ \A p \in Prefixes :
          /\ (fib_add(trie, pool, p, {}).rc = 0) = Table!HasRoom(p)
          /\ (fib_del(trie, pool, p).rc = 0) = (p \in Routed)

\* fib_del frees every node it has emptied, however the routes were nested:
\* unless some fib_add was refused for want of an entry, the trie has no
\* branch that leads to no route.
NoBarrenBranch ==
    \/ starved
    \/ \A p \in DOMAIN trie : p = <<>> \/ \E q \in Routed : Covers(p, q)

=============================================================================
