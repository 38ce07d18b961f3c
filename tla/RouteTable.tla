----------------------------- MODULE RouteTable -----------------------------
(***************************************************************************)
(* What src/src/route/fib.h promises: a map of at most MaxRoutes prefixes  *)
(* to routes, of which the longest prefix covering a destination answers.  *)
(* Nothing of the trie or of the entry pool is visible here; a call that   *)
(* is refused changes nothing.                                             *)
(***************************************************************************)
EXTENDS Prefix, FiniteSets

CONSTANTS
    Devs,
    MaxRoutes

VARIABLE routes

Zero == [i \in 1..W |-> 0]

\* A route is added, or replaces the one of the same prefix.
HasRoom(p) == p \in DOMAIN routes \/ Cardinality(DOMAIN routes) < MaxRoutes

\* The longest prefix of the table that covers an address.
IsLongest(p, a) ==
    /\ p \in DOMAIN routes
    /\ Covers(p, a)
    /\ \A q \in DOMAIN routes : Covers(q, a) => Len(q) <= Len(p)

Init == routes = [p \in {} |-> {}]

Install(p, r) ==
    /\ HasRoom(p)
    /\ routes' = [q \in DOMAIN routes \cup {p} |-> IF q = p THEN r ELSE routes[q]]

\* A static route takes its device from the connected route to its next hop.
InstallVia(p, nh) ==
    \E q \in DOMAIN routes :
        /\ IsLongest(q, nh)
        /\ routes[q].connected
        /\ Install(p, [next_hop |-> nh, dev |-> routes[q].dev, connected |-> FALSE])

Remove(p) ==
    /\ p \in DOMAIN routes
    /\ routes' = [q \in DOMAIN routes \ {p} |-> routes[q]]

Next ==
    \/ \E p \in Prefixes, d \in Devs :
          Install(p, [next_hop |-> Zero, dev |-> d, connected |-> TRUE])
    \/ \E p \in Prefixes, nh \in Addr : InstallVia(p, nh)
    \/ \E p \in Prefixes : Remove(p)
    \/ routes' = [p \in {} |-> {}]

Spec == Init /\ [][Next]_routes
=============================================================================
