------------------------------- MODULE MCArp --------------------------------
(* ArpCache on a table of two entries and three neighbours, so that a new  *)
(* resolution has to evict one in use.  One neighbour changes its hardware *)
(* address and back.                                                       *)
EXTENDS ArpCache

CONSTANTS h1, h2, h3, m1, m2

MacsOfMC == [h \in Hops |-> IF h = h1 THEN {m1, m2} ELSE {m1}]
=============================================================================
