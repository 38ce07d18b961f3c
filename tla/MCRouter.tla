------------------------------ MODULE MCRouter ------------------------------
(* Host a on network 1, routers r and q joined by network 2, host b on     *)
(* network 3.  No node is on network 4.                                    *)
EXTENDS Router, TLC

CONSTANTS a, b, q, r

AttachedMC == a :> {1} @@ r :> {1, 2} @@ q :> {2, 3} @@ b :> {3}

StartupMC ==
    a :> (Default :> <<1, r>>) @@ r :> (3 :> <<2, q>>)
    @@ q :> (Default :> <<2, r>>) @@ b :> (Default :> <<3, q>>)

\* r may point back at q, or lose its route; q may have one route only, or take
\* a host for its gateway.
TablesMC ==
    a :> {} @@ b :> {}
    @@ r :> {(3 :> <<2, q>>) @@ (Default :> <<2, q>>), <<>>}
    @@ q :> {1 :> <<2, r>>, Default :> <<3, b>>}

Plain == [from |-> a, dst |-> <<3, b>>, what |-> "echo", ttl |-> 3, size |-> 1,
          sport |-> 0, dport |-> 0, later |-> FALSE, df |-> FALSE]

\* Ping b, the far side of r, and a broadcast address of another network; UDP to
\* the echo service, with no port to answer, empty, and to a closed port; a datagram too
\* big for network 2 with DF; a traceroute probe and a later fragment that meet
\* their TTL; an unknown protocol; a datagram for a network nobody has.
SendsMC ==
    {Plain @@ [id |-> 1],
     [Plain EXCEPT !.dst = <<2, r>>] @@ [id |-> 2],
     [Plain EXCEPT !.dst = <<3, Bcast>>] @@ [id |-> 3],
     [Plain EXCEPT !.what = "udp", !.sport = 9, !.dport = 7] @@ [id |-> 4],
     [Plain EXCEPT !.what = "udp", !.dport = 7] @@ [id |-> 5],
     [Plain EXCEPT !.what = "udp", !.sport = 9, !.dport = 7, !.size = 0] @@ [id |-> 6],
     [Plain EXCEPT !.from = b, !.dst = <<1, a>>, !.what = "udp", !.sport = 9, !.dport = 5] @@ [id |-> 7],
     [Plain EXCEPT !.what = "udp", !.size = 2, !.df = TRUE, !.sport = 9, !.dport = 7] @@ [id |-> 8],
     [Plain EXCEPT !.ttl = 2] @@ [id |-> 9],
     [Plain EXCEPT !.ttl = 1, !.later = TRUE] @@ [id |-> 10],
     [Plain EXCEPT !.what = "other"] @@ [id |-> 11],
     [Plain EXCEPT !.dst = <<4, b>>] @@ [id |-> 12]}

BoundMC == {<<a, 9>>, <<b, 7>>}
EchoServicesMC == {<<b, 7>>}
=============================================================================
