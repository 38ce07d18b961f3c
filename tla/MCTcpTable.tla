----------------------------- MODULE MCTcpTable -----------------------------
(* Instances of TcpTable for TLC.                                          *)
EXTENDS TcpTable, TLC

CONSTANTS p1, p2, c1, c2

PortsMC == {p1, p2}
PeersMC == {c1, c2}

\* Slots are ordered, ports and peers are not.
Symmetry == Permutations(PortsMC) \cup Permutations(PeersMC)

=============================================================================
