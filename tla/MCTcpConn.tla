----------------------------- MODULE MCTcpConn ------------------------------
(* Instances of TcpConn for TLC: initial sequence numbers next to the wrap *)
(* of the sequence space.                                                  *)
EXTENDS TcpConn, TLC

IssMC == [e \in Ends |-> IF e = "A" THEN SEQ_MOD - 2 ELSE SEQ_MOD \div 2 - 2]

\* Bytes in one direction, or none.
OneWay2 == [e \in Ends |-> IF e = "A" THEN 2 ELSE 0]
OneWay3 == [e \in Ends |-> IF e = "A" THEN 3 ELSE 0]
NoBytes == [e \in Ends |-> 0]

\* The end that connects: one of them, or either one or both.
AConnects == {{"A"}}
AnyConnects == {{"A"}, {"A", "B"}}

Quiet == [e \in Ends |-> {}]
BothClose == [e \in Ends |-> {"close"}]
ACloses == [e \in Ends |-> IF e = "A" THEN {"nodelay", "close"} ELSE {}]
Everything == [e \in Ends |-> {"close", "timeout"}]

=============================================================================
