--------------------------- MODULE TcpCoreProofs ----------------------------
(* The inductive invariant of the connection, and what the operators on a  *)
(* control block and the effects common to all handlers keep of it.        *)
EXTENDS TcpConn, TLAPS, WellFoundedInduction

-----------------------------------------------------------------------------
(* The inductive invariant.                                                *)

\* The fields keep to their sets and the rings to their sizes.
Typed(t, e) ==
    /\ t \in Tcb(e)
    /\ Len(t.sndq) <= TCP_SNDBUF
    /\ Len(t.rcvq) <= TCP_RCVBUF
    /\ Len(t.ooo) <= TCP_OOO_MAX
    /\ t.ssthresh >= TCP_MSS

Opening == {"SYN_SENT", "SYN_RCVD"}

\* Before the handshake ends only our SYN is outstanding.
SynOut(t) ==
    /\ t.snd_una = t.iss
    /\ t.snd_nxt = SeqAdd(t.iss, 1)
    /\ t.rto
    /\ t.sndq = <<>>
    /\ ~t.fin_queued
    /\ ~t.fin_sent

\* After it the timer runs iff something is outstanding, and what is
\* outstanding is a prefix of the ring, or the ring and the FIN behind it.
Flow(t) ==
    /\ t.rto <=> t.snd_una # t.snd_nxt
    /\ ~t.fin_sent => in_flight(t) <= Len(t.sndq)
    /\ t.fin_sent => /\ t.fin_queued
                     /\ \/ in_flight(t) = Len(t.sndq) + 1
                        \/ in_flight(t) = 0 /\ t.sndq = <<>>
    /\ t.state \in {"ESTABLISHED", "CLOSE_WAIT"} => ~t.fin_queued
    /\ t.state \in {"FIN_WAIT_2", "TIME_WAIT"} => t.snd_una = t.snd_nxt

\* What waits in the ring with nothing in flight waits for the window.
NoStall(t) ==
    (t.state \in SendStates /\ t.sndq # <<>> /\ t.snd_una = t.snd_nxt) => t.snd_wnd = 0

Block(t) ==
    /\ t.state = "CLOSED" => t = NoTcb
    /\ t.state \in Opening => SynOut(t)
    /\ t.state \notin {"CLOSED"} \cup Opening => Flow(t) /\ NoStall(t)

\* Both ends keep their blocks so, and only well-formed segments are under way.
NetInv ==
    /\ tcb \in [Ends -> Tcb("A") \cup Tcb("B")]
    /\ net \in [Ends -> SUBSET (SegTo("A") \cup SegTo("B"))]
    /\ \A e \in Ends : Typed(tcb[e], e) /\ Block(tcb[e]) /\ net[e] \in SUBSET SegTo(e)

AppInv ==
    /\ active \in Roles
    /\ got \in [Ends -> Seq(Nat)]
    /\ opens \in [Ends -> 0..MaxOpens]
    /\ app \in [Ends -> {"idle", "connecting", "queued", "open", "closed"}]
    /\ err \in [Ends -> {"none", "RESET", "REFUSED", "TIMEDOUT"}]
    /\ wrote \in [Ends -> Nat]
    /\ eof \in [Ends -> BOOLEAN]
    /\ \A e \in Ends : got[e] \in Seq(Bytes(Peer(e)))

\* No application holds a connection that is still opening.
EarlyInv == \A e \in Ends : tcb[e].state \in Opening => app[e] \in {"idle", "connecting"}

CountInv == dups \in 0..MaxDup /\ losses \in 0..MaxLoss

IInv == NetInv /\ AppInv /\ EarlyInv /\ CountInv

-----------------------------------------------------------------------------
(* Sequence numbers.                                                       *)

\* The remainder is a sequence number.
LEMMA ModSeq == \A x \in Int : x % SEQ_MOD \in SeqNums
  BY TcpConstants DEF SeqNums

LEMMA AddSeq == \A a, n \in Int : SeqAdd(a, n) \in SeqNums
  BY ModSeq DEF SeqAdd

LEMMA AddNat == \A a \in SeqNums, n \in Nat : SeqAdd(a, n) \in SeqNums
  <1>1. SeqNums \subseteq Int /\ Nat \subseteq Int
    BY TcpConstants DEF SeqNums
  <1>2. QED
    BY <1>1, AddSeq, Zenon

LEMMA DiffSeq == \A a, b \in Int : SeqDiff(a, b) \in SeqNums
  BY ModSeq DEF SeqDiff

\* The difference wraps at most once.
LEMMA DiffIs ==
  ASSUME NEW a \in SeqNums, NEW b \in SeqNums
  PROVE  SeqDiff(a, b) = IF a >= b THEN a - b ELSE a - b + SEQ_MOD
  <1>1. SEQ_MOD \in Nat /\ SEQ_MOD > 0
    BY TcpConstants
  <1>2. a \in Int /\ b \in Int /\ 0 <= a /\ a < SEQ_MOD /\ 0 <= b /\ b < SEQ_MOD
    BY <1>1 DEF SeqNums
  <1>3. \A x \in Int : 0 <= x /\ x < SEQ_MOD => x % SEQ_MOD = x
    BY <1>1
  <1>4. \A x \in Int : -SEQ_MOD <= x /\ x < 0 => x % SEQ_MOD = x + SEQ_MOD
    BY <1>1
  <1>5. QED
    BY <1>1, <1>2, <1>3, <1>4 DEF SeqDiff

\* So does the sum.
LEMMA AddIs ==
  ASSUME NEW a \in SeqNums, NEW n \in SeqNums
  PROVE  SeqAdd(a, n) = IF a + n < SEQ_MOD THEN a + n ELSE a + n - SEQ_MOD
  <1>1. SEQ_MOD \in Nat /\ SEQ_MOD > 0
    BY TcpConstants
  <1>2. a \in Int /\ n \in Int /\ 0 <= a /\ a < SEQ_MOD /\ 0 <= n /\ n < SEQ_MOD
    BY <1>1 DEF SeqNums
  <1>3. \A x \in Int : 0 <= x /\ x < SEQ_MOD => x % SEQ_MOD = x
    BY <1>1
  <1>4. \A x \in Int : SEQ_MOD <= x /\ x < 2 * SEQ_MOD => x % SEQ_MOD = x - SEQ_MOD
    BY <1>1
  <1>5. QED
    BY <1>1, <1>2, <1>3, <1>4 DEF SeqAdd

\* n more in flight.
LEMMA DiffAdd ==
  ASSUME NEW a \in SeqNums, NEW b \in SeqNums, NEW n \in Nat, SeqDiff(a, b) + n < SEQ_MOD
  PROVE  SeqDiff(SeqAdd(a, n), b) = SeqDiff(a, b) + n
  <1>1. SEQ_MOD \in Nat /\ SEQ_MOD > 0
    BY TcpConstants
  <1>2. SeqDiff(a, b) = IF a >= b THEN a - b ELSE a - b + SEQ_MOD
    BY DiffIs, Zenon
  <1>3. n \in SeqNums
    BY <1>1, <1>2 DEF SeqNums
  <1>4. SeqAdd(a, n) = IF a + n < SEQ_MOD THEN a + n ELSE a + n - SEQ_MOD
    BY <1>3, AddIs, Zenon
  <1>5. SeqAdd(a, n) \in SeqNums
    BY AddSeq, <1>3, <1>1 DEF SeqNums
  <1>6. SeqDiff(SeqAdd(a, n), b) = IF SeqAdd(a, n) >= b THEN SeqAdd(a, n) - b ELSE SeqAdd(a, n) - b + SEQ_MOD
    BY <1>5, DiffIs, Zenon
  <1>7. QED
    BY <1>1, <1>2, <1>4, <1>6 DEF SeqNums

\* Zero distance is equality.
LEMMA DiffZero ==
  ASSUME NEW a \in SeqNums, NEW b \in SeqNums
  PROVE  /\ SeqDiff(a, b) \in Nat
         /\ SeqDiff(a, b) < SEQ_MOD
         /\ SeqDiff(a, b) = 0 <=> a = b
  <1>1. SEQ_MOD \in Nat /\ SEQ_MOD > 0
    BY TcpConstants
  <1>2. QED
    BY <1>1, DiffIs DEF SeqNums

\* An ACK above snd_una and not above snd_nxt takes off part of the flight.
LEMMA AckInFlight ==
  ASSUME NEW una \in SeqNums, NEW nxt \in SeqNums, NEW ack \in SeqNums,
         2 * SeqDiff(nxt, una) < SEQ_MOD, seq_gt(ack, una), ~seq_gt(ack, nxt)
  PROVE  /\ SeqDiff(ack, una) \in 1..SeqDiff(nxt, una)
         /\ SeqDiff(nxt, ack) = SeqDiff(nxt, una) - SeqDiff(ack, una)
         /\ ack = nxt <=> SeqDiff(ack, una) = SeqDiff(nxt, una)
  <1>1. SEQ_MOD \in Nat /\ SEQ_MOD > 0
    BY TcpConstants
  <1>2. SEQ_MOD = 2 * (SEQ_MOD \div 2) /\ SEQ_MOD \div 2 \in Nat
    BY TcpConstants
  <1> DEFINE H == SEQ_MOD \div 2
  <1>3. SeqDiff(ack, una) \in 1..(H - 1) /\ SeqDiff(ack, nxt) \notin 1..(H - 1)
    BY Zenon DEF seq_gt
  <1> HIDE DEF H
  <1>4. H \in Nat /\ SEQ_MOD = 2 * H
    BY <1>2, Zenon DEF H
  <1>5. /\ SeqDiff(ack, una) = IF ack >= una THEN ack - una ELSE ack - una + SEQ_MOD
        /\ SeqDiff(nxt, una) = IF nxt >= una THEN nxt - una ELSE nxt - una + SEQ_MOD
        /\ SeqDiff(ack, nxt) = IF ack >= nxt THEN ack - nxt ELSE ack - nxt + SEQ_MOD
        /\ SeqDiff(nxt, ack) = IF nxt >= ack THEN nxt - ack ELSE nxt - ack + SEQ_MOD
    BY DiffIs, ZenonT(60)
  <1>6. QED
    BY <1>3, <1>4, <1>5 DEF SeqNums

\* With only the SYN outstanding there is one number it can acknowledge.
LEMMA AckOfSyn ==
  ASSUME NEW iss \in SeqNums, NEW ack \in SeqNums
  PROVE  LET nxt == SeqAdd(iss, 1)
         IN  /\ SeqDiff(nxt, iss) = 1
             /\ nxt # iss
             /\ seq_lt(iss, ack) /\ seq_le(ack, nxt) => ack = nxt
             /\ ~seq_le(ack, iss) /\ ~seq_gt(ack, nxt) => ack = nxt
             /\ seq_gt(nxt, iss)
             /\ ~seq_gt(iss, iss)
             /\ ~seq_gt(nxt, nxt)
  <1>1. SEQ_MOD \in Nat /\ SEQ_MOD >= 8
    BY TcpConstants
  <1>2. SEQ_MOD = 2 * (SEQ_MOD \div 2) /\ SEQ_MOD \div 2 \in Nat
    BY TcpConstants
  <1> DEFINE H == SEQ_MOD \div 2
             nxt == SeqAdd(iss, 1)
  <1>3. H \in Nat /\ SEQ_MOD = 2 * H
    BY <1>2, Zenon DEF H
  <1>4. nxt = (IF iss + 1 < SEQ_MOD THEN iss + 1 ELSE iss + 1 - SEQ_MOD) /\ nxt \in SeqNums
    BY <1>1, AddIs DEF SeqNums
  <1>5. /\ seq_lt(iss, ack) <=> SeqDiff(iss, ack) >= H
        /\ seq_lt(ack, iss) <=> SeqDiff(ack, iss) >= H
        /\ seq_lt(ack, nxt) <=> SeqDiff(ack, nxt) >= H
        /\ seq_gt(ack, nxt) <=> SeqDiff(ack, nxt) \in 1..(H - 1)
        /\ seq_gt(nxt, iss) <=> SeqDiff(nxt, iss) \in 1..(H - 1)
        /\ seq_gt(nxt, nxt) <=> SeqDiff(nxt, nxt) \in 1..(H - 1)
        /\ seq_gt(iss, iss) <=> SeqDiff(iss, iss) \in 1..(H - 1)
    BY Zenon DEF seq_lt, seq_gt
  <1> HIDE DEF H, nxt
  <1>6. /\ SeqDiff(iss, ack) = IF iss >= ack THEN iss - ack ELSE iss - ack + SEQ_MOD
        /\ SeqDiff(ack, iss) = IF ack >= iss THEN ack - iss ELSE ack - iss + SEQ_MOD
        /\ SeqDiff(ack, nxt) = IF ack >= nxt THEN ack - nxt ELSE ack - nxt + SEQ_MOD
        /\ SeqDiff(nxt, iss) = IF nxt >= iss THEN nxt - iss ELSE nxt - iss + SEQ_MOD
        /\ SeqDiff(nxt, nxt) = 0 /\ SeqDiff(iss, iss) = 0
    BY <1>1, <1>4, DiffIs DEF SeqNums
  <1>7. SeqDiff(nxt, iss) = 1 /\ nxt # iss
    BY <1>1, <1>4, <1>6 DEF SeqNums
  <1>8. seq_lt(iss, ack) /\ (ack = nxt \/ seq_lt(ack, nxt)) => ack = nxt
    BY <1>1, <1>3, <1>4, <1>5, <1>6 DEF SeqNums
  <1>9. ~(ack = iss \/ seq_lt(ack, iss)) /\ ~seq_gt(ack, nxt) => ack = nxt
    BY <1>1, <1>3, <1>4, <1>5, <1>6 DEF SeqNums
  <1>10. seq_gt(nxt, iss) /\ ~seq_gt(iss, iss) /\ ~seq_gt(nxt, nxt)
    BY <1>1, <1>3, <1>5, <1>6, <1>7
  <1>11. QED
    BY <1>7, <1>8, <1>9, <1>10, Zenon DEF seq_le, nxt

-----------------------------------------------------------------------------
(* Control blocks and segments.                                            *)

LEMMA PeerIs ==
  ASSUME NEW e \in Ends
  PROVE  Peer(e) \in Ends /\ Peer(e) # e /\ Peer(Peer(e)) = e
  <1>1. Peer("A") = "B" /\ Peer("B") = "A"
    BY Zenon DEF Peer, Ends
  <1>2. QED
    BY <1>1, Zenon DEF Ends

\* The sizes and bounds as numbers.
LEMMA Sizes ==
  /\ SEQ_MOD \in Nat /\ TCP_MSS \in Nat /\ TCP_IW \in Nat /\ TCP_SNDBUF \in Nat
  /\ TCP_RCVBUF \in Nat /\ TCP_OOO_MAX \in Nat /\ TCP_MAX_RTX \in Nat
  /\ TCP_MSS > 0 /\ TCP_IW > 0 /\ TCP_SNDBUF > 0 /\ TCP_RCVBUF > 0
  /\ SEQ_MOD > 2 * (TCP_SNDBUF + TCP_RCVBUF + 2)
  /\ CwndCap = 4 * TCP_MSS + TCP_SNDBUF + TCP_IW /\ SsthreshMax = CwndCap + 1
  /\ CwndCap \in Nat
  BY TcpConstants DEF CwndCap, SsthreshMax

\* What the send buffer holds, and a FIN after it, stay within the sequence space.
LEMMA RingFits ==
  ASSUME NEW x \in Nat, NEW l \in Nat, x <= l \/ x = l + 1, l <= TCP_SNDBUF
  PROVE  x < SEQ_MOD /\ 2 * x < SEQ_MOD
  BY Sizes

\* The bytes that the window and the buffer let out.
LEMMA LeastRoom ==
  ASSUME NEW f \in Nat, NEW l \in Nat, NEW w \in Nat, NEW cw \in Nat, cw > 0, f <= l
  PROVE  LET m == Least(l - f, Least(w, cw) - f)
         IN  m \in Int /\ m <= l - f /\ (f = 0 /\ w > 0 /\ l > 0 => m > 0)
  BY DEF Least

\* A segment sent by e.
OutSeg(e) == [flags : Flags, seq : SeqNums, ack : SeqNums, wnd : 0..TCP_RCVBUF,
              data : Seq(Bytes(e))]

LEMMA OutSegTo == \A e \in Ends : OutSeg(e) = SegTo(Peer(e))
  BY PeerIs, ZenonT(60) DEF OutSeg, SegTo

\* A context of e: its block and the segments it has sent.
Context(c, e) ==
    /\ c = [t |-> c.t, out |-> c.out]
    /\ Typed(c.t, e)
    /\ c.out \subseteq OutSeg(e)

\* The fields the send side depends on are the same.
SameSend(u, t) ==
    /\ u.state = t.state
    /\ u.iss = t.iss
    /\ u.snd_una = t.snd_una
    /\ u.snd_nxt = t.snd_nxt
    /\ u.snd_wnd = t.snd_wnd
    /\ u.sndq = t.sndq
    /\ u.fin_queued = t.fin_queued
    /\ u.fin_sent = t.fin_sent
    /\ u.rto = t.rto

\* The invariant of a block depends on no others.
LEMMA SameFlow ==
  ASSUME NEW t, NEW u, SameSend(u, t)
  PROVE  /\ SynOut(t) => SynOut(u)
         /\ Flow(t) => Flow(u)
         /\ NoStall(t) => NoStall(u)
         /\ in_flight(u) = in_flight(t)
         /\ tcp_data_in_flight(u) = tcp_data_in_flight(t)
  BY ZenonT(60) DEF SameSend, SynOut, Flow, NoStall, in_flight, tcp_data_in_flight

LEMMA SameTrans ==
  ASSUME NEW t, NEW u, NEW v, SameSend(u, t), SameSend(v, u) PROVE SameSend(v, t)
  BY Zenon DEF SameSend

\* Fields of a block as numbers and sequences.
LEMMA TypedFields ==
  ASSUME NEW e \in Ends, NEW t, Typed(t, e)
  PROVE  /\ t.state \in TcpStates
         /\ t.iss \in SeqNums /\ t.snd_una \in SeqNums /\ t.snd_nxt \in SeqNums
         /\ t.rcv_nxt \in SeqNums
         /\ t.snd_wnd \in 0..TCP_RCVBUF
         /\ t.sndq \in Seq(Bytes(e)) /\ Len(t.sndq) \in Nat /\ Len(t.sndq) <= TCP_SNDBUF
         /\ t.rcvq \in Seq(Bytes(Peer(e))) /\ Len(t.rcvq) \in Nat /\ Len(t.rcvq) <= TCP_RCVBUF
         /\ t.fin_queued \in BOOLEAN /\ t.fin_sent \in BOOLEAN /\ t.rto \in BOOLEAN
         /\ t.nodelay \in BOOLEAN /\ t.delack \in BOOLEAN
         /\ t.cwnd \in TCP_MSS..CwndCap
         /\ t.ssthresh \in TCP_MSS..SsthreshMax
         /\ t.dupacks \in 0..4
         /\ t.rtx_count \in 0..TCP_MAX_RTX
         /\ t.ooo \in Seq([seq : SeqNums, data : Seq(Bytes(Peer(e)))])
         /\ Len(t.ooo) \in Nat /\ Len(t.ooo) <= TCP_OOO_MAX
         /\ tcp_rcv_window(t) \in 0..TCP_RCVBUF
         /\ in_flight(t) \in Nat /\ in_flight(t) < SEQ_MOD
         /\ in_flight(t) = 0 <=> t.snd_una = t.snd_nxt
  <1>1. t \in Tcb(e)
    BY Zenon DEF Typed
  <1>2. /\ t.state \in TcpStates
        /\ t.iss \in SeqNums /\ t.snd_una \in SeqNums /\ t.snd_nxt \in SeqNums
        /\ t.rcv_nxt \in SeqNums
        /\ t.snd_wnd \in 0..TCP_RCVBUF
        /\ t.fin_queued \in BOOLEAN /\ t.fin_sent \in BOOLEAN /\ t.rto \in BOOLEAN
        /\ t.nodelay \in BOOLEAN /\ t.delack \in BOOLEAN
        /\ t.cwnd \in TCP_MSS..CwndCap
        /\ t.ssthresh \in 1..SsthreshMax
        /\ t.dupacks \in 0..4
        /\ t.rtx_count \in 0..TCP_MAX_RTX
        /\ t.sndq \in Seq(Bytes(e))
        /\ t.rcvq \in Seq(Bytes(Peer(e)))
        /\ t.ooo \in Seq([seq : SeqNums, data : Seq(Bytes(Peer(e)))])
    BY <1>1, ZenonT(60) DEF Tcb
  <1>3. Len(t.sndq) \in Nat /\ Len(t.rcvq) \in Nat /\ Len(t.ooo) \in Nat
    BY <1>2
  <1>4. Len(t.sndq) <= TCP_SNDBUF /\ Len(t.rcvq) <= TCP_RCVBUF /\ Len(t.ooo) <= TCP_OOO_MAX /\ t.ssthresh >= TCP_MSS
    BY Zenon DEF Typed
  <1>5. t.ssthresh \in TCP_MSS..SsthreshMax
    BY <1>2, <1>4, Sizes
  <1>6. tcp_rcv_window(t) \in 0..TCP_RCVBUF
    BY <1>3, <1>4, Sizes DEF tcp_rcv_window
  <1>7. in_flight(t) \in Nat /\ in_flight(t) < SEQ_MOD /\ (in_flight(t) = 0 <=> t.snd_una = t.snd_nxt)
    BY <1>2, DiffZero, ZenonT(60) DEF in_flight
  <1>8. QED
    BY <1>2, <1>3, <1>4, <1>5, <1>6, <1>7, ZenonT(60)

\* A context with another block.
LEMMA WithBlock ==
  ASSUME NEW e, NEW c, Context(c, e), NEW u
  PROVE  [c EXCEPT !.t = u] = [t |-> u, out |-> c.out]
  <1>1. c = [t |-> c.t, out |-> c.out]
    BY Zenon DEF Context
  <1>2. QED
    BY <1>1

LEMMA BlockOf ==
  ASSUME NEW e, NEW c, Context(c, e), NEW u, Typed(u, e)
  PROVE  /\ Context([t |-> u, out |-> c.out], e)
         /\ Context([c EXCEPT !.t = u], e)
         /\ [c EXCEPT !.t = u].t = u
  <1>1. [c EXCEPT !.t = u] = [t |-> u, out |-> c.out]
    BY WithBlock, ZenonT(60)
  <1>2. [t |-> u, out |-> c.out].t = u /\ [t |-> u, out |-> c.out].out = c.out
    BY Zenon
  <1>3. c.out \subseteq OutSeg(e)
    BY Zenon DEF Context
  <1>4. Context([t |-> u, out |-> c.out], e)
    BY <1>2, <1>3, Zenon DEF Context
  <1>5. QED
    BY <1>1, <1>2, <1>4, Zenon

-----------------------------------------------------------------------------
(* The send engine.                                                        *)

LEMMA SegFields ==
  ASSUME NEW e, NEW flags \in Flags, NEW seq \in SeqNums, NEW ack \in SeqNums,
         NEW wnd \in 0..TCP_RCVBUF, NEW data \in Seq(Bytes(e))
  PROVE  [flags |-> flags, seq |-> seq, ack |-> ack, wnd |-> wnd, data |-> data] \in OutSeg(e)
  BY Zenon DEF OutSeg

LEMMA ZeroSeq == 0 \in SeqNums
  BY Sizes DEF SeqNums

\* Transmitting leaves the send side alone.
LEMMA SegmentSent ==
  ASSUME NEW e \in Ends, NEW c, Context(c, e), NEW flags \in Flags, NEW seq \in SeqNums,
         NEW data \in Seq(Bytes(e))
  PROVE  /\ Context(tcp_send_segment(c, flags, seq, data), e)
         /\ SameSend(tcp_send_segment(c, flags, seq, data).t, c.t)
  <1> DEFINE w == tcp_rcv_window(c.t)
             u == IF "ACK" \in flags
                  THEN [c.t EXCEPT !.delack = FALSE, !.rcv_wnd_advertised = w] ELSE c.t
             s == [flags |-> flags, seq |-> seq,
                   ack |-> IF "ACK" \in flags THEN c.t.rcv_nxt ELSE 0, wnd |-> w, data |-> data]
             o == c.out \cup {s}
  <1>1. Typed(c.t, e) /\ c.t \in Tcb(e) /\ c.out \subseteq OutSeg(e)
    BY Zenon DEF Context, Typed
  <1>2. w \in 0..TCP_RCVBUF /\ c.t.rcv_nxt \in SeqNums
    BY <1>1, TypedFields, ZenonT(60)
  <1>3. tcp_send_segment(c, flags, seq, data) = [t |-> u, out |-> o]
    BY Zenon DEF tcp_send_segment
  <1> HIDE DEF w
  <1>4. SameSend(u, c.t) /\ u.sndq = c.t.sndq /\ u.rcvq = c.t.rcvq /\ u.ooo = c.t.ooo /\ u.ssthresh = c.t.ssthresh
    BY <1>1, ZenonT(60) DEF Tcb, SameSend
  <1>5. u \in Tcb(e)
    BY <1>1, <1>2, ZenonT(60) DEF Tcb
  <1>6. Typed(u, e)
    BY <1>1, <1>4, <1>5, Zenon DEF Typed
  <1>7. s \in OutSeg(e)
    BY <1>2, ZeroSeq, SegFields, Zenon
  <1>8. o \subseteq OutSeg(e)
    BY <1>1, <1>7, Zenon
  <1> HIDE DEF u, o
  <1>9. QED
    BY <1>3, <1>4, <1>6, <1>8 DEF Context

LEMMA FlagSets ==
  {{"SYN"}, {"SYN", "ACK"}, {"ACK"}, {"FIN", "ACK"}, {"RST"}, {"RST", "ACK"}} = Flags
  BY Zenon DEF Flags

LEMMA EmptyData == \A e : <<>> \in Seq(Bytes(e)) /\ Len(<<>>) = 0
  OBVIOUS

LEMMA CtlSent ==
  ASSUME NEW e \in Ends, NEW c, Context(c, e), NEW flags \in Flags
  PROVE  Context(tcp_send_ctl(c, flags), e) /\ SameSend(tcp_send_ctl(c, flags).t, c.t)
  <1>1. Typed(c.t, e)
    BY Zenon DEF Context
  <1>2. c.t.iss \in SeqNums /\ c.t.snd_nxt \in SeqNums
    BY <1>1, TypedFields, ZenonT(60)
  <1>3. (IF "SYN" \in flags THEN c.t.iss ELSE c.t.snd_nxt) \in SeqNums
    BY <1>2, ZenonT(60)
  <1>4. QED
    BY <1>3, SegmentSent, EmptyData, ZenonT(60) DEF tcp_send_ctl

\* tcp_output's loop sends no more than the ring holds, and something when
\* nothing is in flight and the window is open.
LEMMA OutputFits ==
  ASSUME NEW e \in Ends, NEW t, Typed(t, e), Flow(t)
  PROVE  /\ OutputBytes(t) \in Nat
         /\ OutputBytes(t) > 0 => ~t.fin_sent /\ in_flight(t) + OutputBytes(t) <= Len(t.sndq)
         /\ (in_flight(t) = 0 /\ t.sndq # <<>> /\ t.snd_wnd > 0) => OutputBytes(t) > 0
  <1> DEFINE f == in_flight(t)
             sent  == tcp_data_in_flight(t)
             avail == Len(t.sndq) - sent
             room  == Least(t.snd_wnd, t.cwnd) - f
             m     == Least(avail, room)
             rem   == m % TCP_MSS
             held  == ~t.nodelay /\ sent + m - rem > 0 /\ m = avail
  <1>1. OutputBytes(t) = IF t.fin_sent \/ m <= 0 THEN 0 ELSE IF held THEN m - rem ELSE m
    BY Zenon DEF OutputBytes
  <1>2. f \in Nat /\ Len(t.sndq) \in Nat /\ t.snd_wnd \in Nat /\ t.cwnd \in Nat /\ t.cwnd > 0 /\ t.fin_sent \in BOOLEAN
    <2>1. f \in Nat /\ Len(t.sndq) \in Nat /\ t.snd_wnd \in 0..TCP_RCVBUF /\ t.cwnd \in TCP_MSS..CwndCap /\ t.fin_sent \in BOOLEAN
      BY TypedFields, ZenonT(60)
    <2>2. QED
      BY <2>1, Sizes
  <1>3. ~t.fin_sent => sent = f /\ f <= Len(t.sndq)
    BY Zenon DEF Flow, tcp_data_in_flight
  <1>4. (f = 0 /\ t.sndq # <<>>) => ~t.fin_sent /\ Len(t.sndq) > 0
    <2>1. t.fin_sent => in_flight(t) = Len(t.sndq) + 1 \/ t.sndq = <<>>
      BY Zenon DEF Flow
    <2>2. t.sndq # <<>> => Len(t.sndq) > 0
      BY TypedFields
    <2>3. QED
      BY <1>2, <2>1, <2>2
  <1> HIDE DEF f, sent
  <1>5. ASSUME ~t.fin_sent PROVE m \in Int /\ m <= Len(t.sndq) - f /\ (f = 0 /\ t.snd_wnd > 0 /\ Len(t.sndq) > 0 => m > 0)
    <2>1. sent = f /\ f <= Len(t.sndq)
      BY <1>3, <1>5, Zenon
    <2>2. QED
      BY <1>2, <2>1, LeastRoom, ZenonT(60)
  <1>6. ASSUME m \in Int, m > 0 PROVE rem \in Nat /\ rem <= m /\ rem < TCP_MSS
    BY <1>6, Sizes
  <1>7. CASE t.fin_sent
    BY <1>1, <1>4, <1>7 DEF f
  <1>8. CASE ~t.fin_sent
    <2>1. m \in Int /\ m <= Len(t.sndq) - f /\ (f = 0 /\ t.snd_wnd > 0 /\ Len(t.sndq) > 0 => m > 0) /\ sent = f
      BY <1>3, <1>5, <1>8, Zenon
    <2>2. m > 0 => rem \in Nat /\ rem <= m
      BY <1>6, <2>1, Zenon
    <2> HIDE DEF m, rem
    <2>3. m > 0 => (held => (f = 0 => m - rem > 0))
      BY <2>1, <2>2, <1>2
    <2>4. OutputBytes(t) \in Nat /\ (OutputBytes(t) > 0 => f + OutputBytes(t) <= Len(t.sndq))
      BY <1>1, <1>2, <1>8, <2>1, <2>2
    <2>5. (f = 0 /\ t.snd_wnd > 0 /\ Len(t.sndq) > 0) => OutputBytes(t) > 0
      BY <1>1, <1>2, <1>8, <2>1, <2>2, <2>3
    <2>6. QED
      BY <1>4, <1>8, <2>4, <2>5, ZenonT(60) DEF f
  <1>9. QED
    BY <1>2, <1>7, <1>8, ZenonT(60)

\* A part of a sequence.
LEMMA SeqPart ==
  ASSUME NEW S, NEW s \in Seq(S), NEW m \in Int, NEW n \in Int, m >= 1, n <= Len(s)
  PROVE  /\ SubSeq(s, m, n) \in Seq(S)
         /\ Len(SubSeq(s, m, n)) = IF m <= n THEN n - m + 1 ELSE 0
  <1>1. \A i \in m..n : s[i] \in S
    OBVIOUS
  <1>2. QED
    BY <1>1

\* The product of naturals.
LEMMA Product == \A a, b \in Nat : a * b \in Nat
  OBVIOUS

\* The ends of a segment cut from the ring.
LEMMA CutBounds ==
  ASSUME NEW f \in Nat, NEW n \in Nat, NEW l \in Nat, NEW x \in Nat, NEW y \in Nat, f + n <= l
  PROVE  /\ f + x + 1 \in Int /\ f + x + 1 >= 1
         /\ f + Least(y, n) \in Int /\ f + Least(y, n) <= l
  BY DEF Least

\* n more bytes of the ring go out.
LEMMA DataSent ==
  ASSUME NEW e \in Ends, NEW c, Context(c, e), Flow(c.t), c.t.state \in SendStates,
         NEW n \in Nat, n > 0 => ~c.t.fin_sent /\ in_flight(c.t) + n <= Len(c.t.sndq)
  PROVE  LET r == SendData(c, n)
         IN  /\ Context(r, e)
             /\ Flow(r.t)
             /\ r.t.state = c.t.state
             /\ r.t.sndq = c.t.sndq
             /\ r.t.snd_wnd = c.t.snd_wnd
             /\ r.t.fin_sent = c.t.fin_sent
             /\ in_flight(r.t) = in_flight(c.t) + n
  <1> DEFINE t == c.t
             f == in_flight(t)
  <1>1. Typed(t, e) /\ t \in Tcb(e) /\ c.out \subseteq OutSeg(e)
    BY ZenonT(60) DEF Context, Typed
  <1>2. /\ f \in Nat /\ Len(t.sndq) \in Nat /\ Len(t.sndq) <= TCP_SNDBUF /\ t.snd_una \in SeqNums
        /\ t.snd_nxt \in SeqNums /\ t.rcv_nxt \in SeqNums /\ t.sndq \in Seq(Bytes(e))
        /\ tcp_rcv_window(t) \in 0..TCP_RCVBUF
    BY <1>1, TypedFields, ZenonT(60)
  <1>3. CASE n = 0
    <2>1. SendData(c, n) = c
      BY <1>3, Zenon DEF SendData
    <2>2. in_flight(c.t) + n = in_flight(c.t)
      BY <1>2, <1>3
    <2>3. QED
      BY <2>1, <2>2, Zenon
  <1>4. CASE n # 0
    <2> DEFINE w == tcp_rcv_window(t)
               N == SeqAdd(t.snd_nxt, n)
               u == [t EXCEPT !.snd_nxt = N, !.rto = TRUE, !.delack = FALSE,
                              !.rcv_wnd_advertised = w]
               base == tcp_data_in_flight(t)
               seg(k) == [flags |-> {"ACK"}, seq |-> SeqAdd(t.snd_nxt, k * TCP_MSS),
                          ack |-> t.rcv_nxt, wnd |-> w,
                          data |-> SubSeq(t.sndq, base + k * TCP_MSS + 1,
                                          base + Least((k + 1) * TCP_MSS, n))]
               o == c.out \cup {seg(k) : k \in 0..((n - 1) \div TCP_MSS)}
    <2>1. n > 0 /\ ~t.fin_sent /\ f + n <= Len(t.sndq)
      BY <1>4
    <2>2. SendData(c, n) = [t |-> u, out |-> o]
      BY <1>4, Zenon DEF SendData
    <2>3. base = f
      BY <2>1, ZenonT(60) DEF tcp_data_in_flight
    <2>4. N \in SeqNums
      BY <1>2, AddNat, Zenon
    <2>5. f + n < SEQ_MOD
      <3>1. f + n \in Nat
        <4> HIDE DEF f
        <4>1. QED
          BY <1>2
      <3>2. QED
        BY <1>2, <2>1, <3>1, RingFits, Zenon
    <2>6. SeqDiff(N, t.snd_una) = f + n
      BY <1>2, <2>5, DiffAdd, ZenonT(60) DEF in_flight
    <2>7. ASSUME NEW k \in 0..((n - 1) \div TCP_MSS) PROVE seg(k) \in OutSeg(e)
      <3>1. k \in Nat /\ k * TCP_MSS \in Nat /\ (k + 1) * TCP_MSS \in Nat
        <4>1. (n - 1) \div TCP_MSS \in Int
          BY Sizes
        <4>2. k \in Nat /\ k + 1 \in Nat
          BY <4>1
        <4>3. QED
          BY <4>2, Product, Sizes, ZenonT(60)
      <3> DEFINE x == k * TCP_MSS
                 y == (k + 1) * TCP_MSS
                 a == base + x + 1
                 b == base + Least(y, n)
                 q == SeqAdd(t.snd_nxt, x)
      <3> HIDE DEF x, y
      <3>2. a \in Int /\ a >= 1 /\ b \in Int /\ b <= Len(t.sndq)
        <4>1. x \in Nat /\ y \in Nat
          BY <3>1, ZenonT(60) DEF x, y
        <4> HIDE DEF f, base, t
        <4>2. f \in Nat /\ Len(t.sndq) \in Nat /\ f + n <= Len(t.sndq)
          BY <1>2, <2>1, ZenonT(60)
        <4>3. /\ f + x + 1 \in Int /\ f + x + 1 >= 1
              /\ f + Least(y, n) \in Int /\ f + Least(y, n) <= Len(t.sndq)
          BY <4>1, <4>2, CutBounds, Zenon
        <4>4. QED
          BY <4>3, <2>3, Zenon
      <3>3. q \in SeqNums
        BY <3>1, <1>2, AddNat, Zenon DEF x
      <3>4. SubSeq(t.sndq, a, b) \in Seq(Bytes(e))
        <4> HIDE DEF a, b, t
        <4>1. QED
          BY <1>2, <3>2, SeqPart, ZenonT(60)
      <3> HIDE DEF a, b, q, t
      <3>5. [flags |-> {"ACK"}, seq |-> q, ack |-> t.rcv_nxt, wnd |-> w, data |-> SubSeq(t.sndq, a, b)] \in OutSeg(e)
        BY <1>2, <3>3, <3>4, SegFields, FlagSets, ZenonT(60)
      <3>6. QED
        BY <3>5, ZenonT(60) DEF a, b, q, x, y
    <2>8. o \subseteq OutSeg(e)
      BY <1>1, <2>7, ZenonT(60)
    <2> HIDE DEF w, N, seg, o, base, t
    <2>9. /\ u.state = t.state /\ u.snd_una = t.snd_una /\ u.snd_nxt = N /\ u.rto = TRUE
          /\ u.sndq = t.sndq /\ u.snd_wnd = t.snd_wnd /\ u.fin_sent = t.fin_sent
          /\ u.fin_queued = t.fin_queued
          /\ u.rcvq = t.rcvq /\ u.ooo = t.ooo /\ u.ssthresh = t.ssthresh
      BY <1>1, ZenonT(60) DEF Tcb
    <2>10. u \in Tcb(e)
      BY <1>1, <1>2, <2>4, ZenonT(60) DEF Tcb, w
    <2> HIDE DEF u
    <2>11. Typed(u, e)
      BY <1>1, <2>9, <2>10, ZenonT(60) DEF Typed
    <2>12. in_flight(u) = f + n
      BY <2>6, <2>9, ZenonT(60) DEF in_flight
    <2>13. u.snd_una # u.snd_nxt
      <3>1. in_flight(u) = 0 <=> u.snd_una = u.snd_nxt
        BY <2>11, TypedFields, ZenonT(60)
      <3>2. f + n # 0
        BY <2>1, <1>2
      <3>3. QED
        BY <3>1, <3>2, <2>12, ZenonT(60)
    <2>14. Flow(u)
      <3>1. t.state \notin {"FIN_WAIT_2", "TIME_WAIT"} /\ (t.state \in {"ESTABLISHED", "CLOSE_WAIT"} => ~t.fin_queued)
        BY ZenonT(60) DEF SendStates, Flow, t
      <3>2. in_flight(u) <= Len(u.sndq) /\ ~u.fin_sent
        BY <2>1, <2>9, <2>12, ZenonT(60)
      <3>3. QED
        BY <3>1, <3>2, <2>9, <2>13, ZenonT(60) DEF Flow
    <2>15. SendData(c, n).t = u /\ SendData(c, n).out = o /\ SendData(c, n) = [t |-> SendData(c, n).t, out |-> SendData(c, n).out]
      BY <2>2
    <2>16. Context(SendData(c, n), e)
      BY <2>15, <2>11, <2>8, ZenonT(60) DEF Context
    <2>17. QED
      BY <2>15, <2>16, <2>14, <2>12, <2>9, ZenonT(60) DEF t, f
  <1>5. QED
    BY <1>3, <1>4, ZenonT(60)

\* The FIN goes out behind the ring.
LEMMA FinSent ==
  ASSUME NEW e \in Ends, NEW c, Context(c, e), Flow(c.t), c.t.state \in SendStates
  PROVE  LET r == SendFin(c)
         IN  /\ Context(r, e)
             /\ Flow(r.t)
             /\ r.t.state = c.t.state
             /\ r.t.sndq = c.t.sndq
             /\ r.t.snd_wnd = c.t.snd_wnd
             /\ in_flight(c.t) # 0 => in_flight(r.t) # 0
  <1> DEFINE due == c.t.fin_queued /\ ~c.t.fin_sent /\ Len(c.t.sndq) = tcp_data_in_flight(c.t)
             p == tcp_send_segment(c, {"FIN", "ACK"}, c.t.snd_nxt, <<>>)
  <1>1. CASE ~due
    <2>1. SendFin(c) = c
      BY <1>1, Zenon DEF SendFin
    <2>2. QED
      BY <2>1, Zenon
  <1>2. CASE due
    <2>1. Typed(c.t, e)
      BY ZenonT(60) DEF Context
    <2>2. c.t.snd_nxt \in SeqNums
      BY <2>1, TypedFields, ZenonT(60)
    <2>3. Context(p, e) /\ SameSend(p.t, c.t)
      <3>1. {"FIN", "ACK"} \in Flags /\ <<>> \in Seq(Bytes(e))
        BY FlagSets, EmptyData, ZenonT(60)
      <3>2. QED
        BY <2>2, <3>1, SegmentSent, Zenon
    <2>4. SendFin(c) = [p EXCEPT !.t.fin_sent = TRUE, !.t.snd_nxt = SeqAdd(@, 1), !.t.rto = TRUE]
      BY <1>2, Zenon DEF SendFin
    <2> HIDE DEF p
    <2> DEFINE t == p.t
               N == SeqAdd(t.snd_nxt, 1)
               u == [t EXCEPT !.fin_sent = TRUE, !.snd_nxt = N, !.rto = TRUE]
    <2>5. Typed(t, e) /\ t \in Tcb(e) /\ p.out \subseteq OutSeg(e) /\ p = [t |-> t, out |-> p.out]
      BY <2>3, Zenon DEF Context, Typed
    <2>6. SendFin(c) = [t |-> u, out |-> p.out]
      BY <2>4, <2>5, ZenonT(60) DEF Tcb
    <2>7. t.snd_nxt \in SeqNums /\ t.snd_una \in SeqNums /\ in_flight(t) \in Nat /\ Len(t.sndq) \in Nat /\ Len(t.sndq) <= TCP_SNDBUF
      BY <2>5, TypedFields, ZenonT(60)
    <2>8. t.state = c.t.state /\ t.sndq = c.t.sndq /\ t.snd_wnd = c.t.snd_wnd /\ t.fin_queued /\ in_flight(t) = in_flight(c.t)
      BY <1>2, <2>3, SameFlow, ZenonT(60) DEF SameSend
    <2>9. in_flight(t) = Len(t.sndq)
      BY <1>2, <2>8, ZenonT(60) DEF tcp_data_in_flight
    <2>10. N \in SeqNums
      BY <2>7, AddNat, ZenonT(60)
    <2>11. SeqDiff(N, t.snd_una) = in_flight(t) + 1
      <3>1. in_flight(t) + 1 < SEQ_MOD
        <4>1. Len(t.sndq) + 1 \in Nat
          BY <2>7, SMTT(60)
        <4>2. Len(t.sndq) + 1 < SEQ_MOD
          BY <2>7, <4>1, RingFits, Zenon
        <4>3. QED
          BY <2>9, <4>2, Zenon
      <3>2. QED
        BY <2>7, <3>1, DiffAdd DEF in_flight
    <2> HIDE DEF N, t
    <2>12. /\ u.state = t.state /\ u.snd_una = t.snd_una /\ u.snd_nxt = N /\ u.rto = TRUE
           /\ u.sndq = t.sndq /\ u.snd_wnd = t.snd_wnd /\ u.fin_sent = TRUE
           /\ u.fin_queued = t.fin_queued
           /\ u.rcvq = t.rcvq /\ u.ooo = t.ooo /\ u.ssthresh = t.ssthresh
      BY <2>5, ZenonT(60) DEF Tcb
    <2>13. u \in Tcb(e)
      BY <2>5, <2>10, ZenonT(60) DEF Tcb
    <2> HIDE DEF u
    <2>14. Typed(u, e)
      BY <2>5, <2>12, <2>13, ZenonT(60) DEF Typed
    <2>15. in_flight(u) = Len(t.sndq) + 1 /\ in_flight(u) # 0
      <3>1. in_flight(u) = in_flight(t) + 1
        BY <2>11, <2>12, ZenonT(60) DEF in_flight
      <3>2. QED
        BY <3>1, <2>9, <2>7
    <2>16. u.snd_una # u.snd_nxt
      BY <2>14, <2>15, TypedFields, ZenonT(60)
    <2>17. t.state \notin {"FIN_WAIT_2", "TIME_WAIT", "ESTABLISHED", "CLOSE_WAIT"}
      <3>1. c.t.state \notin {"FIN_WAIT_2", "TIME_WAIT"} /\ (c.t.state \in {"ESTABLISHED", "CLOSE_WAIT"} => ~c.t.fin_queued)
        BY ZenonT(60) DEF SendStates, Flow
      <3>2. QED
        BY <1>2, <2>8, <3>1, ZenonT(60)
    <2>18. Flow(u)
      BY <2>8, <2>12, <2>15, <2>16, <2>17, ZenonT(60) DEF Flow
    <2>19. SendFin(c).t = u /\ SendFin(c).out = p.out /\ SendFin(c) = [t |-> SendFin(c).t, out |-> SendFin(c).out]
      BY <2>6
    <2>20. Context(SendFin(c), e)
      BY <2>19, <2>5, <2>14, Zenon DEF Context
    <2>21. QED
      BY <2>8, <2>12, <2>15, <2>18, <2>19, <2>20, ZenonT(60)
  <1>3. QED
    BY <1>1, <1>2, ZenonT(60)

\* tcp_output keeps the flow and leaves nothing waiting without a reason.
LEMMA Output ==
  ASSUME NEW e \in Ends, NEW c, Context(c, e), Flow(c.t)
  PROVE  LET r == tcp_output(c)
         IN  Context(r, e) /\ Flow(r.t) /\ NoStall(r.t) /\ r.t.state = c.t.state
  <1>1. CASE c.t.state \notin SendStates
    <2>1. tcp_output(c) = c
      BY <1>1, ZenonT(60) DEF tcp_output
    <2>2. NoStall(c.t)
      BY <1>1, ZenonT(60) DEF NoStall
    <2>3. QED
      BY <2>1, <2>2, Zenon
  <1>2. CASE c.t.state \in SendStates
    <2> DEFINE n == OutputBytes(c.t)
               d == SendData(c, n)
               r == SendFin(d)
    <2>1. tcp_output(c) = r
      BY <1>2, ZenonT(60) DEF tcp_output
    <2>2. Typed(c.t, e)
      BY ZenonT(60) DEF Context
    <2>3. /\ n \in Nat
          /\ n > 0 => ~c.t.fin_sent /\ in_flight(c.t) + n <= Len(c.t.sndq)
          /\ (in_flight(c.t) = 0 /\ c.t.sndq # <<>> /\ c.t.snd_wnd > 0) => n > 0
      BY <2>2, OutputFits, Zenon
    <2> HIDE DEF n
    <2>4. /\ Context(d, e) /\ Flow(d.t) /\ d.t.state = c.t.state /\ d.t.sndq = c.t.sndq
          /\ d.t.snd_wnd = c.t.snd_wnd /\ in_flight(d.t) = in_flight(c.t) + n
      BY <1>2, <2>3, DataSent, Zenon
    <2> HIDE DEF d
    <2>5. d.t.state \in SendStates
      BY <1>2, <2>4, ZenonT(60)
    <2>6. /\ Context(r, e) /\ Flow(r.t) /\ r.t.state = d.t.state /\ r.t.sndq = d.t.sndq
          /\ r.t.snd_wnd = d.t.snd_wnd /\ (in_flight(d.t) # 0 => in_flight(r.t) # 0)
      BY <2>4, <2>5, FinSent, Zenon
    <2> HIDE DEF r
    <2>7. Typed(r.t, e)
      BY <2>6, ZenonT(60) DEF Context
    <2>8. in_flight(r.t) = 0 <=> r.t.snd_una = r.t.snd_nxt
      BY <2>7, TypedFields, ZenonT(60)
    <2>9. in_flight(c.t) \in Nat /\ c.t.snd_wnd \in 0..TCP_RCVBUF
      BY <2>2, TypedFields, ZenonT(60)
    <2>10. NoStall(r.t)
      <3>1. SUFFICES ASSUME r.t.sndq # <<>>, r.t.snd_una = r.t.snd_nxt PROVE r.t.snd_wnd = 0
        BY Zenon DEF NoStall
      <3>2. in_flight(d.t) = 0 /\ c.t.sndq # <<>>
        BY <3>1, <2>4, <2>6, <2>8, ZenonT(60)
      <3>3. in_flight(c.t) = 0 /\ n = 0
        BY <3>2, <2>3, <2>4, <2>9
      <3>4. ~(c.t.snd_wnd > 0)
        BY <3>2, <3>3, <2>3
      <3>5. c.t.snd_wnd = 0
        BY <3>4, <2>9, Sizes
      <3>6. QED
        BY <3>5, <2>4, <2>6, ZenonT(60)
    <2>11. QED
      BY <2>1, <2>4, <2>6, <2>10, Zenon
  <1>3. QED
    BY <1>1, <1>2, ZenonT(60)

\* The data in flight is in the ring.
LEMMA FlightData ==
  ASSUME NEW e \in Ends, NEW t, Typed(t, e), Flow(t)
  PROVE  tcp_data_in_flight(t) \in Nat /\ tcp_data_in_flight(t) <= Len(t.sndq)
  <1>1. in_flight(t) \in Nat /\ Len(t.sndq) \in Nat /\ t.fin_sent \in BOOLEAN
    BY TypedFields, ZenonT(60)
  <1>2. t.fin_sent => in_flight(t) = Len(t.sndq) + 1 \/ in_flight(t) = 0
    BY ZenonT(60) DEF Flow
  <1>3. ~t.fin_sent => in_flight(t) <= Len(t.sndq)
    BY ZenonT(60) DEF Flow
  <1>4. QED
    BY <1>1, <1>2, <1>3 DEF tcp_data_in_flight

\* A retransmission leaves the send side alone.
LEMMA Retransmitted ==
  ASSUME NEW e \in Ends, NEW c, Context(c, e), c.t.state \notin Opening => Flow(c.t)
  PROVE  Context(tcp_retransmit(c), e) /\ SameSend(tcp_retransmit(c).t, c.t)
  <1> DEFINE n == Least(tcp_data_in_flight(c.t), TCP_MSS)
  <1>1. Typed(c.t, e)
    BY ZenonT(60) DEF Context
  <1>2. c.t.snd_una \in SeqNums /\ c.t.sndq \in Seq(Bytes(e)) /\ Len(c.t.sndq) \in Nat
    BY <1>1, TypedFields, ZenonT(60)
  <1>3. {"SYN"} \in Flags /\ {"SYN", "ACK"} \in Flags /\ {"ACK"} \in Flags /\ {"FIN", "ACK"} \in Flags
    BY FlagSets, ZenonT(60)
  <1>4. CASE c.t.state = "SYN_SENT"
    <2>1. tcp_retransmit(c) = tcp_send_ctl(c, {"SYN"})
      BY <1>4, Zenon DEF tcp_retransmit
    <2>2. QED
      BY <1>3, <2>1, CtlSent, Zenon
  <1>5. CASE c.t.state = "SYN_RCVD"
    <2>1. tcp_retransmit(c) = tcp_send_ctl(c, {"SYN", "ACK"})
      BY <1>5, ZenonT(60) DEF tcp_retransmit
    <2>2. QED
      BY <1>3, <2>1, CtlSent, Zenon
  <1>6. CASE c.t.state \notin Opening
    <2> DEFINE data == SubSeq(c.t.sndq, 1, n)
               late == c.t.fin_sent /\ seq_lt(c.t.snd_una, c.t.snd_nxt)
    <2>1. tcp_retransmit(c) = IF n > 0 THEN tcp_send_segment(c, {"ACK"}, c.t.snd_una, data)
                              ELSE IF late THEN tcp_send_segment(c, {"FIN", "ACK"}, c.t.snd_una, <<>>)
                              ELSE c
      BY <1>6, ZenonT(60) DEF tcp_retransmit, Opening
    <2>2. tcp_data_in_flight(c.t) \in Nat /\ tcp_data_in_flight(c.t) <= Len(c.t.sndq)
      BY <1>1, <1>6, FlightData, ZenonT(60)
    <2>3. n \in Int /\ n <= Len(c.t.sndq)
      BY <1>2, <2>2, Sizes DEF Least
    <2> HIDE DEF n
    <2>4. data \in Seq(Bytes(e))
      BY <1>2, <2>3, SeqPart
    <2> HIDE DEF data, late
    <2>5. Context(tcp_send_segment(c, {"ACK"}, c.t.snd_una, data), e) /\ SameSend(tcp_send_segment(c, {"ACK"}, c.t.snd_una, data).t, c.t)
      BY <1>2, <1>3, <2>4, SegmentSent, Zenon
    <2>6. Context(tcp_send_segment(c, {"FIN", "ACK"}, c.t.snd_una, <<>>), e) /\ SameSend(tcp_send_segment(c, {"FIN", "ACK"}, c.t.snd_una, <<>>).t, c.t)
      BY <1>2, <1>3, EmptyData, SegmentSent, ZenonT(60)
    <2>7. SameSend(c.t, c.t)
      BY Zenon DEF SameSend
    <2>8. QED
      BY <2>1, <2>5, <2>6, <2>7, ZenonT(60)
  <1>7. QED
    BY <1>4, <1>5, <1>6, ZenonT(60) DEF Opening

\* A probe puts the first byte of the ring in flight.
LEMMA ProbeSent ==
  ASSUME NEW e \in Ends, NEW c, Context(c, e), Flow(c.t), ProbeDue(c.t)
  PROVE  LET r == [tcp_send_probe(c) EXCEPT !.t.rto = TRUE]
         IN  Context(r, e) /\ Flow(r.t) /\ NoStall(r.t) /\ r.t.state = c.t.state
  <1> DEFINE d == in_flight(c.t)
             data == SubSeq(c.t.sndq, d + 1, d + 1)
             p == tcp_send_segment(c, {"ACK"}, c.t.snd_nxt, data)
             r == [tcp_send_probe(c) EXCEPT !.t.rto = TRUE]
  <1>1. Typed(c.t, e)
    BY Zenon DEF Context
  <1>2. /\ c.t.snd_nxt \in SeqNums /\ c.t.sndq \in Seq(Bytes(e)) /\ d \in Nat
        /\ d = 0 <=> c.t.snd_una = c.t.snd_nxt
    BY <1>1, TypedFields, ZenonT(60)
  <1>3. d = 0 /\ c.t.sndq # <<>> /\ c.t.state \in SendStates
    BY <1>2, ZenonT(60) DEF ProbeDue
  <1>4. Len(c.t.sndq) >= 1 /\ Len(c.t.sndq) \in Nat
    BY <1>2, <1>3
  <1>5. data \in Seq(Bytes(e))
    <2> HIDE DEF d
    <2>1. d + 1 \in Int /\ d + 1 >= 1 /\ d + 1 <= Len(c.t.sndq)
      BY <1>3, <1>4
    <2>2. QED
      BY <1>2, <2>1, SeqPart, ZenonT(60)
  <1> HIDE DEF data
  <1>6. Context(p, e) /\ SameSend(p.t, c.t)
    BY <1>2, <1>5, FlagSets, SegmentSent, ZenonT(60)
  <1>7. r = [[p EXCEPT !.t.snd_nxt = SeqAdd(@, 1)] EXCEPT !.t.rto = TRUE]
    BY Zenon DEF tcp_send_probe, data
  <1> HIDE DEF p, r
  <1> DEFINE t == p.t
             N == SeqAdd(t.snd_nxt, 1)
             u == [t EXCEPT !.snd_nxt = N, !.rto = TRUE]
  <1>8. Typed(t, e) /\ t \in Tcb(e) /\ p.out \subseteq OutSeg(e) /\ p = [t |-> t, out |-> p.out]
    BY <1>6, Zenon DEF Context, Typed
  <1>9. r = [t |-> u, out |-> p.out]
    BY <1>7, <1>8, ZenonT(60) DEF Tcb
  <1>10. /\ t.snd_nxt \in SeqNums /\ t.snd_una \in SeqNums /\ Len(t.sndq) \in Nat
    BY <1>8, TypedFields, ZenonT(60)
  <1>11. t.state = c.t.state /\ t.sndq = c.t.sndq /\ in_flight(t) = 0 /\ Flow(t)
    BY <1>3, <1>6, SameFlow, ZenonT(60) DEF SameSend
  <1>12. N \in SeqNums
    BY <1>10, AddNat, ZenonT(60)
  <1>13. SeqDiff(N, t.snd_una) = 1
    <2>1. in_flight(t) + 1 < SEQ_MOD
      BY <1>11, Sizes
    <2>2. QED
      BY <1>10, <1>11, <2>1, DiffAdd DEF in_flight
  <1> HIDE DEF N, t
  <1>14. /\ u.state = t.state /\ u.snd_una = t.snd_una /\ u.snd_nxt = N /\ u.rto = TRUE
         /\ u.sndq = t.sndq /\ u.snd_wnd = t.snd_wnd /\ u.fin_sent = t.fin_sent
         /\ u.fin_queued = t.fin_queued
         /\ u.rcvq = t.rcvq /\ u.ooo = t.ooo /\ u.ssthresh = t.ssthresh
    BY <1>8, ZenonT(60) DEF Tcb
  <1>15. u \in Tcb(e)
    BY <1>8, <1>12, ZenonT(60) DEF Tcb
  <1> HIDE DEF u
  <1>16. Typed(u, e)
    BY <1>8, <1>14, <1>15, ZenonT(60) DEF Typed
  <1>17. in_flight(u) = 1 /\ in_flight(u) # 0
    BY <1>13, <1>14 DEF in_flight
  <1>18. u.snd_una # u.snd_nxt
    BY <1>16, <1>17, TypedFields, ZenonT(60)
  <1>19. ~t.fin_sent /\ Len(t.sndq) >= 1
    BY <1>3, <1>4, <1>11 DEF Flow
  <1>20. Flow(u)
    <2>1. t.state \notin {"FIN_WAIT_2", "TIME_WAIT"} /\ (t.state \in {"ESTABLISHED", "CLOSE_WAIT"} => ~t.fin_queued)
      BY <1>3, <1>11, ZenonT(60) DEF Flow, SendStates
    <2>2. QED
      BY <2>1, <1>14, <1>17, <1>18, <1>19, ZenonT(60) DEF Flow
  <1>21. NoStall(u)
    BY <1>18, Zenon DEF NoStall
  <1>22. r.t = u /\ r.out = p.out /\ r = [t |-> r.t, out |-> r.out]
    BY <1>9, ZenonT(60)
  <1>23. Context(r, e)
    BY <1>22, <1>8, <1>16, ZenonT(60) DEF Context
  <1>24. QED
    BY <1>11, <1>14, <1>20, <1>21, <1>22, <1>23, ZenonT(60) DEF r

-----------------------------------------------------------------------------
(* Acknowledgments.                                                        *)

\* The window stays between a segment and the cap.
LEMMA CwndGrows ==
  ASSUME NEW e \in Ends, NEW t, Typed(t, e), NEW n \in Nat
  PROVE  CwndAfterAck(t, n) \in TCP_MSS..CwndCap
  <1> DEFINE q == (TCP_MSS * TCP_MSS) \div t.cwnd
             x == IF t.dupacks >= 3 THEN t.ssthresh
                  ELSE IF t.cwnd < t.ssthresh THEN t.cwnd + Least(n, TCP_MSS)
                  ELSE t.cwnd + Most(1, q)
  <1>1. t.cwnd \in TCP_MSS..CwndCap /\ t.ssthresh \in TCP_MSS..SsthreshMax /\ t.dupacks \in 0..4
    BY TypedFields, ZenonT(60)
  <1>2. t.cwnd \in Nat /\ t.cwnd > 0
    BY <1>1, Sizes
  <1>3. TCP_MSS * TCP_MSS \in Nat
    BY Product, Sizes, ZenonT(60)
  <1>4. q \in Int
    BY <1>2, <1>3
  <1>5. CwndAfterAck(t, n) = Least(CwndCap, x)
    BY Zenon DEF CwndAfterAck
  <1> HIDE DEF q
  <1>6. x \in Int /\ x >= TCP_MSS
    BY <1>1, <1>2, <1>4, Sizes DEF Least, Most
  <1> HIDE DEF x
  <1>7. QED
    BY <1>5, <1>6, Sizes DEF Least

\* What an ACK takes off the ring and the flight.
LEMMA AckCounts ==
  ASSUME NEW f \in Nat, NEW l \in Nat, NEW a \in 1..f, NEW fin \in BOOLEAN,
         ~fin => f <= l, fin => f = l + 1 \/ (f = 0 /\ l = 0)
  PROVE  LET d == a - (IF fin /\ a = f THEN 1 ELSE 0)
         IN  /\ d \in Nat /\ d <= l
             /\ ~fin => f - a <= l - d
             /\ fin => (f - a = l - d + 1 \/ (f - a = 0 /\ l - d = 0))
  OBVIOUS

\* An ACK of new data keeps the flow.
LEMMA AckNewFlow ==
  ASSUME NEW e \in Ends, NEW t, Typed(t, e), Flow(t), t.state \notin {"CLOSED"} \cup Opening,
         NEW s, s.ack \in SeqNums, seq_gt(s.ack, t.snd_una), ~seq_gt(s.ack, t.snd_nxt)
  PROVE  /\ Typed(AckNew(t, s), e)
         /\ Flow(AckNew(t, s))
         /\ AckNew(t, s).state \notin {"CLOSED"} \cup Opening
         /\ AckNew(t, s).snd_nxt = t.snd_nxt
  <1> DEFINE f == in_flight(t)
             a == SeqDiff(s.ack, t.snd_una)
             l == Len(t.sndq)
             dbytes == a - (IF fin_acked(t, s) THEN 1 ELSE 0)
             q == SubSeq(t.sndq, dbytes + 1, l)
             w == CwndAfterAck(t, dbytes)
             v == [t EXCEPT !.sndq = q, !.snd_una = s.ack, !.rtx_count = 0, !.cwnd = w,
                            !.dupacks = 0, !.rto = (s.ack # t.snd_nxt)]
  <1>1. /\ t.snd_una \in SeqNums /\ t.snd_nxt \in SeqNums /\ t.sndq \in Seq(Bytes(e))
        /\ f \in Nat /\ l \in Nat /\ l <= TCP_SNDBUF /\ t.fin_sent \in BOOLEAN
        /\ f = 0 <=> t.snd_una = t.snd_nxt
    BY TypedFields, ZenonT(60)
  <1>2. /\ ~t.fin_sent => f <= l
        /\ t.fin_sent => f = l + 1 \/ (f = 0 /\ l = 0)
    BY EmptyData, Zenon DEF Flow
  <1>3. 2 * f < SEQ_MOD
    BY <1>1, <1>2, Sizes
  <1>4. a \in 1..f /\ SeqDiff(t.snd_nxt, s.ack) = f - a /\ (s.ack = t.snd_nxt <=> a = f)
    BY <1>1, <1>3, AckInFlight DEF in_flight
  <1>5. t.state \notin {"FIN_WAIT_2", "TIME_WAIT"}
    BY <1>1, <1>4, Zenon DEF Flow
  <1>6. fin_acked(t, s) <=> t.fin_sent /\ a = f
    BY <1>4, ZenonT(60) DEF fin_acked
  <1> HIDE DEF f, a, l
  <1>7. /\ dbytes \in Nat /\ dbytes <= l
        /\ ~t.fin_sent => f - a <= l - dbytes
        /\ t.fin_sent => (f - a = l - dbytes + 1 \/ (f - a = 0 /\ l - dbytes = 0))
    <2>1. dbytes = a - (IF t.fin_sent /\ a = f THEN 1 ELSE 0)
      BY <1>6, Zenon
    <2> HIDE DEF dbytes
    <2>2. QED
      BY <1>1, <1>2, <1>4, <2>1, AckCounts
  <1> HIDE DEF dbytes
  <1>8. q \in Seq(Bytes(e)) /\ Len(q) = l - dbytes
    <2>1. dbytes + 1 \in Int /\ dbytes + 1 >= 1 /\ l \in Int /\ l <= Len(t.sndq)
      BY <1>1, <1>7 DEF l
    <2>2. q \in Seq(Bytes(e)) /\ Len(q) = IF dbytes + 1 <= l THEN l - (dbytes + 1) + 1 ELSE 0
      BY <1>1, <2>1, SeqPart, SMT
    <2>3. QED
      BY <1>1, <1>7, <2>2
  <1>9. w \in TCP_MSS..CwndCap
    BY <1>7, CwndGrows, Zenon
  <1>10. t \in Tcb(e) /\ Len(t.rcvq) <= TCP_RCVBUF /\ Len(t.ooo) <= TCP_OOO_MAX /\ t.ssthresh >= TCP_MSS
    BY Zenon DEF Typed
  <1> HIDE DEF q, w
  <1>11. /\ v.state = t.state /\ v.snd_una = s.ack /\ v.snd_nxt = t.snd_nxt
         /\ v.rto = (s.ack # t.snd_nxt) /\ v.sndq = q /\ v.fin_sent = t.fin_sent
         /\ v.fin_queued = t.fin_queued
         /\ v.rcvq = t.rcvq /\ v.ooo = t.ooo /\ v.ssthresh = t.ssthresh
    BY <1>10, ZenonT(60) DEF Tcb
  <1>12. v \in Tcb(e)
    <2>1. 0 \in 0..TCP_MAX_RTX /\ 0 \in 0..4
      BY Sizes
    <2>2. QED
      BY <1>8, <1>9, <1>10, <2>1, ZenonT(60) DEF Tcb
  <1>13. AckNew(t, s) = IF fin_acked(t, s) /\ t.state = "FIN_WAIT_1" THEN [v EXCEPT !.state = "FIN_WAIT_2"]
                        ELSE IF fin_acked(t, s) /\ t.state = "CLOSING" THEN tcp_enter_timewait(v)
                        ELSE v
    BY Zenon DEF AckNew, dbytes, q, w, a, l
  <1> HIDE DEF v
  <1>14. Typed(v, e)
    <2>1. Len(q) <= TCP_SNDBUF
      BY <1>1, <1>7, <1>8, Sizes
    <2>2. QED
      BY <1>10, <1>11, <1>12, <2>1, ZenonT(60) DEF Typed
  <1>15. in_flight(v) = f - a
    BY <1>4, <1>11, ZenonT(60) DEF in_flight
  <1>16. ~t.fin_sent => in_flight(v) <= Len(v.sndq)
    BY <1>7, <1>8, <1>11, <1>15, ZenonT(60)
  <1>17. t.fin_sent => t.fin_queued /\ (in_flight(v) = Len(v.sndq) + 1 \/ (in_flight(v) = 0 /\ v.sndq = <<>>))
    <2>1. Len(q) = 0 => q = <<>>
      BY <1>8
    <2>2. t.fin_sent => t.fin_queued
      BY ZenonT(60) DEF Flow
    <2>3. QED
      BY <1>7, <1>8, <1>11, <1>15, <2>1, <2>2, ZenonT(60)
  <1>18. Flow(v)
    <2>1. t.state \in {"ESTABLISHED", "CLOSE_WAIT"} => ~t.fin_queued
      BY Zenon DEF Flow
    <2>2. v.rto <=> v.snd_una # v.snd_nxt
      BY <1>11, ZenonT(60)
    <2>3. QED
      BY <1>5, <1>11, <1>16, <1>17, <2>1, <2>2, ZenonT(60) DEF Flow
  <1>19. CASE fin_acked(t, s) /\ t.state = "FIN_WAIT_1"
    <2> DEFINE u == [v EXCEPT !.state = "FIN_WAIT_2"]
    <2>1. AckNew(t, s) = u
      BY <1>13, <1>19, ZenonT(60)
    <2>2. /\ u.state = "FIN_WAIT_2" /\ u.snd_una = v.snd_una /\ u.snd_nxt = v.snd_nxt
          /\ u.rto = v.rto /\ u.sndq = v.sndq /\ u.fin_sent = v.fin_sent
          /\ u.fin_queued = v.fin_queued
          /\ u.rcvq = v.rcvq /\ u.ooo = v.ooo /\ u.ssthresh = v.ssthresh
      BY <1>12, ZenonT(60) DEF Tcb
    <2>3. u \in Tcb(e)
      <3>1. "FIN_WAIT_2" \in TcpStates
        BY Zenon DEF TcpStates
      <3>2. QED
        BY <1>12, <3>1, ZenonT(60) DEF Tcb
    <2> HIDE DEF u
    <2>4. Typed(u, e)
      BY <1>14, <2>2, <2>3, ZenonT(60) DEF Typed
    <2>5. u.snd_una = u.snd_nxt /\ in_flight(u) = in_flight(v)
      BY <1>11, <1>19, <2>2, ZenonT(60) DEF fin_acked, in_flight
    <2>6. Flow(u)
      BY <1>18, <2>2, <2>5, ZenonT(60) DEF Flow
    <2>7. QED
      BY <1>11, <2>1, <2>2, <2>4, <2>6, ZenonT(60) DEF Opening
  <1>20. CASE fin_acked(t, s) /\ t.state = "CLOSING"
    <2> DEFINE u == tcp_enter_timewait(v)
    <2>1. AckNew(t, s) = u
      BY <1>13, <1>20, ZenonT(60)
    <2>2. /\ u.state = "TIME_WAIT" /\ u.snd_una = v.snd_una /\ u.snd_nxt = v.snd_nxt
          /\ u.rto = FALSE /\ u.sndq = v.sndq /\ u.fin_sent = v.fin_sent
          /\ u.fin_queued = v.fin_queued
          /\ u.rcvq = v.rcvq /\ u.ooo = v.ooo /\ u.ssthresh = v.ssthresh
      BY <1>12, ZenonT(60) DEF Tcb, tcp_enter_timewait
    <2>3. u \in Tcb(e)
      <3>1. "TIME_WAIT" \in TcpStates
        BY Zenon DEF TcpStates
      <3>2. QED
        BY <1>12, <3>1, ZenonT(60) DEF Tcb, tcp_enter_timewait
    <2> HIDE DEF u
    <2>4. Typed(u, e)
      BY <1>14, <2>2, <2>3, ZenonT(60) DEF Typed
    <2>5. u.snd_una = u.snd_nxt /\ in_flight(u) = in_flight(v)
      BY <1>11, <1>20, <2>2, ZenonT(60) DEF fin_acked, in_flight
    <2>6. Flow(u)
      BY <1>18, <2>2, <2>5, ZenonT(60) DEF Flow
    <2>7. QED
      BY <1>11, <2>1, <2>2, <2>4, <2>6, ZenonT(60) DEF Opening
  <1>21. CASE ~(fin_acked(t, s) /\ t.state \in {"FIN_WAIT_1", "CLOSING"})
    <2>1. AckNew(t, s) = v
      BY <1>13, <1>21, Zenon
    <2>2. QED
      BY <1>11, <1>14, <1>18, <2>1, Zenon
  <1>22. QED
    BY <1>19, <1>20, <1>21, ZenonT(60)

\* A block with other congestion fields.
CongSet(t, cw, th, n, x) ==
    [t EXCEPT !.cwnd = cw, !.ssthresh = th, !.dupacks = n, !.rtx_count = x]

LEMMA CongUpdate ==
  ASSUME NEW e \in Ends, NEW t, Typed(t, e), NEW cw \in TCP_MSS..CwndCap,
         NEW th \in TCP_MSS..SsthreshMax, NEW n \in 0..4, NEW x \in 0..TCP_MAX_RTX
  PROVE  Typed(CongSet(t, cw, th, n, x), e) /\ SameSend(CongSet(t, cw, th, n, x), t)
  <1> DEFINE u == [t EXCEPT !.cwnd = cw, !.ssthresh = th, !.dupacks = n, !.rtx_count = x]
  <1>1. /\ t \in Tcb(e) /\ Len(t.sndq) <= TCP_SNDBUF /\ Len(t.rcvq) <= TCP_RCVBUF
        /\ Len(t.ooo) <= TCP_OOO_MAX
    BY Zenon DEF Typed
  <1>2. th \in 1..SsthreshMax /\ th >= TCP_MSS
    BY Sizes
  <1>3. u \in Tcb(e)
    BY <1>1, <1>2, ZenonT(60) DEF Tcb
  <1>4. SameSend(u, t) /\ u.ssthresh = th /\ u.sndq = t.sndq /\ u.rcvq = t.rcvq /\ u.ooo = t.ooo
    BY <1>1, ZenonT(60) DEF Tcb, SameSend
  <1>5. u = CongSet(t, cw, th, n, x)
    BY Zenon DEF CongSet
  <1> HIDE DEF u
  <1>6. Typed(u, e)
    BY <1>1, <1>2, <1>3, <1>4, ZenonT(60) DEF Typed
  <1>7. QED
    BY <1>4, <1>5, <1>6, ZenonT(60)

\* Updates of some of them.
LEMMA CongParts ==
  ASSUME NEW e \in Ends, NEW t, Typed(t, e), NEW cw, NEW th, NEW n, NEW x
  PROVE  /\ [t EXCEPT !.dupacks = n] = CongSet(t, t.cwnd, t.ssthresh, n, t.rtx_count)
         /\ [t EXCEPT !.cwnd = cw] = CongSet(t, cw, t.ssthresh, t.dupacks, t.rtx_count)
         /\ [t EXCEPT !.rtx_count = x] = CongSet(t, t.cwnd, t.ssthresh, t.dupacks, x)
         /\ [t EXCEPT !.dupacks = n, !.ssthresh = th] = CongSet(t, t.cwnd, th, n, t.rtx_count)
         /\ [t EXCEPT !.dupacks = n, !.cwnd = cw] = CongSet(t, cw, t.ssthresh, n, t.rtx_count)
  <1>1. t \in Tcb(e)
    BY Zenon DEF Typed
  <1>2. [t EXCEPT !.dupacks = n] = CongSet(t, t.cwnd, t.ssthresh, n, t.rtx_count)
    BY <1>1, ZenonT(60) DEF Tcb, CongSet
  <1>3. [t EXCEPT !.cwnd = cw] = CongSet(t, cw, t.ssthresh, t.dupacks, t.rtx_count)
    BY <1>1, ZenonT(60) DEF Tcb, CongSet
  <1>4. [t EXCEPT !.rtx_count = x] = CongSet(t, t.cwnd, t.ssthresh, t.dupacks, x)
    BY <1>1, ZenonT(60) DEF Tcb, CongSet
  <1>5. [t EXCEPT !.dupacks = n, !.ssthresh = th] = CongSet(t, t.cwnd, th, n, t.rtx_count)
    BY <1>1, ZenonT(60) DEF Tcb, CongSet
  <1>6. [t EXCEPT !.dupacks = n, !.cwnd = cw] = CongSet(t, cw, t.ssthresh, n, t.rtx_count)
    BY <1>1, ZenonT(60) DEF Tcb, CongSet
  <1>7. QED
    BY <1>2, <1>3, <1>4, <1>5, <1>6, ZenonT(60)

\* Half the flight, and no less than two segments.
LEMMA Halved ==
  ASSUME NEW e \in Ends, NEW t, Typed(t, e), in_flight(t) <= TCP_SNDBUF + 1
  PROVE  Most(in_flight(t) \div 2, 2 * TCP_MSS) \in TCP_MSS..SsthreshMax
  <1>1. in_flight(t) \in Nat
    BY TypedFields, ZenonT(60)
  <1> DEFINE h == in_flight(t) \div 2
  <1>2. h \in Nat /\ h <= in_flight(t)
    BY <1>1
  <1> HIDE DEF h
  <1>3. Most(h, 2 * TCP_MSS) \in TCP_MSS..SsthreshMax
    BY <1>1, <1>2, Sizes DEF Most
  <1>4. QED
    BY <1>3, Zenon DEF h

\* The flight is bounded by the ring and a FIN.
LEMMA FlightBound ==
  ASSUME NEW e \in Ends, NEW t, Typed(t, e), Flow(t)
  PROVE  in_flight(t) <= TCP_SNDBUF + 1
  <1>1. in_flight(t) \in Nat /\ Len(t.sndq) \in Nat /\ Len(t.sndq) <= TCP_SNDBUF /\ t.fin_sent \in BOOLEAN
    BY TypedFields, ZenonT(60)
  <1>2. in_flight(t) <= Len(t.sndq) \/ in_flight(t) = Len(t.sndq) + 1 \/ in_flight(t) = 0
    BY <1>1, Zenon DEF Flow
  <1>3. QED
    BY <1>1, <1>2, Sizes

\* A block in a state after the handshake.
Going(t) == t.state \notin {"CLOSED"} \cup Opening /\ Flow(t) /\ NoStall(t)

LEMMA SameGoing ==
  ASSUME NEW t, NEW u, SameSend(u, t), Going(t) PROVE Going(u)
  <1>1. u.state = t.state
    BY Zenon DEF SameSend
  <1>2. QED
    BY <1>1, SameFlow, ZenonT(60) DEF Going

\* A duplicate ACK: counted, the third retransmits, later ones send more.
LEMMA AckDupFlow ==
  ASSUME NEW e \in Ends, NEW c, Context(c, e), Going(c.t)
  PROVE  Context(AckDup(c), e) /\ Going(AckDup(c).t)
  <1> DEFINE n == Least(c.t.dupacks + 1, 4)
             thr == Most(in_flight(c.t) \div 2, 2 * TCP_MSS)
             cw3 == Least(CwndCap, thr + 3 * TCP_MSS)
             cw4 == Least(CwndCap, c.t.cwnd + TCP_MSS)
  <1>1. Typed(c.t, e) /\ c.t \in Tcb(e) /\ c = [t |-> c.t, out |-> c.out] /\ Flow(c.t)
    BY Zenon DEF Context, Typed, Going
  <1>a. c.t.cwnd \in TCP_MSS..CwndCap /\ c.t.ssthresh \in TCP_MSS..SsthreshMax /\ c.t.rtx_count \in 0..TCP_MAX_RTX
    BY <1>1, TypedFields, ZenonT(60)
  <1>2. n \in 0..4 /\ n >= 1 /\ n \in Nat
    <2>1. c.t.dupacks \in 0..4
      BY <1>1, TypedFields, ZenonT(60)
    <2>2. QED
      BY <2>1 DEF Least
  <1>3. thr \in TCP_MSS..SsthreshMax
    BY <1>1, Halved, FlightBound, ZenonT(60)
  <1>4. cw4 \in TCP_MSS..CwndCap
    <2>1. c.t.cwnd \in TCP_MSS..CwndCap
      BY <1>1, TypedFields, ZenonT(60)
    <2>2. QED
      BY <2>1, Sizes DEF Least
  <1>5. CASE n < 3
    <2> DEFINE u == CongSet(c.t, c.t.cwnd, c.t.ssthresh, n, c.t.rtx_count)
    <2>1. AckDup(c) = [c EXCEPT !.t.dupacks = n]
      BY <1>2, <1>5 DEF AckDup
    <2> HIDE DEF n
    <2>a. [c.t EXCEPT !.dupacks = n] = u
      BY <1>1, CongParts, Zenon
    <2>2. AckDup(c) = [t |-> u, out |-> c.out]
      BY <1>1, <2>1, <2>a, ZenonT(60)
    <2>3. Typed(u, e) /\ SameSend(u, c.t)
      BY <1>1, <1>2, <1>a, CongUpdate, ZenonT(60)
    <2> HIDE DEF u
    <2>4. Context(AckDup(c), e)
      BY <2>2, <2>3, BlockOf, ZenonT(60)
    <2>5. AckDup(c).t = u
      BY <2>2
    <2>6. QED
      BY <2>3, <2>4, <2>5, SameGoing, ZenonT(60)
  <1>6. CASE n = 3
    <2> DEFINE u == CongSet(c.t, c.t.cwnd, thr, n, c.t.rtx_count)
               x == [c.t EXCEPT !.dupacks = n, !.ssthresh = thr]
               d == [c EXCEPT !.t = x]
               r == tcp_retransmit(d)
    <2>1. AckDup(c) = [r EXCEPT !.t.cwnd = cw3]
      BY <1>6 DEF AckDup
    <2> HIDE DEF n
    <2>2. cw3 \in TCP_MSS..CwndCap
      <3> HIDE DEF thr
      <3>1. QED
        BY <1>3, Sizes DEF Least
    <2> HIDE DEF thr, cw3
    <2>a. x = u
      BY <1>1, CongParts, ZenonT(60)
    <2> HIDE DEF x
    <2>3. d = [t |-> u, out |-> c.out]
      BY <2>a, WithBlock, Zenon
    <2>4. Typed(u, e) /\ SameSend(u, c.t)
      BY <1>1, <1>2, <1>3, <1>a, CongUpdate, ZenonT(60)
    <2> HIDE DEF u
    <2>5. Context(d, e) /\ d.t = u
      <3>1. Context([t |-> u, out |-> c.out], e)
        BY <2>4, BlockOf, ZenonT(60)
      <3>2. [t |-> u, out |-> c.out].t = u
        BY Zenon
      <3>3. QED
        BY <2>3, <3>1, <3>2, Zenon
    <2> HIDE DEF d
    <2>6. Going(u)
      BY <2>4, SameGoing, Zenon
    <2>7. Context(r, e) /\ SameSend(r.t, u)
      BY <2>5, <2>6, Retransmitted, ZenonT(60) DEF Going
    <2> HIDE DEF r
    <2> DEFINE v == CongSet(r.t, cw3, r.t.ssthresh, r.t.dupacks, r.t.rtx_count)
    <2>8. r = [t |-> r.t, out |-> r.out] /\ Typed(r.t, e) /\ r.t \in Tcb(e)
      BY <2>7, Zenon DEF Context, Typed
    <2>b. [r.t EXCEPT !.cwnd = cw3] = v
      BY <2>8, CongParts, Zenon
    <2>9. AckDup(c) = [t |-> v, out |-> r.out]
      BY <2>1, <2>8, <2>b, ZenonT(60)
    <2>10. Typed(v, e) /\ SameSend(v, r.t)
      <3>1. r.t.ssthresh \in TCP_MSS..SsthreshMax /\ r.t.dupacks \in 0..4 /\ r.t.rtx_count \in 0..TCP_MAX_RTX
        BY <2>8, TypedFields, ZenonT(60)
      <3>2. QED
        BY <2>2, <2>8, <3>1, CongUpdate, ZenonT(60)
    <2> HIDE DEF v
    <2>11. Context(AckDup(c), e)
      BY <2>7, <2>9, <2>10, BlockOf, ZenonT(60)
    <2>12. AckDup(c).t = v
      BY <2>9
    <2>13. Going(v)
      BY <2>6, <2>7, <2>10, SameGoing, Zenon
    <2>14. QED
      BY <2>11, <2>12, <2>13, ZenonT(60)
  <1>7. CASE n > 3
    <2> DEFINE u == CongSet(c.t, cw4, c.t.ssthresh, n, c.t.rtx_count)
               x == [c.t EXCEPT !.dupacks = n, !.cwnd = cw4]
               d == [c EXCEPT !.t = x]
    <2>1. AckDup(c) = tcp_output(d)
      BY <1>2, <1>7 DEF AckDup
    <2> HIDE DEF n, cw4
    <2>a. x = u
      BY <1>1, CongParts, ZenonT(60)
    <2> HIDE DEF x
    <2>2. d = [t |-> u, out |-> c.out]
      BY <2>a, WithBlock, Zenon
    <2>3. Typed(u, e) /\ SameSend(u, c.t)
      BY <1>1, <1>2, <1>4, <1>a, CongUpdate, ZenonT(60)
    <2> HIDE DEF u
    <2>4. Context(d, e) /\ d.t = u
      <3>1. Context([t |-> u, out |-> c.out], e)
        BY <2>3, BlockOf, Zenon
      <3>2. [t |-> u, out |-> c.out].t = u
        BY Zenon
      <3>3. QED
        BY <2>2, <3>1, <3>2, Zenon
    <2> HIDE DEF d
    <2>5. Going(u)
      BY <2>3, SameGoing, Zenon
    <2>6. Context(tcp_output(d), e) /\ Flow(tcp_output(d).t) /\ NoStall(tcp_output(d).t) /\ tcp_output(d).t.state = u.state
      BY <2>4, <2>5, Output, ZenonT(60) DEF Going
    <2>7. QED
      BY <2>1, <2>5, <2>6, ZenonT(60) DEF Going
  <1>8. QED
    BY <1>2, <1>5, <1>6, <1>7

\* The acknowledgment stage.
LEMMA AckStageFlow ==
  ASSUME NEW e \in Ends, NEW c, Context(c, e), Going(c.t), NEW s, s.ack \in SeqNums,
         ~seq_gt(s.ack, c.t.snd_nxt)
  PROVE  Context(AckStage(c, s), e) /\ Going(AckStage(c, s).t)
  <1>1. CASE seq_gt(s.ack, c.t.snd_una)
    <2> DEFINE u == AckNew(c.t, s)
               d == [c EXCEPT !.t = u]
    <2>1. AckStage(c, s) = tcp_output(d)
      BY <1>1, ZenonT(60) DEF AckStage
    <2>2. Typed(c.t, e) /\ Flow(c.t) /\ c.t.state \notin {"CLOSED"} \cup Opening
      BY Zenon DEF Context, Going
    <2>3. Typed(u, e) /\ Flow(u) /\ u.state \notin {"CLOSED"} \cup Opening
      BY <1>1, <2>2, AckNewFlow, Zenon
    <2> HIDE DEF u
    <2>4. Context(d, e) /\ d.t = u
      BY <2>3, BlockOf, Zenon
    <2> HIDE DEF d
    <2>5. Context(tcp_output(d), e) /\ Flow(tcp_output(d).t) /\ NoStall(tcp_output(d).t) /\ tcp_output(d).t.state = d.t.state
      BY <2>3, <2>4, Output, Zenon
    <2>6. QED
      BY <2>1, <2>3, <2>4, <2>5, ZenonT(60) DEF Going
  <1>2. CASE ~seq_gt(s.ack, c.t.snd_una) /\ IsDupAck(c.t, s)
    <2>1. AckStage(c, s) = AckDup(c)
      BY <1>2, ZenonT(60) DEF AckStage
    <2>2. QED
      BY <2>1, AckDupFlow, Zenon
  <1>3. CASE ~seq_gt(s.ack, c.t.snd_una) /\ ~IsDupAck(c.t, s)
    <2>1. AckStage(c, s) = c
      BY <1>3, ZenonT(60) DEF AckStage
    <2>2. QED
      BY <2>1, Zenon
  <1>4. QED
    BY <1>1, <1>2, <1>3, ZenonT(60)

\* The window stage: output restarts when the window opens.
LEMMA WindowStageFlow ==
  ASSUME NEW e \in Ends, NEW c, Context(c, e), Going(c.t), NEW s, s.ack \in SeqNums,
         s.seq \in SeqNums, s.wnd \in 0..TCP_RCVBUF
  PROVE  Context(WindowStage(c, s), e) /\ Going(WindowStage(c, s).t)
  <1> DEFINE t == c.t
             v == [t EXCEPT !.snd_wnd = s.wnd, !.snd_wl1 = s.seq, !.snd_wl2 = s.ack]
             u == [c EXCEPT !.t = v]
             newer == \/ seq_lt(t.snd_wl1, s.seq)
                      \/ t.snd_wl1 = s.seq /\ seq_le(t.snd_wl2, s.ack)
             valid == seq_le(t.snd_una, s.ack) /\ seq_le(s.ack, t.snd_nxt) /\ newer
  <1>1. WindowStage(c, s) = IF valid THEN IF t.snd_wnd = 0 /\ s.wnd > 0 THEN tcp_output(u) ELSE u ELSE c
    BY Zenon DEF WindowStage
  <1>2. Typed(t, e) /\ t \in Tcb(e) /\ Flow(t) /\ NoStall(t) /\ t.state \notin {"CLOSED"} \cup Opening
    BY Zenon DEF Context, Typed, Going
  <1> HIDE DEF t, valid
  <1>3. /\ v.state = t.state /\ v.snd_una = t.snd_una /\ v.snd_nxt = t.snd_nxt /\ v.rto = t.rto
        /\ v.sndq = t.sndq /\ v.fin_sent = t.fin_sent /\ v.fin_queued = t.fin_queued
        /\ v.snd_wnd = s.wnd
        /\ v.rcvq = t.rcvq /\ v.ooo = t.ooo /\ v.ssthresh = t.ssthresh
    BY <1>2, ZenonT(60) DEF Tcb
  <1>4. v \in Tcb(e)
    BY <1>2, ZenonT(60) DEF Tcb
  <1> HIDE DEF v
  <1>5. Typed(v, e)
    BY <1>2, <1>3, <1>4, Zenon DEF Typed
  <1>6. in_flight(v) = in_flight(t)
    BY <1>3, ZenonT(60) DEF in_flight
  <1>7. Flow(v)
    BY <1>2, <1>3, <1>6, ZenonT(60) DEF Flow
  <1>8. Context(u, e) /\ u.t = v
    BY <1>5, BlockOf, Zenon
  <1> HIDE DEF u
  <1>9. /\ Context(tcp_output(u), e) /\ Flow(tcp_output(u).t) /\ NoStall(tcp_output(u).t)
        /\ tcp_output(u).t.state = u.t.state
    BY <1>7, <1>8, Output, ZenonT(60)
  <1>10. Going(tcp_output(u).t)
    BY <1>2, <1>3, <1>8, <1>9, ZenonT(60) DEF Going
  <1>11. ASSUME ~(t.snd_wnd = 0 /\ s.wnd > 0) PROVE Going(u.t)
    <2>1. NoStall(v)
      <3>1. SUFFICES ASSUME v.state \in SendStates, v.sndq # <<>>, v.snd_una = v.snd_nxt PROVE v.snd_wnd = 0
        BY ZenonT(60) DEF NoStall
      <3>2. t.snd_wnd = 0
        BY <1>2, <1>3, <3>1, ZenonT(60) DEF NoStall
      <3>3. s.wnd = 0
        BY <1>11, <3>2, Sizes
      <3>4. QED
        BY <1>3, <3>3, ZenonT(60)
    <2>2. QED
      BY <1>2, <1>3, <1>7, <1>8, <2>1, ZenonT(60) DEF Going
  <1>12. QED
    BY <1>1, <1>8, <1>9, <1>10, <1>11, ZenonT(60) DEF t

-----------------------------------------------------------------------------
(* Induction, with sets in place of predicates.                            *)

\* A set of naturals with zero and the successor of each member has them all.
LEMMA AllNat ==
  ASSUME NEW T \in SUBSET Nat, 0 \in T, \A k \in T : k + 1 \in T
  PROVE  T = Nat
  <1>1. SUFFICES ASSUME Nat \ T # {} PROVE FALSE
    BY ZenonT(60)
  <1> DEFINE R == OpToRel(<, Nat)
  <1>2. IsWellFoundedOn(R, Nat)
    BY NatLessThanWellFounded, ZenonT(60)
  <1> HIDE DEF R
  <1>a. Nat \ T \subseteq Nat
    BY Zenon
  <1>3. PICK n \in Nat \ T : \A y \in Nat \ T : ~(<<y, n>> \in R)
    BY <1>1, <1>2, <1>a, WFMin, ZenonT(60)
  <1>4. n # 0 /\ n - 1 \in Nat /\ n - 1 < n
    BY <1>3
  <1>5. n - 1 \in T
    <2>1. <<n - 1, n>> \in R
      BY <1>4, Zenon DEF R, OpToRel
    <2>2. QED
      BY <1>3, <1>4, <2>1, Zenon
  <1>6. QED
    BY <1>3, <1>4, <1>5

\* A set of naturals has a least member, if it has any.
LEMMA LeastOf ==
  ASSUME NEW C \in SUBSET Nat, C # {}
  PROVE  \E x \in C : \A y \in C : x <= y
  <1> DEFINE R == OpToRel(<, Nat)
  <1>1. IsWellFoundedOn(R, Nat)
    BY NatLessThanWellFounded, ZenonT(60)
  <1> HIDE DEF R
  <1>2. PICK x \in C : \A y \in C : ~(<<y, x>> \in R)
    BY <1>1, WFMin, Zenon
  <1>3. ASSUME NEW y \in C PROVE x <= y
    <2>1. ~(y < x)
      BY <1>2, ZenonT(60) DEF R, OpToRel
    <2>2. QED
      BY <2>1
  <1>4. QED
    BY <1>3, Zenon

\* The function g starts with b and goes on by F.
Upwards(g, F, b, N) == g[0] = b /\ \A k \in 1..N : g[k] = F[<<k, g[k - 1]>>]

\* There is a function on 0..N with a given value at zero and a given step.
LEMMA Iterates ==
  ASSUME NEW S, NEW F \in [Nat \X S -> S], NEW b \in S, NEW N \in Nat
  PROVE  \E g \in [0..N -> S] : Upwards(g, F, b, N)
  <1> DEFINE Is(g, n) == g[0] = b /\ \A k \in 1..n : g[k] = F[<<k, g[k - 1]>>]
             T == {n \in Nat : \E g \in [0..n -> S] : Is(g, n)}
  <1>1. 0 \in T
    <2>1. [k \in 0..0 |-> b] \in [0..0 -> S] /\ Is([k \in 0..0 |-> b], 0)
      OBVIOUS
    <2>2. QED
      BY <2>1, ZenonT(60)
  <1>2. ASSUME NEW n \in T PROVE n + 1 \in T
    <2>1. PICK g \in [0..n -> S] : Is(g, n)
      BY ZenonT(60)
    <2> DEFINE h == [k \in 0..(n + 1) |-> IF k = n + 1 THEN F[<<n + 1, g[n]>>] ELSE g[k]]
    <2>2. h \in [0..(n + 1) -> S]
      <3>1. g[n] \in S /\ n + 1 \in Nat
        OBVIOUS
      <3>2. F[<<n + 1, g[n]>>] \in S
        BY <3>1, Zenon
      <3>3. QED
        BY <3>2
    <2>3. Is(h, n + 1)
      <3>1. h[0] = b
        BY <2>1
      <3>2. ASSUME NEW k \in 1..(n + 1) PROVE h[k] = F[<<k, h[k - 1]>>]
        <4>1. CASE k = n + 1
          <5>1. k \in 0..(n + 1) /\ k - 1 = n /\ n \in 0..(n + 1) /\ n # n + 1
            BY <4>1
          <5>2. h[k] = F[<<n + 1, g[n]>>] /\ h[k - 1] = g[n]
            BY <4>1, <5>1, Zenon
          <5>3. QED
            BY <4>1, <5>2, ZenonT(60)
        <4>2. CASE k # n + 1
          <5>1. k \in 1..n /\ k \in 0..(n + 1) /\ k - 1 \in 0..(n + 1) /\ k - 1 # n + 1
            BY <4>2
          <5>2. h[k] = g[k] /\ h[k - 1] = g[k - 1]
            BY <5>1
          <5>3. QED
            BY <2>1, <5>1, <5>2, ZenonT(60)
        <4>3. QED
          BY <4>1, <4>2, Zenon
      <3>3. QED
        BY <3>1, <3>2, ZenonT(60)
    <2> HIDE DEF h, Is
    <2>4. n + 1 \in Nat /\ \E d \in [0..(n + 1) -> S] : Is(d, n + 1)
      BY <2>2, <2>3
    <2>5. QED
      BY <2>4, ZenonT(60)
  <1>3. T = Nat
    BY <1>1, <1>2, AllNat, ZenonT(60)
  <1>4. QED
    BY <1>3, ZenonT(60) DEF Upwards

-----------------------------------------------------------------------------
(* The receive side.                                                       *)

\* Two sequences in a row.
LEMMA SeqConcat ==
  ASSUME NEW S, NEW s \in Seq(S), NEW t \in Seq(S)
  PROVE  s \o t \in Seq(S) /\ Len(s \o t) = Len(s) + Len(t)
  OBVIOUS

\* What the receive ring takes fits.
LEMMA RingPut ==
  ASSUME NEW e \in Ends, NEW t, Typed(t, e), NEW data \in Seq(Bytes(Peer(e)))
  PROVE  LET u == rcv_ring_put(t, data)
         IN  Typed(u, e) /\ SameSend(u, t) /\ u.ooo = t.ooo
  <1> DEFINE take == Least(Len(data), tcp_rcv_window(t))
             q == t.rcvq \o SubSeq(data, 1, take)
             N == SeqAdd(t.rcv_nxt, take)
             u == [t EXCEPT !.rcvq = q, !.rcv_nxt = N]
  <1>1. rcv_ring_put(t, data) = u
    BY Zenon DEF rcv_ring_put
  <1>2. /\ t.rcv_nxt \in SeqNums /\ t.rcvq \in Seq(Bytes(Peer(e))) /\ Len(t.rcvq) \in Nat
        /\ tcp_rcv_window(t) \in 0..TCP_RCVBUF
    BY TypedFields, ZenonT(60)
  <1>3. tcp_rcv_window(t) = TCP_RCVBUF - Len(t.rcvq)
    BY Zenon DEF tcp_rcv_window
  <1>4. take \in Nat /\ take <= Len(data) /\ Len(t.rcvq) + take <= TCP_RCVBUF
    <2>1. Len(data) \in Nat
      OBVIOUS
    <2> DEFINE l == Len(data)
               r == Len(t.rcvq)
               w == tcp_rcv_window(t)
    <2>2. l \in Nat /\ r \in Nat /\ w \in 0..TCP_RCVBUF /\ w = TCP_RCVBUF - r
      BY <1>2, <1>3, <2>1, ZenonT(60)
    <2> HIDE DEF l, r, w
    <2>3. Least(l, w) \in Nat /\ Least(l, w) <= l /\ r + Least(l, w) <= TCP_RCVBUF
      BY <2>2, Sizes DEF Least
    <2>4. QED
      BY <2>3, ZenonT(60) DEF l, r, w
  <1> HIDE DEF take
  <1>5. SubSeq(data, 1, take) \in Seq(Bytes(Peer(e))) /\ Len(SubSeq(data, 1, take)) = take
    <2>1. SubSeq(data, 1, take) \in Seq(Bytes(Peer(e))) /\ Len(SubSeq(data, 1, take)) = IF 1 <= take THEN take - 1 + 1 ELSE 0
      BY <1>4, SeqPart, SMT
    <2>2. QED
      BY <1>4, <2>1
  <1>6. q \in Seq(Bytes(Peer(e))) /\ Len(q) = Len(t.rcvq) + take
    BY <1>2, <1>5, SeqConcat, ZenonT(60)
  <1>7. Len(q) <= TCP_RCVBUF
    BY <1>4, <1>6, ZenonT(60)
  <1>8. N \in SeqNums
    BY <1>2, <1>4, AddNat, Zenon
  <1>9. /\ t \in Tcb(e) /\ Len(t.sndq) <= TCP_SNDBUF /\ Len(t.ooo) <= TCP_OOO_MAX
        /\ t.ssthresh >= TCP_MSS
    BY Zenon DEF Typed
  <1> HIDE DEF q, N
  <1>10. SameSend(u, t) /\ u.sndq = t.sndq /\ u.rcvq = q /\ u.ooo = t.ooo /\ u.ssthresh = t.ssthresh
    BY <1>9, ZenonT(60) DEF Tcb, SameSend
  <1>11. u \in Tcb(e)
    BY <1>6, <1>8, <1>9, ZenonT(60) DEF Tcb
  <1> HIDE DEF u
  <1>12. Typed(u, e)
    BY <1>7, <1>9, <1>10, <1>11, ZenonT(60) DEF Typed
  <1>13. QED
    BY <1>1, <1>10, <1>12, ZenonT(60)

\* A parked segment.
Parked(e) == [seq : SeqNums, data : Seq(Bytes(Peer(e)))]

\* The loop over the parked segments of t, after some rounds.
Popping(t, e) ==
    {a \in [t : Tcb(e), n : Nat, stop : BOOLEAN] :
        Typed(a.t, e) /\ SameSend(a.t, t) /\ a.t.ooo = t.ooo}

LEMMA PoppingIs ==
  ASSUME NEW t, NEW e, NEW u, Typed(u, e), SameSend(u, t), u.ooo = t.ooo, NEW n \in Nat,
         NEW b \in BOOLEAN
  PROVE  [t |-> u, n |-> n, stop |-> b] \in Popping(t, e)
  <1>1. u \in Tcb(e)
    BY Zenon DEF Typed
  <1> DEFINE a == [t |-> u, n |-> n, stop |-> b]
  <1>2. a \in [t : Tcb(e), n : Nat, stop : BOOLEAN]
    BY <1>1, ZenonT(60)
  <1>3. a.t = u
    BY Zenon
  <1> HIDE DEF a
  <1>4. a \in Popping(t, e)
    BY <1>2, <1>3, ZenonT(60) DEF Popping
  <1>5. QED
    BY <1>4, ZenonT(60) DEF a

LEMMA PopStep ==
  ASSUME NEW e \in Ends, NEW t, NEW a \in Popping(t, e), NEW q \in Parked(e)
  PROVE  OooPop(a, q) \in Popping(t, e)
  <1> DEFINE skip == SeqDiff(a.t.rcv_nxt, q.seq)
             want == Len(q.data) - skip
             data == SubSeq(q.data, skip + 1, Len(q.data))
             v == rcv_ring_put(a.t, data)
             full == tcp_rcv_window(a.t) < want
  <1>1. /\ Typed(a.t, e) /\ SameSend(a.t, t) /\ a.t.ooo = t.ooo
        /\ a \in [t : Tcb(e), n : Nat, stop : BOOLEAN]
    BY Zenon DEF Popping
  <1>2. a = [t |-> a.t, n |-> a.n, stop |-> a.stop] /\ a.n \in Nat /\ a.stop \in BOOLEAN
    BY <1>1, ZenonT(60)
  <1>3. q.seq \in SeqNums /\ q.data \in Seq(Bytes(Peer(e))) /\ Len(q.data) \in Nat
    BY DEF Parked
  <1>4. a.t.rcv_nxt \in SeqNums
    BY <1>1, TypedFields, ZenonT(60)
  <1>5. skip \in Nat
    BY <1>3, <1>4, DiffZero, ZenonT(60)
  <1> HIDE DEF skip
  <1>6. data \in Seq(Bytes(Peer(e)))
    <2>1. skip + 1 \in Int /\ skip + 1 >= 1
      BY <1>5
    <2>2. QED
      BY <1>3, <2>1, SeqPart
  <1>7. OooPop(a, q) = IF a.stop \/ seq_gt(q.seq, a.t.rcv_nxt) THEN [a EXCEPT !.stop = TRUE]
                       ELSE IF seq_le(SeqAdd(q.seq, Len(q.data)), a.t.rcv_nxt) THEN [a EXCEPT !.n = @ + 1]
                       ELSE [t |-> v, n |-> a.n + 1, stop |-> full]
    BY Zenon DEF OooPop, skip
  <1> HIDE DEF data
  <1>8. Typed(v, e) /\ SameSend(v, a.t) /\ v.ooo = a.t.ooo
    BY <1>1, <1>6, RingPut, ZenonT(60)
  <1>9. SameSend(v, t) /\ v.ooo = t.ooo
    BY <1>1, <1>8, SameTrans, ZenonT(60)
  <1>10. a.n + 1 \in Nat /\ full \in BOOLEAN
    BY <1>2
  <1> HIDE DEF v, full
  <1>11. [a EXCEPT !.stop = TRUE] \in [t : Tcb(e), n : Nat, stop : BOOLEAN] /\ [a EXCEPT !.stop = TRUE].t = a.t
    BY <1>1, Zenon
  <1>12. [a EXCEPT !.n = @ + 1] = [t |-> a.t, n |-> a.n + 1, stop |-> a.stop]
    BY <1>2, SMT
  <1>13. [a EXCEPT !.stop = TRUE] \in Popping(t, e)
    <2> DEFINE w == [a EXCEPT !.stop = TRUE]
    <2> HIDE DEF w
    <2>1. w \in [t : Tcb(e), n : Nat, stop : BOOLEAN] /\ w.t = a.t
      BY <1>11, ZenonT(60) DEF w
    <2>2. w \in Popping(t, e)
      BY <1>1, <2>1, Zenon DEF Popping
    <2>3. QED
      BY <2>2, ZenonT(60) DEF w
  <1>14. [t |-> a.t, n |-> a.n + 1, stop |-> a.stop] \in Popping(t, e)
    BY <1>1, <1>2, <1>10, PoppingIs, ZenonT(60)
  <1>15. [t |-> v, n |-> a.n + 1, stop |-> full] \in Popping(t, e)
    BY <1>8, <1>9, <1>10, PoppingIs, ZenonT(60)
  <1>16. QED
    BY <1>7, <1>12, <1>13, <1>14, <1>15, ZenonT(60)

\* The drain is a run of that loop.
LEMMA DrainRuns ==
  ASSUME NEW e \in Ends, NEW t, Typed(t, e)
  PROVE  \E r \in Popping(t, e) : tcp_ooo_drain(t) = [r.t EXCEPT !.ooo = SubSeq(@, r.n + 1, Len(@))]
  <1> DEFINE N == Len(t.ooo)
             S == Popping(t, e)
             b == [t |-> t, n |-> 0, stop |-> FALSE]
             Body(g) == [k \in 0..N |-> IF k = 0 THEN b ELSE OooPop(g[k - 1], t.ooo[k])]
             F == [x \in Nat \X S |-> IF x[1] \in 1..N THEN OooPop(x[2], t.ooo[x[1]]) ELSE b]
  <1>1. N \in Nat /\ t.ooo \in Seq(Parked(e))
    BY TypedFields, ZenonT(60) DEF Parked
  <1>2. \A k \in 1..N : t.ooo[k] \in Parked(e)
    BY <1>1
  <1>3. b \in S
    <2>1. SameSend(t, t)
      BY Zenon DEF SameSend
    <2>2. 0 \in Nat /\ FALSE \in BOOLEAN
      BY Zenon
    <2>3. QED
      BY <2>1, <2>2, PoppingIs, Zenon
  <1> HIDE DEF b, S
  <1>4. ASSUME NEW a \in S, NEW k \in 1..N PROVE OooPop(a, t.ooo[k]) \in S
    BY <1>2, PopStep, Zenon DEF S
  <1>5. F \in [Nat \X S -> S]
    <2>1. ASSUME NEW x \in Nat \X S PROVE (IF x[1] \in 1..N THEN OooPop(x[2], t.ooo[x[1]]) ELSE b) \in S
      <3>1. x[2] \in S
        BY Zenon
      <3>2. QED
        BY <1>3, <1>4, <3>1, ZenonT(60)
    <2>2. QED
      BY <2>1, Zenon
  <1> HIDE DEF N
  <1>6. PICK g \in [0..N -> S] : g[0] = b /\ \A k \in 1..N : g[k] = F[<<k, g[k - 1]>>]
    <2> HIDE DEF F
    <2>1. \E g \in [0..N -> S] : Upwards(g, F, b, N)
      BY <1>1, <1>3, <1>5, Iterates, ZenonT(60)
    <2>2. QED
      BY <2>1, Zenon DEF Upwards
  <1>7. ASSUME NEW k \in 1..N PROVE g[k] = OooPop(g[k - 1], t.ooo[k])
    <2>1. k \in Nat /\ k - 1 \in 0..N
      BY <1>1
    <2>2. g[k - 1] \in S
      BY <1>6, <2>1
    <2>3. F[<<k, g[k - 1]>>] = OooPop(g[k - 1], t.ooo[k])
      <3>1. <<k, g[k - 1]>> \in Nat \X S /\ <<k, g[k - 1]>>[1] = k /\ <<k, g[k - 1]>>[2] = g[k - 1]
        BY <2>1, <2>2, ZenonT(60)
      <3> DEFINE x == <<k, g[k - 1]>>
      <3> HIDE DEF x
      <3>2. x \in Nat \X S /\ x[1] = k /\ x[2] = g[k - 1]
        BY <3>1, Zenon DEF x
      <3>3. F[x] = IF x[1] \in 1..N THEN OooPop(x[2], t.ooo[x[1]]) ELSE b
        BY <3>2, Zenon
      <3>4. F[x] = OooPop(g[k - 1], t.ooo[k])
        BY <3>2, <3>3, ZenonT(60)
      <3>5. QED
        BY <3>4, Zenon DEF x
    <2>4. QED
      BY <1>6, <2>3, ZenonT(60)
  <1> HIDE DEF F
  <1>8. g = Body(g)
    <2>1. \A k \in 0..N : k = 0 \/ k \in 1..N
      BY <1>1
    <2>2. \A k \in 0..N : g[k] = IF k = 0 THEN b ELSE OooPop(g[k - 1], t.ooo[k])
      BY <1>6, <1>7, <2>1, ZenonT(60)
    <2>3. QED
      BY <1>6, <2>2, ZenonT(60)
  <1> DEFINE h == CHOOSE f : f = Body(f)
  <1>9. h = Body(h)
    BY <1>8, Zenon
  <1>10. tcp_ooo_drain(t) = [h[N].t EXCEPT !.ooo = SubSeq(@, h[N].n + 1, Len(@))]
    BY Zenon DEF tcp_ooo_drain, N, b
  <1> HIDE DEF h
  <1>11. \A k \in 0..N : h[k] = IF k = 0 THEN b ELSE OooPop(h[k - 1], t.ooo[k])
    BY <1>9, ZenonT(60)
  <1>12. h[N] \in S
    <2> DEFINE T == {k \in Nat : k \in 0..N => h[k] \in S}
    <2>1. 0 \in T
      <3>1. 0 \in 0..N
        BY <1>1
      <3>2. h[0] = b
        BY <1>11, <3>1, ZenonT(60)
      <3>3. QED
        BY <1>3, <3>2, ZenonT(60)
    <2>2. ASSUME NEW k \in T PROVE k + 1 \in T
      <3>1. SUFFICES ASSUME k + 1 \in 0..N PROVE h[k + 1] \in S
        OBVIOUS
      <3>2. k \in 0..N /\ k + 1 \in 1..N /\ k + 1 # 0 /\ (k + 1) - 1 = k
        BY <1>1, <3>1
      <3>3. h[k] \in S
        BY <3>2, Zenon
      <3>4. h[k + 1] = OooPop(h[(k + 1) - 1], t.ooo[k + 1])
        BY <1>11, <3>1, <3>2, ZenonT(60)
      <3>5. OooPop(h[k], t.ooo[k + 1]) \in S
        BY <1>4, <3>2, <3>3, ZenonT(60)
      <3>6. QED
        BY <3>2, <3>4, <3>5, Zenon
    <2>3. T = Nat
      BY <2>1, <2>2, AllNat, ZenonT(60)
    <2>4. N \in T /\ N \in 0..N
      BY <1>1, <2>3
    <2>5. QED
      BY <2>4, Zenon
  <1> DEFINE r == h[N]
  <1>13. r \in Popping(t, e) /\ tcp_ooo_drain(t) = [r.t EXCEPT !.ooo = SubSeq(@, r.n + 1, Len(@))]
    BY <1>10, <1>12, Zenon DEF S
  <1> HIDE DEF r
  <1>14. QED
    BY <1>13, ZenonT(60)

\* Another parking list that fits.
LEMMA OooSet ==
  ASSUME NEW e \in Ends, NEW t, Typed(t, e), NEW q \in Seq(Parked(e)), Len(q) <= TCP_OOO_MAX
  PROVE  Typed([t EXCEPT !.ooo = q], e) /\ SameSend([t EXCEPT !.ooo = q], t)
  <1> DEFINE u == [t EXCEPT !.ooo = q]
  <1>1. /\ t \in Tcb(e) /\ Len(t.sndq) <= TCP_SNDBUF /\ Len(t.rcvq) <= TCP_RCVBUF
        /\ t.ssthresh >= TCP_MSS
    BY Zenon DEF Typed
  <1>2. SameSend(u, t) /\ u.sndq = t.sndq /\ u.rcvq = t.rcvq /\ u.ooo = q /\ u.ssthresh = t.ssthresh
    BY <1>1, ZenonT(60) DEF Tcb, SameSend
  <1>3. u \in Tcb(e)
    BY <1>1, ZenonT(60) DEF Tcb, Parked
  <1> HIDE DEF u
  <1>4. Typed(u, e)
    BY <1>1, <1>2, <1>3, ZenonT(60) DEF Typed
  <1>5. QED
    BY <1>2, <1>4, Zenon DEF u

\* What is left of the parked segments.
LEMMA Drained ==
  ASSUME NEW e \in Ends, NEW t, Typed(t, e)
  PROVE  Typed(tcp_ooo_drain(t), e) /\ SameSend(tcp_ooo_drain(t), t)
  <1>1. PICK r \in Popping(t, e) : tcp_ooo_drain(t) = [r.t EXCEPT !.ooo = SubSeq(@, r.n + 1, Len(@))]
    BY DrainRuns, Zenon
  <1> DEFINE v == r.t
             q == SubSeq(v.ooo, r.n + 1, Len(v.ooo))
             u == [v EXCEPT !.ooo = q]
  <1>2. tcp_ooo_drain(t) = u
    BY <1>1, Zenon
  <1>3. Typed(v, e) /\ SameSend(v, t) /\ r \in [t : Tcb(e), n : Nat, stop : BOOLEAN]
    BY Zenon DEF Popping
  <1>4. r.n \in Nat
    BY <1>3, Zenon
  <1>5. v.ooo \in Seq(Parked(e)) /\ Len(v.ooo) \in Nat /\ Len(v.ooo) <= TCP_OOO_MAX
    BY <1>3, TypedFields, ZenonT(60) DEF Parked
  <1> HIDE DEF v
  <1> DEFINE m == r.n + 1
  <1>6. m \in Int /\ m >= 1
    BY <1>4
  <1> HIDE DEF m
  <1>7. SubSeq(v.ooo, m, Len(v.ooo)) \in Seq(Parked(e)) /\ Len(SubSeq(v.ooo, m, Len(v.ooo))) <= TCP_OOO_MAX
    <2>1. SubSeq(v.ooo, m, Len(v.ooo)) \in Seq(Parked(e)) /\ Len(SubSeq(v.ooo, m, Len(v.ooo))) = IF m <= Len(v.ooo) THEN Len(v.ooo) - m + 1 ELSE 0
      BY <1>5, <1>6, SeqPart, SMT
    <2>2. QED
      BY <1>5, <1>6, <2>1, Sizes
  <1>8. q \in Seq(Parked(e)) /\ Len(q) <= TCP_OOO_MAX
    BY <1>7, Zenon DEF m
  <1> HIDE DEF q
  <1>9. Typed(u, e) /\ SameSend(u, v)
    BY <1>3, <1>8, OooSet, ZenonT(60) DEF v
  <1> HIDE DEF u
  <1>10. QED
    BY <1>2, <1>3, <1>9, SameTrans, ZenonT(60) DEF v

\* There is a place for a new segment in the list.
LEMMA ParkPosition ==
  ASSUME NEW o, NEW seq, Len(o) \in Nat
  PROVE  \E p \in 1..(Len(o) + 1) : /\ p <= Len(o) => ~seq_lt(o[p].seq, seq)
                                    /\ \A k \in 1..(p - 1) : seq_lt(o[k].seq, seq)
  <1> DEFINE N == Len(o)
             Below(k) == seq_lt(o[k].seq, seq)
  <1>1. N \in Nat
    BY Zenon
  <1> HIDE DEF N, Below
  <1> DEFINE C == {p \in 1..(N + 1) : p <= N => ~Below(p)}
  <1>2. C \in SUBSET Nat /\ N + 1 \in C
    BY <1>1
  <1>3. PICK p \in C : \A y \in C : p <= y
    BY <1>2, LeastOf, ZenonT(60)
  <1>4. p \in 1..(N + 1) /\ (p <= N => ~Below(p))
    BY <1>3, Zenon
  <1>5. ASSUME NEW k \in 1..(p - 1) PROVE Below(k)
    <2>1. k \notin C
      BY <1>1, <1>3, <1>4
    <2>2. k \in 1..(N + 1) /\ k <= N
      BY <1>1, <1>4
    <2>3. QED
      BY <2>1, <2>2, ZenonT(60)
  <1>6. QED
    BY <1>4, <1>5, Zenon DEF N, Below

\* Parking a segment.
LEMMA Inserted ==
  ASSUME NEW e \in Ends, NEW t, Typed(t, e), NEW seq \in SeqNums,
         NEW data \in Seq(Bytes(Peer(e)))
  PROVE  Typed(tcp_ooo_insert(t, seq, data), e) /\ SameSend(tcp_ooo_insert(t, seq, data), t)
  <1> DEFINE end == SeqAdd(seq, Len(data))
             overlaps == \E k \in 1..Len(t.ooo) :
                            LET q == t.ooo[k]
                            IN  seq_lt(seq, SeqAdd(q.seq, Len(q.data))) /\ seq_lt(q.seq, end)
             p == CHOOSE p \in 1..(Len(t.ooo) + 1) :
                     /\ p <= Len(t.ooo) => ~seq_lt(t.ooo[p].seq, seq)
                     /\ \A k \in 1..(p - 1) : seq_lt(t.ooo[k].seq, seq)
             x == [seq |-> seq, data |-> data]
             q == SubSeq(t.ooo, 1, p - 1) \o <<x>> \o SubSeq(t.ooo, p, Len(t.ooo))
  <1>1. tcp_ooo_insert(t, seq, data) = IF Len(t.ooo) >= TCP_OOO_MAX \/ overlaps THEN t
                                       ELSE [t EXCEPT !.ooo = q]
    BY Zenon DEF tcp_ooo_insert
  <1>2. t.ooo \in Seq(Parked(e)) /\ Len(t.ooo) \in Nat /\ Len(t.ooo) <= TCP_OOO_MAX
    BY TypedFields, ZenonT(60) DEF Parked
  <1>3. p \in 1..(Len(t.ooo) + 1)
    BY <1>2, ParkPosition, ZenonT(60)
  <1>4. x \in Parked(e)
    BY Zenon DEF Parked
  <1>5. SameSend(t, t)
    BY Zenon DEF SameSend
  <1> HIDE DEF p, x, overlaps
  <1>6. CASE Len(t.ooo) >= TCP_OOO_MAX \/ overlaps
    BY <1>1, <1>5, <1>6, ZenonT(60)
  <1>7. CASE ~(Len(t.ooo) >= TCP_OOO_MAX \/ overlaps)
    <2> DEFINE l == SubSeq(t.ooo, 1, p - 1)
               r == SubSeq(t.ooo, p, Len(t.ooo))
    <2>1. p - 1 \in Int /\ p - 1 <= Len(t.ooo) /\ 1 \in Int /\ 1 >= 1 /\ p \in Int /\ p >= 1 /\ Len(t.ooo) \in Int /\ Len(t.ooo) <= Len(t.ooo)
      BY <1>2, <1>3
    <2>2. l \in Seq(Parked(e)) /\ Len(l) = IF 1 <= p - 1 THEN (p - 1) - 1 + 1 ELSE 0
      BY <1>2, <2>1, SeqPart, SMT
    <2>3. r \in Seq(Parked(e)) /\ Len(r) = IF p <= Len(t.ooo) THEN Len(t.ooo) - p + 1 ELSE 0
      BY <1>2, <2>1, SeqPart, SMT
    <2> HIDE DEF l, r
    <2>4. <<x>> \in Seq(Parked(e)) /\ Len(<<x>>) = 1
      BY <1>4
    <2>5. l \o <<x>> \in Seq(Parked(e)) /\ Len(l \o <<x>>) = Len(l) + 1
      BY <2>2, <2>4, SeqConcat, Zenon
    <2>6. l \o <<x>> \o r \in Seq(Parked(e)) /\ Len(l \o <<x>> \o r) = Len(l \o <<x>>) + Len(r)
      <3> DEFINE lx == l \o <<x>>
      <3>1. lx \in Seq(Parked(e)) /\ r \in Seq(Parked(e))
        BY <2>3, <2>5, ZenonT(60)
      <3> HIDE DEF lx
      <3>2. lx \o r \in Seq(Parked(e)) /\ Len(lx \o r) = Len(lx) + Len(r)
        BY <3>1, SeqConcat, ZenonT(60)
      <3>3. QED
        BY <3>2, ZenonT(60) DEF lx
    <2>7. Len(l) = p - 1 /\ Len(r) = Len(t.ooo) - p + 1
      BY <1>2, <1>3, <2>2, <2>3
    <2>8. Len(l \o <<x>> \o r) = Len(t.ooo) + 1
      BY <1>2, <1>3, <2>5, <2>6, <2>7
    <2>9. ~(Len(t.ooo) >= TCP_OOO_MAX)
      BY <1>7, ZenonT(60)
    <2>10. q \in Seq(Parked(e)) /\ Len(q) <= TCP_OOO_MAX
      <3>1. Len(t.ooo) + 1 <= TCP_OOO_MAX
        BY <1>2, <2>9, Sizes
      <3>2. l \o <<x>> \o r \in Seq(Parked(e)) /\ Len(l \o <<x>> \o r) <= TCP_OOO_MAX
        BY <2>6, <2>8, <3>1, ZenonT(60)
      <3>3. QED
        BY <3>2, ZenonT(60) DEF l, r
    <2> HIDE DEF q
    <2>11. QED
      BY <1>1, <1>7, <2>10, OooSet, ZenonT(60)
  <1>8. QED
    BY <1>6, <1>7, ZenonT(60)

\* Arming the delayed-ACK timer.
LEMMA DelackSet ==
  ASSUME NEW e \in Ends, NEW t, Typed(t, e)
  PROVE  Typed([t EXCEPT !.delack = TRUE], e) /\ SameSend([t EXCEPT !.delack = TRUE], t)
  <1> DEFINE u == [t EXCEPT !.delack = TRUE]
  <1>1. /\ t \in Tcb(e) /\ Len(t.sndq) <= TCP_SNDBUF /\ Len(t.rcvq) <= TCP_RCVBUF
        /\ Len(t.ooo) <= TCP_OOO_MAX /\ t.ssthresh >= TCP_MSS
    BY ZenonT(60) DEF Typed
  <1>2. SameSend(u, t) /\ u.sndq = t.sndq /\ u.rcvq = t.rcvq /\ u.ooo = t.ooo /\ u.ssthresh = t.ssthresh
    BY <1>1, ZenonT(60) DEF Tcb, SameSend
  <1>3. u \in Tcb(e)
    BY <1>1, ZenonT(60) DEF Tcb
  <1> HIDE DEF u
  <1>4. Typed(u, e)
    BY <1>1, <1>2, <1>3, ZenonT(60) DEF Typed
  <1>5. QED
    BY <1>2, <1>4, ZenonT(60) DEF u

\* Payload leaves the send side alone.
LEMMA PayloadTaken ==
  ASSUME NEW e \in Ends, NEW c, Context(c, e), NEW s, s.seq \in SeqNums,
         s.data \in Seq(Bytes(Peer(e)))
  PROVE  Context(tcp_rx_payload(c, s), e) /\ SameSend(tcp_rx_payload(c, s).t, c.t)
  <1> DEFINE t == c.t
             skip == IF seq_lt(s.seq, t.rcv_nxt) THEN SeqDiff(t.rcv_nxt, s.seq) ELSE 0
             seq == SeqAdd(s.seq, skip)
             top == SeqAdd(t.rcv_nxt, tcp_rcv_window(t))
             room == SeqDiff(top, seq)
             data == SubSeq(s.data, skip + 1, Least(Len(s.data), skip + room))
             beyond == seq_ge(seq, top)
             i == tcp_ooo_insert(t, seq, data)
             u == tcp_ooo_drain(rcv_ring_put(t, data))
             v == [u EXCEPT !.delack = TRUE]
             late == skip > 0 /\ skip >= Len(s.data)
  <1>1. tcp_rx_payload(c, s) =
           IF late THEN tcp_send_ctl(c, {"ACK"})
           ELSE IF beyond THEN c
           ELSE IF seq # t.rcv_nxt THEN tcp_send_ctl([c EXCEPT !.t = i], {"ACK"})
           ELSE IF t.delack THEN tcp_send_ctl([c EXCEPT !.t = u], {"ACK"})
           ELSE [c EXCEPT !.t = v]
    BY ZenonT(60) DEF tcp_rx_payload
  <1>2. Typed(t, e) /\ t.rcv_nxt \in SeqNums /\ tcp_rcv_window(t) \in Nat
    <2>1. Typed(t, e)
      BY ZenonT(60) DEF Context
    <2>2. t.rcv_nxt \in SeqNums /\ tcp_rcv_window(t) \in 0..TCP_RCVBUF
      BY <2>1, TypedFields, ZenonT(60)
    <2>3. QED
      BY <2>1, <2>2, Sizes
  <1>3. skip \in Nat
    BY <1>2, DiffZero, ZenonT(60)
  <1> HIDE DEF skip
  <1>4. seq \in SeqNums /\ top \in SeqNums
    BY <1>2, <1>3, AddNat, ZenonT(60)
  <1>5. room \in Nat
    BY <1>4, DiffZero, ZenonT(60)
  <1> HIDE DEF t, seq, top, room
  <1>6. data \in Seq(Bytes(Peer(e)))
    <2>1. Len(s.data) \in Nat
      OBVIOUS
    <2> DEFINE l == Len(s.data)
    <2> HIDE DEF l
    <2>2. skip + 1 \in Int /\ skip + 1 >= 1 /\ Least(l, skip + room) \in Int /\ Least(l, skip + room) <= l
      BY <1>3, <1>5, <2>1 DEF Least, l
    <2>3. QED
      BY <2>2, SeqPart, ZenonT(60) DEF l
  <1> HIDE DEF data
  <1>7. Typed(i, e) /\ SameSend(i, t)
    BY <1>2, <1>4, <1>6, Inserted, ZenonT(60)
  <1>8. Typed(u, e) /\ SameSend(u, t)
    <2>1. Typed(rcv_ring_put(t, data), e) /\ SameSend(rcv_ring_put(t, data), t)
      BY <1>2, <1>6, RingPut, ZenonT(60)
    <2>2. QED
      BY <2>1, Drained, SameTrans, ZenonT(60)
  <1> HIDE DEF i, u
  <1>9. Typed(v, e) /\ SameSend(v, t)
    BY <1>8, DelackSet, SameTrans, ZenonT(60)
  <1> HIDE DEF v, late, beyond
  <1>10. {"ACK"} \in Flags
    BY Zenon DEF Flags
  <1>11. ASSUME NEW w, Typed(w, e), SameSend(w, t)
         PROVE  /\ Context([c EXCEPT !.t = w], e) /\ SameSend([c EXCEPT !.t = w].t, t)
                /\ Context(tcp_send_ctl([c EXCEPT !.t = w], {"ACK"}), e)
                /\ SameSend(tcp_send_ctl([c EXCEPT !.t = w], {"ACK"}).t, t)
    <2> DEFINE d == [c EXCEPT !.t = w]
    <2>1. Context(d, e) /\ d.t = w
      BY <1>11, BlockOf, ZenonT(60)
    <2> HIDE DEF d
    <2>2. Context(tcp_send_ctl(d, {"ACK"}), e) /\ SameSend(tcp_send_ctl(d, {"ACK"}).t, d.t)
      BY <2>1, <1>10, CtlSent, ZenonT(60)
    <2>3. SameSend(d.t, t) /\ SameSend(tcp_send_ctl(d, {"ACK"}).t, t)
      BY <1>11, <2>1, <2>2, SameTrans, ZenonT(60)
    <2>4. QED
      BY <2>1, <2>2, <2>3, ZenonT(60) DEF d
  <1>12. Context(tcp_send_ctl(c, {"ACK"}), e) /\ SameSend(tcp_send_ctl(c, {"ACK"}).t, t) /\ SameSend(c.t, t)
    <2>1. SameSend(c.t, t)
      BY ZenonT(60) DEF SameSend, t
    <2>2. QED
      BY <1>10, <2>1, CtlSent, SameTrans, ZenonT(60)
  <1> DEFINE P(x) == Context(x, e) /\ SameSend(x.t, t)
  <1>13. P(tcp_send_ctl(c, {"ACK"})) /\ P(c)
    BY <1>12, ZenonT(60)
  <1>14. P(tcp_send_ctl([c EXCEPT !.t = i], {"ACK"}))
    BY <1>7, <1>11, ZenonT(60)
  <1>15. P(tcp_send_ctl([c EXCEPT !.t = u], {"ACK"}))
    BY <1>8, <1>11, ZenonT(60)
  <1>16. P([c EXCEPT !.t = v])
    BY <1>9, <1>11, Zenon
  <1> HIDE DEF P
  <1>17. P(tcp_rx_payload(c, s))
    BY <1>1, <1>13, <1>14, <1>15, <1>16, ZenonT(60)
  <1>18. QED
    BY <1>17, ZenonT(60) DEF P, t

LEMMA TextStageFlow ==
  ASSUME NEW e \in Ends, NEW c, Context(c, e), Going(c.t), NEW s, s.seq \in SeqNums,
         s.data \in Seq(Bytes(Peer(e)))
  PROVE  Context(TextStage(c, s), e) /\ Going(TextStage(c, s).t)
  <1>1. Context(tcp_rx_payload(c, s), e) /\ SameSend(tcp_rx_payload(c, s).t, c.t)
    BY PayloadTaken, Zenon
  <1>2. Going(tcp_rx_payload(c, s).t)
    BY <1>1, SameGoing, ZenonT(60)
  <1>3. QED
    BY <1>1, <1>2, Zenon DEF TextStage

-----------------------------------------------------------------------------
(* The FIN and the handshake.                                              *)

LEMMA WithState ==
  ASSUME NEW e, NEW c, Context(c, e), NEW x
  PROVE  [c EXCEPT !.t.state = x] = [t |-> [c.t EXCEPT !.state = x], out |-> c.out]
  <1>1. c = [t |-> c.t, out |-> c.out]
    BY Zenon DEF Context
  <1> DEFINE b == c.t
             o == c.out
  <1>2. c = [t |-> b, out |-> o]
    BY <1>1, ZenonT(60)
  <1> HIDE DEF b, o
  <1>3. [[t |-> b, out |-> o] EXCEPT !.t.state = x] = [t |-> [b EXCEPT !.state = x], out |-> o]
    OBVIOUS
  <1>4. QED
    BY <1>2, <1>3, ZenonT(60) DEF b, o

\* The peer's FIN ends its stream; what we send is not affected.
LEMMA StateMoved ==
  ASSUME NEW e \in Ends, NEW t, Typed(t, e), Going(t), NEW x,
         \/ t.state = "ESTABLISHED" /\ x = "CLOSE_WAIT"
         \/ t.state = "FIN_WAIT_1" /\ x = "CLOSING"
  PROVE  Typed([t EXCEPT !.state = x], e) /\ Going([t EXCEPT !.state = x])
  <1> DEFINE u == [t EXCEPT !.state = x]
  <1>1. /\ t \in Tcb(e) /\ Len(t.sndq) <= TCP_SNDBUF /\ Len(t.rcvq) <= TCP_RCVBUF
        /\ Len(t.ooo) <= TCP_OOO_MAX /\ t.ssthresh >= TCP_MSS
    BY Zenon DEF Typed
  <1>2. /\ u.sndq = t.sndq /\ u.rcvq = t.rcvq /\ u.ooo = t.ooo /\ u.ssthresh = t.ssthresh
        /\ u.state = x /\ u.snd_una = t.snd_una /\ u.snd_nxt = t.snd_nxt
        /\ u.snd_wnd = t.snd_wnd /\ u.fin_queued = t.fin_queued /\ u.fin_sent = t.fin_sent
        /\ u.rto = t.rto
    BY <1>1, ZenonT(60) DEF Tcb
  <1>3. x \in TcpStates
    BY Zenon DEF TcpStates
  <1>4. u \in Tcb(e)
    BY <1>1, <1>3, ZenonT(60) DEF Tcb
  <1> HIDE DEF u
  <1>5. Typed(u, e)
    BY <1>1, <1>2, <1>4, ZenonT(60) DEF Typed
  <1>6. Flow(t) /\ NoStall(t)
    BY Zenon DEF Going
  <1>7. in_flight(u) = in_flight(t)
    BY <1>2, Zenon DEF in_flight
  <1>8. u.state \notin {"CLOSED"} \cup Opening
    BY <1>2, Zenon DEF Opening
  <1>9. u.state \in {"ESTABLISHED", "CLOSE_WAIT"} => t.state \in {"ESTABLISHED", "CLOSE_WAIT"}
    BY <1>2, Zenon
  <1>10. u.state \notin {"FIN_WAIT_2", "TIME_WAIT"}
    BY <1>2, Zenon
  <1>11. u.state \in SendStates => t.state \in SendStates
    BY <1>2, ZenonT(60) DEF SendStates
  <1>12. Flow(u)
    BY <1>2, <1>6, <1>7, <1>9, <1>10, ZenonT(60) DEF Flow
  <1>13. NoStall(u)
    BY <1>2, <1>6, <1>11, ZenonT(60) DEF NoStall
  <1>14. QED
    BY <1>5, <1>8, <1>12, <1>13, Zenon DEF Going, u

LEMMA TimeWaitEntered ==
  ASSUME NEW e \in Ends, NEW t, Typed(t, e), Going(t), t.state = "FIN_WAIT_2"
  PROVE  Typed(tcp_enter_timewait(t), e) /\ Going(tcp_enter_timewait(t))
  <1> DEFINE u == [t EXCEPT !.state = "TIME_WAIT", !.rto = FALSE, !.delack = FALSE]
  <1>1. /\ t \in Tcb(e) /\ Len(t.sndq) <= TCP_SNDBUF /\ Len(t.rcvq) <= TCP_RCVBUF
        /\ Len(t.ooo) <= TCP_OOO_MAX /\ t.ssthresh >= TCP_MSS
    BY Zenon DEF Typed
  <1>2. /\ u.sndq = t.sndq /\ u.rcvq = t.rcvq /\ u.ooo = t.ooo /\ u.ssthresh = t.ssthresh
        /\ u.state = "TIME_WAIT" /\ u.snd_una = t.snd_una /\ u.snd_nxt = t.snd_nxt
        /\ u.snd_wnd = t.snd_wnd /\ u.fin_queued = t.fin_queued /\ u.fin_sent = t.fin_sent
    BY <1>1, ZenonT(60) DEF Tcb
  <1>3. u.rto = FALSE
    BY <1>1, Zenon DEF Tcb
  <1>4. u \in Tcb(e)
    <2>1. "TIME_WAIT" \in TcpStates
      BY Zenon DEF TcpStates
    <2>2. QED
      BY <1>1, <2>1, ZenonT(60) DEF Tcb
  <1> HIDE DEF u
  <1>5. Typed(u, e)
    BY <1>1, <1>2, <1>4, ZenonT(60) DEF Typed
  <1>6. Flow(t)
    BY Zenon DEF Going
  <1>7. in_flight(u) = in_flight(t)
    BY <1>2, ZenonT(60) DEF in_flight
  <1>8. u.state \notin {"CLOSED"} \cup Opening
    BY <1>2, ZenonT(60) DEF Opening
  <1>9. t.snd_una = t.snd_nxt
    BY <1>6, ZenonT(60) DEF Flow
  <1>10. u.state \notin {"ESTABLISHED", "CLOSE_WAIT"} /\ u.state \notin SendStates
    BY <1>2, ZenonT(60) DEF SendStates
  <1>11. Flow(u)
    BY <1>2, <1>3, <1>6, <1>7, <1>9, <1>10, ZenonT(60) DEF Flow
  <1>12. NoStall(u)
    BY <1>10, Zenon DEF NoStall
  <1>13. QED
    BY <1>5, <1>8, <1>11, <1>12, ZenonT(60) DEF Going, u, tcp_enter_timewait

LEMMA FinStageFlow ==
  ASSUME NEW e \in Ends, NEW c, Context(c, e), Going(c.t), NEW s
  PROVE  Context(FinStage(c, s), e) /\ Going(FinStage(c, s).t)
  <1> DEFINE t == c.t
             next == IF t.state = "TIME_WAIT" THEN t.rcv_nxt ELSE SeqAdd(t.rcv_nxt, 1)
             b == [t EXCEPT !.rcv_nxt = next, !.rcv_eof = TRUE]
             d == [c EXCEPT !.t = b]
             a == tcp_send_ctl(d, {"ACK"})
  <1>1. Typed(t, e)
    BY ZenonT(60) DEF Context
  <1>2. next \in SeqNums
    <2>1. t.rcv_nxt \in SeqNums
      BY <1>1, TypedFields, ZenonT(60)
    <2>2. 1 \in Nat
      BY ZenonT(60)
    <2>3. QED
      BY <2>1, <2>2, AddNat, ZenonT(60)
  <1>3. FinStage(c, s) =
           IF "FIN" \notin s.flags \/ SeqAdd(s.seq, Len(s.data)) # t.rcv_nxt THEN c
           ELSE CASE t.state = "ESTABLISHED" -> [a EXCEPT !.t.state = "CLOSE_WAIT"]
                  [] t.state = "FIN_WAIT_1" -> [a EXCEPT !.t.state = "CLOSING"]
                  [] t.state = "FIN_WAIT_2" -> [a EXCEPT !.t = tcp_enter_timewait(a.t)]
                  [] t.state = "TIME_WAIT" -> a
                  [] OTHER -> c
    BY Zenon DEF FinStage
  <1> HIDE DEF next
  <1>4. Typed(b, e) /\ SameSend(b, t)
    <2>1. /\ t \in Tcb(e) /\ Len(t.sndq) <= TCP_SNDBUF /\ Len(t.rcvq) <= TCP_RCVBUF
          /\ Len(t.ooo) <= TCP_OOO_MAX /\ t.ssthresh >= TCP_MSS
      BY <1>1, Zenon DEF Typed
    <2> HIDE DEF t
    <2>2. SameSend(b, t) /\ b.sndq = t.sndq /\ b.rcvq = t.rcvq /\ b.ooo = t.ooo /\ b.ssthresh = t.ssthresh
      BY <2>1, ZenonT(60) DEF Tcb, SameSend
    <2>3. b \in Tcb(e)
      BY <1>2, <2>1, ZenonT(60) DEF Tcb
    <2> HIDE DEF b
    <2>4. QED
      BY <2>1, <2>2, <2>3, ZenonT(60) DEF Typed
  <1> HIDE DEF b
  <1>5. Context(d, e) /\ d.t = b
    BY <1>4, BlockOf, ZenonT(60)
  <1> HIDE DEF d
  <1>6. Context(a, e) /\ SameSend(a.t, t)
    <2>1. {"ACK"} \in Flags
      BY Zenon DEF Flags
    <2>2. Context(a, e) /\ SameSend(a.t, d.t)
      BY <1>5, <2>1, CtlSent, ZenonT(60)
    <2> HIDE DEF t, a
    <2>3. QED
      BY <1>4, <1>5, <2>2, SameTrans, ZenonT(60)
  <1> HIDE DEF a
  <1>7. Going(a.t) /\ Typed(a.t, e) /\ a.t.state = t.state
    <2>1. Going(a.t)
      BY <1>6, SameGoing, ZenonT(60)
    <2>2. QED
      BY <1>6, <2>1, ZenonT(60) DEF Context, SameSend
  <1> DEFINE P(x) == Context(x, e) /\ Going(x.t)
  <1>8. P(c) /\ P(a)
    BY <1>6, <1>7, ZenonT(60)
  <1>9. ASSUME NEW x, \/ t.state = "ESTABLISHED" /\ x = "CLOSE_WAIT"
                      \/ t.state = "FIN_WAIT_1" /\ x = "CLOSING"
        PROVE  P([a EXCEPT !.t.state = x])
    <2> DEFINE w == [a.t EXCEPT !.state = x]
    <2>1. Typed(w, e) /\ Going(w)
      BY <1>7, <1>9, StateMoved, ZenonT(60)
    <2>2. [a EXCEPT !.t.state = x] = [t |-> w, out |-> a.out]
      BY <1>6, WithState, ZenonT(60)
    <2> HIDE DEF w
    <2>3. Context([t |-> w, out |-> a.out], e)
      BY <1>6, <2>1, BlockOf, ZenonT(60)
    <2>4. [t |-> w, out |-> a.out].t = w
      BY Zenon
    <2>5. QED
      BY <2>1, <2>2, <2>3, <2>4, ZenonT(60)
  <1>10. ASSUME t.state = "FIN_WAIT_2" PROVE P([a EXCEPT !.t = tcp_enter_timewait(a.t)])
    <2> DEFINE w == tcp_enter_timewait(a.t)
    <2>1. Typed(w, e) /\ Going(w)
      BY <1>7, <1>10, TimeWaitEntered, ZenonT(60)
    <2> HIDE DEF w
    <2>2. Context([a EXCEPT !.t = w], e) /\ [a EXCEPT !.t = w].t = w
      BY <1>6, <2>1, BlockOf, ZenonT(60)
    <2>3. P([a EXCEPT !.t = w])
      BY <2>1, <2>2, ZenonT(60)
    <2>4. QED
      BY <2>3, Zenon DEF w
  <1> HIDE DEF P, t
  <1>11. P(FinStage(c, s))
    <2>1. CASE "FIN" \notin s.flags \/ SeqAdd(s.seq, Len(s.data)) # t.rcv_nxt
      BY <1>3, <1>8, <2>1, ZenonT(60)
    <2>2. CASE ~("FIN" \notin s.flags \/ SeqAdd(s.seq, Len(s.data)) # t.rcv_nxt)
      <3>1. CASE t.state = "ESTABLISHED"
        <4>1. FinStage(c, s) = [a EXCEPT !.t.state = "CLOSE_WAIT"]
          BY <1>3, <2>2, <3>1, ZenonT(60)
        <4>2. QED
          BY <1>9, <3>1, <4>1, ZenonT(60)
      <3>2. CASE t.state = "FIN_WAIT_1"
        <4>1. FinStage(c, s) = [a EXCEPT !.t.state = "CLOSING"]
          BY <1>3, <2>2, <3>2, ZenonT(60)
        <4>2. QED
          BY <1>9, <3>2, <4>1, ZenonT(60)
      <3>3. CASE t.state = "FIN_WAIT_2"
        <4>1. FinStage(c, s) = [a EXCEPT !.t = tcp_enter_timewait(a.t)]
          BY <1>3, <2>2, <3>3, ZenonT(60)
        <4>2. QED
          BY <1>10, <3>3, <4>1, ZenonT(60)
      <3>4. CASE t.state = "TIME_WAIT"
        BY <1>3, <1>8, <2>2, <3>4, ZenonT(60)
      <3>5. CASE t.state \notin {"ESTABLISHED", "FIN_WAIT_1", "FIN_WAIT_2", "TIME_WAIT"}
        BY <1>3, <1>8, <2>2, <3>5, ZenonT(60)
      <3>6. QED
        BY <3>1, <3>2, <3>3, <3>4, <3>5, ZenonT(60)
    <2>3. QED
      BY <2>1, <2>2, ZenonT(60)
  <1>12. QED
    BY <1>11, ZenonT(60) DEF P

\* A block in ESTABLISHED with nothing outstanding.
LEMMA OpenedGoing ==
  ASSUME NEW e \in Ends, NEW u, Typed(u, e), u.state = "ESTABLISHED", u.snd_una = u.snd_nxt,
         ~u.rto, u.sndq = <<>>, ~u.fin_queued, ~u.fin_sent
  PROVE  Going(u)
  <1>1. in_flight(u) = 0
    BY TypedFields, ZenonT(60)
  <1>2. in_flight(u) <= Len(u.sndq)
    BY <1>1
  <1>3. Flow(u)
    BY <1>2, ZenonT(60) DEF Flow
  <1>4. NoStall(u)
    BY Zenon DEF NoStall
  <1>5. QED
    BY <1>3, <1>4, ZenonT(60) DEF Going, Opening

LEMMA CwndInit ==
  ASSUME NEW e \in Ends, NEW t, Typed(t, e)
  PROVE  Typed(tcp_cwnd_init(t), e) /\ SameSend(tcp_cwnd_init(t), t)
  <1> DEFINE cw == Least(4 * TCP_MSS, Most(2 * TCP_MSS, TCP_IW))
             u == CongSet(t, cw, SsthreshMax, t.dupacks, t.rtx_count)
  <1>1. cw \in TCP_MSS..CwndCap /\ SsthreshMax \in TCP_MSS..SsthreshMax
    BY Sizes DEF Least, Most
  <1> HIDE DEF cw
  <1>2. t.dupacks \in 0..4 /\ t.rtx_count \in 0..TCP_MAX_RTX /\ t \in Tcb(e)
    BY TypedFields, ZenonT(60) DEF Typed
  <1>3. Typed(u, e) /\ SameSend(u, t)
    BY <1>1, <1>2, CongUpdate, ZenonT(60)
  <1>4. [t EXCEPT !.cwnd = cw, !.ssthresh = SsthreshMax] = u
    BY <1>2, ZenonT(60) DEF CongSet, Tcb
  <1>5. QED
    BY <1>3, <1>4, ZenonT(60) DEF tcp_cwnd_init, cw

\* The ACK of our SYN completes the handshake.
LEMMA HandshakeDone ==
  ASSUME NEW e \in Ends, NEW t, Typed(t, e), Block(t), t.state = "SYN_RCVD", NEW s,
         s.ack \in SeqNums, s.seq \in SeqNums, s.wnd \in 0..TCP_RCVBUF, HandshakeAck(t, s)
  PROVE  /\ Typed(Handshaken(t, s), e)
         /\ Going(Handshaken(t, s))
         /\ ~seq_gt(s.ack, Handshaken(t, s).snd_nxt)
  <1> DEFINE w == tcp_cwnd_init(t)
             u == [w EXCEPT !.state = "ESTABLISHED", !.snd_una = s.ack,
                            !.snd_wnd = s.wnd, !.snd_wl1 = s.seq, !.snd_wl2 = s.ack,
                            !.rto = FALSE, !.rtx_count = 0]
  <1>1. Handshaken(t, s) = u
    BY Zenon DEF Handshaken
  <1>2. SynOut(t)
    BY Zenon DEF Block, Opening
  <1>3. s.ack = t.snd_nxt /\ ~seq_gt(t.snd_nxt, t.snd_nxt)
    <2>1. t.iss \in SeqNums
      BY TypedFields, ZenonT(60)
    <2>2. t.snd_una = t.iss /\ t.snd_nxt = SeqAdd(t.iss, 1)
      BY <1>2, ZenonT(60) DEF SynOut
    <2>3. seq_lt(t.iss, s.ack) /\ seq_le(s.ack, SeqAdd(t.iss, 1))
      BY <2>2, ZenonT(60) DEF HandshakeAck
    <2>4. QED
      BY <2>1, <2>2, <2>3, AckOfSyn, ZenonT(60)
  <1>4. Typed(w, e) /\ SameSend(w, t)
    BY CwndInit, ZenonT(60)
  <1> HIDE DEF w
  <1>5. /\ w \in Tcb(e) /\ Len(w.sndq) <= TCP_SNDBUF /\ Len(w.rcvq) <= TCP_RCVBUF
        /\ Len(w.ooo) <= TCP_OOO_MAX /\ w.ssthresh >= TCP_MSS
    BY <1>4, ZenonT(60) DEF Typed
  <1>6. /\ u.sndq = w.sndq /\ u.rcvq = w.rcvq /\ u.ooo = w.ooo /\ u.ssthresh = w.ssthresh
        /\ u.state = "ESTABLISHED" /\ u.snd_una = s.ack /\ u.snd_nxt = w.snd_nxt
        /\ u.fin_queued = w.fin_queued /\ u.fin_sent = w.fin_sent
    BY <1>5, ZenonT(60) DEF Tcb
  <1>7. u.rto = FALSE
    BY <1>5, Zenon DEF Tcb
  <1>8. u \in Tcb(e)
    <2>1. "ESTABLISHED" \in TcpStates /\ 0 \in 0..TCP_MAX_RTX
      BY Sizes DEF TcpStates
    <2>2. QED
      BY <1>5, <2>1, ZenonT(60) DEF Tcb
  <1> HIDE DEF u
  <1>9. Typed(u, e)
    BY <1>5, <1>6, <1>8, ZenonT(60) DEF Typed
  <1>10. /\ u.snd_una = u.snd_nxt /\ u.snd_nxt = t.snd_nxt /\ u.sndq = <<>>
         /\ ~u.fin_queued /\ ~u.fin_sent /\ ~u.rto
    BY <1>2, <1>3, <1>4, <1>6, <1>7, ZenonT(60) DEF SameSend, SynOut
  <1>11. Going(u)
    BY <1>6, <1>9, <1>10, OpenedGoing, ZenonT(60)
  <1>12. QED
    BY <1>1, <1>3, <1>9, <1>10, <1>11, Zenon

-----------------------------------------------------------------------------
(* Effects common to all handlers.                                         *)

\* A block whose send side is the same keeps the invariant.
LEMMA SameBlock ==
  ASSUME NEW t, NEW u, SameSend(u, t), Block(t), t.state # "CLOSED"
  PROVE  Block(u)
  <1>1. u.state = t.state
    BY ZenonT(60) DEF SameSend
  <1>2. (SynOut(t) => SynOut(u)) /\ (Flow(t) => Flow(u)) /\ (NoStall(t) => NoStall(u))
    BY SameFlow, Zenon
  <1>3. QED
    BY <1>1, <1>2, ZenonT(60) DEF Block

LEMMA GoingBlock ==
  ASSUME NEW t, Going(t) PROVE Block(t) /\ t.state # "CLOSED" /\ t.state \notin Opening
  BY Zenon DEF Going, Block, Opening

LEMMA BlockGoing ==
  ASSUME NEW t, Block(t), t.state # "CLOSED", t.state \notin Opening PROVE Going(t)
  BY Zenon DEF Going, Block

LEMMA CtxOf ==
  ASSUME NEW e, NEW t, Typed(t, e) PROVE Context(Ctx(t), e) /\ Ctx(t).t = t
  BY Zenon DEF Context, Ctx

LEMMA BlankBlock ==
  ASSUME NEW e \in Ends PROVE Typed(NoTcb, e) /\ Block(NoTcb) /\ NoTcb.state = "CLOSED"
  <1>1. NoTcb.state = "CLOSED" /\ NoTcb.sndq = <<>> /\ NoTcb.rcvq = <<>> /\ NoTcb.ooo = <<>> /\ NoTcb.ssthresh = SsthreshMax
    BY Zenon DEF NoTcb
  <1>2. Block(NoTcb)
    BY <1>1, ZenonT(60) DEF Block, Opening
  <1>3. /\ 0 \in SeqNums /\ 0 \in 0..TCP_RCVBUF /\ 0 \in 0..TCP_MAX_RTX /\ 0 \in 0..4
        /\ 4 * TCP_MSS \in TCP_MSS..CwndCap /\ SsthreshMax \in 1..SsthreshMax
        /\ SsthreshMax >= TCP_MSS
    BY Sizes, ZeroSeq
  <1>4. /\ <<>> \in Seq(Bytes(e)) /\ <<>> \in Seq(Bytes(Peer(e)))
        /\ <<>> \in Seq([seq : SeqNums, data : Seq(Bytes(Peer(e)))])
        /\ "CLOSED" \in TcpStates
    BY DEF TcpStates
  <1>5. NoTcb \in Tcb(e)
    BY <1>3, <1>4, ZenonT(60) DEF NoTcb, Tcb
  <1>6. 0 <= TCP_SNDBUF /\ 0 <= TCP_RCVBUF /\ 0 <= TCP_OOO_MAX /\ Len(<<>>) = 0
    BY Sizes
  <1>7. Typed(NoTcb, e)
    BY <1>1, <1>3, <1>5, <1>6, ZenonT(60) DEF Typed
  <1>8. QED
    BY <1>1, <1>2, <1>7, ZenonT(60)

\* The effect of Commit.
LEMMA CommitStep ==
  ASSUME NetInv, NEW e \in Ends, NEW c, Context(c, e), Block(c.t), NEW left \in SUBSET SegTo(e),
         Commit(e, c, left)
  PROVE  NetInv' /\ tcb'[e] = c.t /\ tcb'[Peer(e)] = tcb[Peer(e)]
  <1> DEFINE p == Peer(e)
             o == net[p] \cup c.out
  <1>1. tcb' = [tcb EXCEPT ![e] = c.t] /\ net' = [net EXCEPT ![e] = left, ![p] = @ \cup c.out]
    BY Zenon DEF Commit
  <1>2. p \in Ends /\ p # e
    BY PeerIs, Zenon
  <1>3. \A f \in Ends : f = e \/ f = p
    BY PeerIs, Zenon DEF Ends
  <1>4. /\ tcb \in [Ends -> Tcb("A") \cup Tcb("B")]
        /\ net \in [Ends -> SUBSET (SegTo("A") \cup SegTo("B"))]
        /\ Typed(tcb[p], p) /\ Block(tcb[p]) /\ net[p] \in SUBSET SegTo(p)
    BY <1>2, ZenonT(60) DEF NetInv
  <1>5. Typed(c.t, e) /\ c.t \in Tcb(e) /\ c.out \in SUBSET SegTo(p)
    <2>1. Typed(c.t, e) /\ c.out \subseteq OutSeg(e)
      BY Zenon DEF Context
    <2>2. OutSeg(e) = SegTo(p)
      BY OutSegTo, ZenonT(60)
    <2>3. QED
      BY <2>1, <2>2, ZenonT(60) DEF Typed
  <1>6. \A f \in Ends : Tcb(f) \subseteq Tcb("A") \cup Tcb("B") /\ SegTo(f) \subseteq SegTo("A") \cup SegTo("B")
    BY ZenonT(60) DEF Ends
  <1>7. o \in SUBSET SegTo(p)
    BY <1>4, <1>5, ZenonT(60)
  <1> HIDE DEF p
  <1>8. /\ tcb' \in [Ends -> Tcb("A") \cup Tcb("B")] /\ tcb'[e] = c.t /\ tcb'[p] = tcb[p]
    <2>1. c.t \in Tcb("A") \cup Tcb("B")
      BY <1>5, <1>6, ZenonT(60)
    <2>2. QED
      BY <1>1, <1>2, <1>4, <2>1, ZenonT(60)
  <1>9. net' \in [Ends -> SUBSET (SegTo("A") \cup SegTo("B"))] /\ net'[e] = left /\ net'[p] = o
    <2> DEFINE S == SUBSET (SegTo("A") \cup SegTo("B"))
    <2>1. left \in S /\ o \in S
      BY <1>2, <1>6, <1>7, ZenonT(60)
    <2> HIDE DEF S
    <2>2. net \in [Ends -> S]
      BY <1>4, ZenonT(60) DEF S
    <2>3. net' = [net EXCEPT ![e] = left, ![p] = o]
      BY <1>1, <1>2, <2>2, ZenonT(60)
    <2> HIDE DEF o
    <2>4. net' \in [Ends -> S] /\ net'[e] = left /\ net'[p] = o
      BY <1>2, <2>1, <2>2, <2>3, ZenonT(60)
    <2>5. QED
      BY <2>4, Zenon DEF S
  <1> HIDE DEF o
  <1>10. Typed(tcb'[e], e) /\ Block(tcb'[e]) /\ net'[e] \in SUBSET SegTo(e)
    BY <1>5, <1>8, <1>9, ZenonT(60)
  <1>11. Typed(tcb'[p], p) /\ Block(tcb'[p]) /\ net'[p] \in SUBSET SegTo(p)
    BY <1>4, <1>7, <1>8, <1>9, ZenonT(60)
  <1>12. \A f \in Ends : Typed(tcb'[f], f) /\ Block(tcb'[f]) /\ net'[f] \in SUBSET SegTo(f)
    BY <1>3, <1>10, <1>11, ZenonT(60)
  <1>13. NetInv'
    BY <1>8, <1>9, <1>12, ZenonT(60) DEF NetInv
  <1>14. QED
    BY <1>8, <1>13, ZenonT(60) DEF p

\* The clause on the applications, when the peer's and its block are the same.
LEMMA EarlyStep ==
  ASSUME EarlyInv, NEW e \in Ends, tcb'[Peer(e)] = tcb[Peer(e)], app'[Peer(e)] = app[Peer(e)],
         tcb'[e].state \in Opening => app'[e] \in {"idle", "connecting"}
  PROVE  EarlyInv'
  <1>1. \A f \in Ends : f = e \/ f = Peer(e)
    BY PeerIs, ZenonT(60) DEF Ends
  <1>2. Peer(e) \in Ends
    BY PeerIs, ZenonT(60)
  <1>3. QED
    BY <1>1, <1>2, ZenonT(60) DEF EarlyInv

LEMMA AppSame == ASSUME AppInv, UNCHANGED appVars PROVE AppInv' /\ app' = app
  BY Zenon DEF AppInv, appVars

\* A step of the connection that the application does not see.
LEMMA QuietStep ==
  ASSUME IInv, NEW e \in Ends, NEW c, Context(c, e), Block(c.t), NEW left \in SUBSET SegTo(e),
         c.t.state \in Opening => tcb[e].state \in Opening,
         Commit(e, c, left), UNCHANGED appVars
  PROVE  NetInv' /\ AppInv' /\ EarlyInv'
  <1>1. NetInv /\ AppInv /\ EarlyInv
    BY Zenon DEF IInv
  <1>2. NetInv' /\ tcb'[e] = c.t /\ tcb'[Peer(e)] = tcb[Peer(e)]
    BY <1>1, CommitStep, ZenonT(60)
  <1>3. AppInv' /\ app' = app
    BY <1>1, AppSame, ZenonT(60)
  <1>4. tcb'[e].state \in Opening => app'[e] \in {"idle", "connecting"}
    BY <1>1, <1>2, <1>3, ZenonT(60) DEF EarlyInv
  <1>5. EarlyInv'
    BY <1>1, <1>2, <1>3, <1>4, EarlyStep, ZenonT(60)
  <1>6. QED
    BY <1>2, <1>3, <1>5, ZenonT(60)

\* The block is freed.
LEMMA FreedStep ==
  ASSUME IInv, NEW e \in Ends, NEW out \in SUBSET OutSeg(e), NEW left \in SUBSET SegTo(e),
         NEW code \in {"none", "RESET", "REFUSED", "TIMEDOUT"}, Freed(e, out, code, left)
  PROVE  NetInv' /\ AppInv' /\ EarlyInv'
  <1>1. NetInv /\ AppInv /\ EarlyInv
    BY Zenon DEF IInv
  <1> DEFINE c == [t |-> NoTcb, out |-> out]
  <1>2. Typed(NoTcb, e) /\ Block(NoTcb) /\ NoTcb.state = "CLOSED"
    BY BlankBlock, ZenonT(60)
  <1>3. Context(c, e) /\ c.t = NoTcb
    BY <1>2, Zenon DEF Context
  <1>4. Commit(e, c, left)
    BY Zenon DEF Freed
  <1> HIDE DEF c
  <1>5. NetInv' /\ tcb'[e] = NoTcb /\ tcb'[Peer(e)] = tcb[Peer(e)]
    BY <1>1, <1>2, <1>3, <1>4, CommitStep, ZenonT(60)
  <1>6. app' = app
    BY Zenon DEF Freed
  <1>7. AppInv'
    <2>1. err' \in [Ends -> {"none", "RESET", "REFUSED", "TIMEDOUT"}]
      BY <1>1, Zenon DEF AppInv, Freed
    <2>2. UNCHANGED <<active, opens, app, wrote, got, eof>>
      BY Zenon DEF Freed
    <2>3. QED
      BY <1>1, <2>1, <2>2, ZenonT(60) DEF AppInv
  <1>8. tcb'[e].state \notin Opening
    BY <1>2, <1>5, ZenonT(60) DEF Opening
  <1>9. EarlyInv'
    BY <1>1, <1>5, <1>6, <1>8, EarlyStep, ZenonT(60)
  <1>10. QED
    BY <1>5, <1>7, <1>9, ZenonT(60)

\* The answer to a refused segment.
LEMMA ResetSent ==
  ASSUME NEW e \in Ends, NEW s \in SegTo(e)
  PROVE  tcp_send_reset_for(s) \in SUBSET OutSeg(e)
  <1>1. s.ack \in SeqNums /\ s.seq \in SeqNums /\ s.data \in Seq(Bytes(Peer(e))) /\ s.flags \in Flags
    BY Zenon DEF SegTo
  <1>2. Len(s.data) \in Nat
    BY <1>1
  <1>3. seg_seqlen(s) \in Nat
    <2> DEFINE l == Len(s.data)
               y == IF "SYN" \in s.flags THEN 1 ELSE 0
               z == IF "FIN" \in s.flags THEN 1 ELSE 0
    <2>1. l \in Nat /\ y \in Nat /\ z \in Nat
      BY <1>2, Zenon
    <2>2. seg_seqlen(s) = l + y + z
      BY Zenon DEF seg_seqlen
    <2> HIDE DEF l, y, z
    <2>3. QED
      BY <2>1, <2>2
  <1>4. SeqAdd(s.seq, seg_seqlen(s)) \in SeqNums
    BY <1>1, <1>3, AddNat, ZenonT(60)
  <1>5. {"RST"} \in Flags /\ {"RST", "ACK"} \in Flags /\ 0 \in SeqNums /\ 0 \in 0..TCP_RCVBUF /\ <<>> \in Seq(Bytes(e))
    BY ZeroSeq, Sizes DEF Flags
  <1>6. [flags |-> {"RST"}, seq |-> s.ack, ack |-> 0, wnd |-> 0, data |-> <<>>] \in OutSeg(e)
    BY <1>1, <1>5, SegFields, ZenonT(60)
  <1>7. [flags |-> {"RST", "ACK"}, seq |-> 0, ack |-> SeqAdd(s.seq, seg_seqlen(s)), wnd |-> 0,
         data |-> <<>>] \in OutSeg(e)
    BY <1>4, <1>5, SegFields, ZenonT(60)
  <1>8. QED
    BY <1>6, <1>7, ZenonT(60) DEF tcp_send_reset_for

\* A step that only answers.
LEMMA AnswerStep ==
  ASSUME IInv, NEW e \in Ends, NEW out \in SUBSET OutSeg(e), NEW left \in SUBSET SegTo(e),
         Commit(e, [t |-> tcb[e], out |-> out], left), UNCHANGED appVars
  PROVE  NetInv' /\ AppInv' /\ EarlyInv'
  <1> DEFINE c == [t |-> tcb[e], out |-> out]
  <1>1. Typed(tcb[e], e) /\ Block(tcb[e])
    BY ZenonT(60) DEF IInv, NetInv
  <1>2. Context(c, e) /\ c.t = tcb[e]
    BY <1>1, ZenonT(60) DEF Context
  <1>3. Commit(e, c, left)
    BY Zenon
  <1> HIDE DEF c
  <1>4. Block(c.t) /\ (c.t.state \in Opening => tcb[e].state \in Opening)
    BY <1>1, <1>2, Zenon
  <1>5. QED
    BY <1>2, <1>3, <1>4, QuietStep, ZenonT(60)

\* A step that keeps the send side of a block that exists.
LEMMA SameSendStep ==
  ASSUME IInv, NEW e \in Ends, NEW c, Context(c, e), SameSend(c.t, tcb[e]),
         tcb[e].state # "CLOSED", NEW left \in SUBSET SegTo(e), Commit(e, c, left),
         UNCHANGED appVars
  PROVE  NetInv' /\ AppInv' /\ EarlyInv'
  <1>1. Block(tcb[e])
    BY Zenon DEF IInv, NetInv
  <1>2. Block(c.t)
    BY <1>1, SameBlock, ZenonT(60)
  <1>3. c.t.state \in Opening => tcb[e].state \in Opening
    BY Zenon DEF SameSend
  <1>4. QED
    BY <1>2, <1>3, QuietStep, ZenonT(60)

\* A new initial sequence number.
LEMMA IssIs == ASSUME AppInv, NEW e \in Ends PROVE tcp_gen_iss(e) \in SeqNums
  <1>1. opens[e] \in Nat /\ IssStep \in Nat /\ Iss[e] \in SeqNums
    BY ConnConstants DEF AppInv
  <1>2. opens[e] * IssStep \in Nat
    BY <1>1, Product, ZenonT(60)
  <1>3. QED
    BY <1>1, <1>2, AddNat, ZenonT(60) DEF tcp_gen_iss

\* A block that has just sent its SYN.
LEMMA SynBlock ==
  ASSUME NEW e \in Ends, NEW t, Typed(t, e), t.state \in Opening, t.snd_una = t.iss,
         t.snd_nxt = SeqAdd(t.iss, 1), t.rto, t.sndq = <<>>, ~t.fin_queued, ~t.fin_sent
  PROVE  Block(t)
  <1>1. SynOut(t)
    BY ZenonT(60) DEF SynOut
  <1>2. t.state # "CLOSED"
    BY Zenon DEF Opening
  <1>3. QED
    BY <1>1, <1>2, ZenonT(60) DEF Block

=============================================================================
