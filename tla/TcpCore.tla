------------------------------ MODULE TcpCore -------------------------------
(***************************************************************************)
(* The TCP control block of PacketForge (src/src/tcp/tcp.h) and the        *)
(* operations of tcp.c and tcp_out.c on one block.                         *)
(*                                                                         *)
(* An operation maps a context c = [t |-> control block, out |-> segments  *)
(* transmitted so far] to a context, so that handlers are compositions of  *)
(* operations in the order of the code.  Sequence numbers are modulo       *)
(* SEQ_MOD.  Rings hold the bytes themselves, so snd_len is Len(sndq) and  *)
(* rcv_len is Len(rcvq); head indices are not needed.  A timer is          *)
(* armed or not.  RTT measurement and PSH change no other state.           *)
(***************************************************************************)
EXTENDS Integers, FiniteSets, Sequences

CONSTANTS
    SEQ_MOD,        \* size of the sequence space (2^32)
    TCP_MSS,        \* effective send MSS, both ends announce TCP_OUR_MSS
    TCP_IW,         \* the 4380 of the initial window
    TCP_SNDBUF,     \* bytes in the send ring
    TCP_RCVBUF,     \* bytes in the receive ring
    TCP_OOO_MAX,    \* out-of-order segments parked
    TCP_MAX_RTX     \* retransmissions before giving up

ASSUME TcpConstants ==
    /\ SEQ_MOD \in Nat /\ SEQ_MOD % 2 = 0
    /\ {TCP_MSS, TCP_IW, TCP_SNDBUF, TCP_RCVBUF} \subseteq Nat \ {0}
    /\ {TCP_OOO_MAX, TCP_MAX_RTX} \subseteq Nat
    /\ SEQ_MOD > 2 * (TCP_SNDBUF + TCP_RCVBUF + 2)

SeqNums == 0..(SEQ_MOD - 1)

\* Modular comparisons: the sign of the difference as a signed integer.
SeqDiff(a, b) == (a - b) % SEQ_MOD
seq_lt(a, b) == SeqDiff(a, b) >= SEQ_MOD \div 2
seq_le(a, b) == a = b \/ seq_lt(a, b)
seq_gt(a, b) == SeqDiff(a, b) \in 1..(SEQ_MOD \div 2 - 1)
seq_ge(a, b) == ~seq_lt(a, b)
SeqAdd(a, n) == (a + n) % SEQ_MOD

Least(a, b) == IF a <= b THEN a ELSE b
Most(a, b) == IF a >= b THEN a ELSE b

-----------------------------------------------------------------------------
(* The control block.                                                      *)

\* cwnd and ssthresh matter only up to the send ring; larger values are
\* saturated.  0xffffffff, the initial ssthresh, stays above every cwnd.
CwndCap == 4 * TCP_MSS + TCP_SNDBUF + TCP_IW
SsthreshMax == CwndCap + 1

NoTcb ==
    [state |-> "CLOSED", iss |-> 0, snd_una |-> 0, snd_nxt |-> 0, snd_wnd |-> 0,
     snd_wl1 |-> 0, snd_wl2 |-> 0, irs |-> 0, rcv_nxt |-> 0, rcv_wnd_advertised |-> 0,
     sndq |-> <<>>, fin_queued |-> FALSE, fin_sent |-> FALSE, rcvq |-> <<>>,
     rcv_eof |-> FALSE, ooo |-> <<>>, rto |-> FALSE, rtx_count |-> 0,
     cwnd |-> 4 * TCP_MSS, ssthresh |-> SsthreshMax, dupacks |-> 0,
     nodelay |-> FALSE, delack |-> FALSE]

TcpStates ==
    {"CLOSED", "SYN_SENT", "SYN_RCVD", "ESTABLISHED", "FIN_WAIT_1", "FIN_WAIT_2",
     "CLOSE_WAIT", "CLOSING", "LAST_ACK", "TIME_WAIT"}

\* States in which tcp_output may transmit.
SendStates == {"ESTABLISHED", "CLOSE_WAIT", "FIN_WAIT_1", "LAST_ACK"}

\* States in which payload is taken.
TextStates == {"ESTABLISHED", "FIN_WAIT_1", "FIN_WAIT_2"}

tcp_rcv_window(t) == TCP_RCVBUF - Len(t.rcvq)

tcp_cwnd_init(t) ==
    [t EXCEPT !.cwnd = Least(4 * TCP_MSS, Most(2 * TCP_MSS, TCP_IW)),
              !.ssthresh = SsthreshMax]

tcp_enter_timewait(t) ==
    [t EXCEPT !.state = "TIME_WAIT", !.rto = FALSE, !.delack = FALSE]

in_flight(t) == SeqDiff(t.snd_nxt, t.snd_una)

tcp_data_in_flight(t) ==
    IF t.fin_sent /\ in_flight(t) > 0 THEN in_flight(t) - 1 ELSE in_flight(t)

-----------------------------------------------------------------------------
(* The send engine (tcp_out.c).                                            *)

\* Transmit one segment; one with ACK also clears the delayed-ACK timer and
\* records the window it advertises.
tcp_send_segment(c, flags, seq, data) ==
    LET isAck == "ACK" \in flags
        w     == tcp_rcv_window(c.t)
    IN  [t   |-> IF isAck THEN [c.t EXCEPT !.delack = FALSE, !.rcv_wnd_advertised = w]
                 ELSE c.t,
         out |-> c.out \cup {[flags |-> flags, seq |-> seq,
                              ack |-> IF isAck THEN c.t.rcv_nxt ELSE 0,
                              wnd |-> w, data |-> data]}]

tcp_send_ctl(c, flags) ==
    tcp_send_segment(c, flags, IF "SYN" \in flags THEN c.t.iss ELSE c.t.snd_nxt, <<>>)

\* SYN and FIN each take a sequence number.
seg_seqlen(s) ==
    Len(s.data) + (IF "SYN" \in s.flags THEN 1 ELSE 0) + (IF "FIN" \in s.flags THEN 1 ELSE 0)

\* The answer to a segment that matches no connection, or that a listener
\* or an embryonic connection refuses.
tcp_send_reset_for(s) ==
    IF "RST" \in s.flags THEN {}
    ELSE IF "ACK" \in s.flags
         THEN {[flags |-> {"RST"}, seq |-> s.ack, ack |-> 0, wnd |-> 0, data |-> <<>>]}
         ELSE {[flags |-> {"RST", "ACK"}, seq |-> 0, ack |-> SeqAdd(s.seq, seg_seqlen(s)),
                wnd |-> 0, data |-> <<>>]}

\* Bytes tcp_output's loop sends: full segments, then the remainder unless
\* Nagle holds it because it would empty the ring with data outstanding.
OutputBytes(t) ==
    LET sent  == tcp_data_in_flight(t)
        avail == Len(t.sndq) - sent
        room  == Least(t.snd_wnd, t.cwnd) - in_flight(t)
        m     == Least(avail, room)
        rem   == m % TCP_MSS
        held  == ~t.nodelay /\ sent + m - rem > 0 /\ m = avail
    IN  IF t.fin_sent \/ m <= 0 THEN 0
        ELSE IF held THEN m - rem ELSE m

\* The n bytes after the ones in flight, cut into segments.
SendData(c, n) ==
    LET base == tcp_data_in_flight(c.t)
        Seg(k) == [flags |-> {"ACK"}, seq |-> SeqAdd(c.t.snd_nxt, k * TCP_MSS),
                   ack |-> c.t.rcv_nxt, wnd |-> tcp_rcv_window(c.t),
                   data |-> SubSeq(c.t.sndq, base + k * TCP_MSS + 1,
                                   base + Least((k + 1) * TCP_MSS, n))]
    IN  IF n = 0 THEN c
        ELSE [t   |-> [c.t EXCEPT !.snd_nxt = SeqAdd(@, n), !.rto = TRUE, !.delack = FALSE,
                                  !.rcv_wnd_advertised = tcp_rcv_window(c.t)],
              out |-> c.out \cup {Seg(k) : k \in 0..((n - 1) \div TCP_MSS)}]

\* FIN goes out once the ring is fully transmitted.
SendFin(c) ==
    LET t == tcp_send_segment(c, {"FIN", "ACK"}, c.t.snd_nxt, <<>>)
    IN  IF c.t.fin_queued /\ ~c.t.fin_sent /\ Len(c.t.sndq) = tcp_data_in_flight(c.t)
        THEN [t EXCEPT !.t.fin_sent = TRUE, !.t.snd_nxt = SeqAdd(@, 1), !.t.rto = TRUE]
        ELSE c

tcp_output(c) ==
    IF c.t.state \in SendStates THEN SendFin(SendData(c, OutputBytes(c.t))) ELSE c

tcp_retransmit(c) ==
    LET n == Least(tcp_data_in_flight(c.t), TCP_MSS)
    IN  CASE c.t.state = "SYN_SENT" -> tcp_send_ctl(c, {"SYN"})
          [] c.t.state = "SYN_RCVD" -> tcp_send_ctl(c, {"SYN", "ACK"})
          [] OTHER -> IF n > 0
                      THEN tcp_send_segment(c, {"ACK"}, c.t.snd_una, SubSeq(c.t.sndq, 1, n))
                      ELSE IF c.t.fin_sent /\ seq_lt(c.t.snd_una, c.t.snd_nxt)
                      THEN tcp_send_segment(c, {"FIN", "ACK"}, c.t.snd_una, <<>>)
                      ELSE c

\* One byte beyond a zero window.
tcp_send_probe(c) ==
    LET d == in_flight(c.t)
        p == tcp_send_segment(c, {"ACK"}, c.t.snd_nxt, SubSeq(c.t.sndq, d + 1, d + 1))
    IN  [p EXCEPT !.t.snd_nxt = SeqAdd(@, 1)]

-----------------------------------------------------------------------------
(* Stages of tcp_input for a segment s in the synchronised states.         *)

acceptable(t, s) ==
    LET w         == tcp_rcv_window(t)
        In(n)     == seq_ge(n, t.rcv_nxt) /\ seq_lt(n, SeqAdd(t.rcv_nxt, w))
    IN  IF seg_seqlen(s) = 0
        THEN IF w = 0 THEN s.seq = t.rcv_nxt ELSE In(s.seq)
        ELSE w > 0 /\ (In(s.seq) \/ In(SeqAdd(s.seq, seg_seqlen(s) - 1)))

fin_acked(t, s) == t.fin_sent /\ s.ack = t.snd_nxt

\* RFC 5681 growth on an ACK of n new bytes.
CwndAfterAck(t, n) ==
    Least(CwndCap,
          IF t.dupacks >= 3 THEN t.ssthresh
          ELSE IF t.cwnd < t.ssthresh THEN t.cwnd + Least(n, TCP_MSS)
          ELSE t.cwnd + Most(1, (TCP_MSS * TCP_MSS) \div t.cwnd))

\* Fault variant: any ACK of new data stops the retransmission timer.
AckNew_stops_rto(t, s) ==
    LET dbytes == SeqDiff(s.ack, t.snd_una) - (IF fin_acked(t, s) THEN 1 ELSE 0)
        u == [t EXCEPT !.sndq = SubSeq(@, dbytes + 1, Len(@)), !.snd_una = s.ack,
                       !.rtx_count = 0, !.cwnd = CwndAfterAck(t, dbytes), !.dupacks = 0,
                       !.rto = FALSE]
    IN  IF fin_acked(t, s) /\ t.state = "FIN_WAIT_1" THEN [u EXCEPT !.state = "FIN_WAIT_2"]
        ELSE IF fin_acked(t, s) /\ t.state = "CLOSING" THEN tcp_enter_timewait(u)
        ELSE u


\* Fault variant: one byte too many is released from the ring.
AckNew_releases_more(t, s) ==
    LET dbytes == SeqDiff(s.ack, t.snd_una) - (IF fin_acked(t, s) THEN 1 ELSE 0)
    IN  [t EXCEPT !.sndq = SubSeq(@, dbytes + 2, Len(@)), !.snd_una = s.ack,
                  !.rtx_count = 0, !.cwnd = CwndAfterAck(t, dbytes), !.dupacks = 0,
                  !.rto = (s.ack # t.snd_nxt)]

\* The part of the new-data branch before tcp_output; LAST_ACK whose FIN is
\* acknowledged is freed by the caller.
AckNew(t, s) ==
    LET dbytes == SeqDiff(s.ack, t.snd_una) - (IF fin_acked(t, s) THEN 1 ELSE 0)
        u == [t EXCEPT !.sndq = SubSeq(@, dbytes + 1, Len(@)), !.snd_una = s.ack,
                       !.rtx_count = 0, !.cwnd = CwndAfterAck(t, dbytes), !.dupacks = 0,
                       !.rto = (s.ack # t.snd_nxt)]
    IN  IF fin_acked(t, s) /\ t.state = "FIN_WAIT_1" THEN [u EXCEPT !.state = "FIN_WAIT_2"]
        ELSE IF fin_acked(t, s) /\ t.state = "CLOSING" THEN tcp_enter_timewait(u)
        ELSE u

IsDupAck(t, s) ==
    /\ s.ack = t.snd_una
    /\ seg_seqlen(s) = 0
    /\ s.wnd = t.snd_wnd
    /\ seq_lt(t.snd_una, t.snd_nxt)

\* dupacks matters only up to "more than three".
AckDup(c) ==
    LET n   == Least(c.t.dupacks + 1, 4)
        thr == Most(in_flight(c.t) \div 2, 2 * TCP_MSS)
        more == Least(CwndCap, c.t.cwnd + TCP_MSS)
        rtx == tcp_retransmit([c EXCEPT !.t = [@ EXCEPT !.dupacks = n, !.ssthresh = thr]])
    IN  CASE n < 3 -> [c EXCEPT !.t.dupacks = n]
          [] n = 3 -> [rtx EXCEPT !.t.cwnd = Least(CwndCap, thr + 3 * TCP_MSS)]
          [] n > 3 -> tcp_output([c EXCEPT !.t = [@ EXCEPT !.dupacks = n, !.cwnd = more]])

AckStage(c, s) ==
    IF seq_gt(s.ack, c.t.snd_una) THEN tcp_output([c EXCEPT !.t = AckNew(c.t, s)])
    ELSE IF IsDupAck(c.t, s) THEN AckDup(c)
    ELSE c

\* Fault variant: a reopened window does not restart the output.
WindowStage_silent(c, s) ==
    LET t == c.t
        u == [c EXCEPT !.t = [@ EXCEPT !.snd_wnd = s.wnd, !.snd_wl1 = s.seq, !.snd_wl2 = s.ack]]
        newer == \/ seq_lt(t.snd_wl1, s.seq)
                 \/ t.snd_wl1 = s.seq /\ seq_le(t.snd_wl2, s.ack)
    IN  IF seq_le(t.snd_una, s.ack) /\ seq_le(s.ack, t.snd_nxt) /\ newer THEN u ELSE c

WindowStage(c, s) ==
    LET t == c.t
        u == [c EXCEPT !.t = [@ EXCEPT !.snd_wnd = s.wnd, !.snd_wl1 = s.seq, !.snd_wl2 = s.ack]]
        newer == \/ seq_lt(t.snd_wl1, s.seq)
                 \/ t.snd_wl1 = s.seq /\ seq_le(t.snd_wl2, s.ack)
    IN  IF seq_le(t.snd_una, s.ack) /\ seq_le(s.ack, t.snd_nxt) /\ newer
        THEN IF t.snd_wnd = 0 /\ s.wnd > 0 THEN tcp_output(u) ELSE u
        ELSE c

rcv_ring_put(t, data) ==
    LET take == Least(Len(data), tcp_rcv_window(t))
    IN  [t EXCEPT !.rcvq = @ \o SubSeq(data, 1, take), !.rcv_nxt = SeqAdd(@, take)]

\* One round of the loop below on the parked segment q: a.t is the block, a.n
\* the segments popped.  A hole ends the loop, a full ring as well.
OooPop(a, q) ==
    LET skip == SeqDiff(a.t.rcv_nxt, q.seq)
        want == Len(q.data) - skip
    IN  IF a.stop \/ seq_gt(q.seq, a.t.rcv_nxt) THEN [a EXCEPT !.stop = TRUE]
        ELSE IF seq_le(SeqAdd(q.seq, Len(q.data)), a.t.rcv_nxt) THEN [a EXCEPT !.n = @ + 1]
        ELSE [t    |-> rcv_ring_put(a.t, SubSeq(q.data, skip + 1, Len(q.data))),
              n    |-> a.n + 1,
              stop |-> tcp_rcv_window(a.t) < want]

\* Parked segments are popped while the head is contiguous.
tcp_ooo_drain(t) ==
    LET drained[k \in 0..Len(t.ooo)] ==
            IF k = 0 THEN [t |-> t, n |-> 0, stop |-> FALSE]
            ELSE OooPop(drained[k - 1], t.ooo[k])
        r == drained[Len(t.ooo)]
    IN  [r.t EXCEPT !.ooo = SubSeq(@, r.n + 1, Len(@))]

\* Fault variant: a segment is parked behind the others, not in order.
tcp_ooo_insert_append(t, seq, data) ==
    IF Len(t.ooo) >= TCP_OOO_MAX THEN t
    ELSE [t EXCEPT !.ooo = Append(@, [seq |-> seq, data |-> data])]

tcp_ooo_insert(t, seq, data) ==
    LET end == SeqAdd(seq, Len(data))
        overlaps == \E k \in 1..Len(t.ooo) :
                       LET q == t.ooo[k]
                       IN  seq_lt(seq, SeqAdd(q.seq, Len(q.data))) /\ seq_lt(q.seq, end)
        \* the first parked segment that is not below seq, or one past the last
        p == CHOOSE p \in 1..(Len(t.ooo) + 1) :
                /\ p <= Len(t.ooo) => ~seq_lt(t.ooo[p].seq, seq)
                /\ \A k \in 1..(p - 1) : seq_lt(t.ooo[k].seq, seq)
    IN  IF Len(t.ooo) >= TCP_OOO_MAX \/ overlaps THEN t
        ELSE [t EXCEPT !.ooo = SubSeq(@, 1, p - 1) \o <<[seq |-> seq, data |-> data]>>
                                 \o SubSeq(@, p, Len(@))]

\* Payload: trim what was already received and what is beyond the window,
\* take it or park it, acknowledge now or later.
tcp_rx_payload(c, s) ==
    LET t    == c.t
        skip == IF seq_lt(s.seq, t.rcv_nxt) THEN SeqDiff(t.rcv_nxt, s.seq) ELSE 0
        seq  == SeqAdd(s.seq, skip)
        room == SeqDiff(SeqAdd(t.rcv_nxt, tcp_rcv_window(t)), seq)
        data == SubSeq(s.data, skip + 1, Least(Len(s.data), skip + room))
        beyond == seq_ge(seq, SeqAdd(t.rcv_nxt, tcp_rcv_window(t)))
        u    == tcp_ooo_drain(rcv_ring_put(t, data))
    IN  IF skip > 0 /\ skip >= Len(s.data) THEN tcp_send_ctl(c, {"ACK"})
        ELSE IF beyond THEN c
        ELSE IF seq # t.rcv_nxt
        THEN tcp_send_ctl([c EXCEPT !.t = tcp_ooo_insert(t, seq, data)], {"ACK"})
        ELSE IF t.delack THEN tcp_send_ctl([c EXCEPT !.t = u], {"ACK"})
        ELSE [c EXCEPT !.t = [u EXCEPT !.delack = TRUE]]

TextStage(c, s) ==
    IF Len(s.data) > 0 /\ c.t.state \in TextStates THEN tcp_rx_payload(c, s) ELSE c

\* Fault variant: a FIN beyond a hole is taken.
FinStage_early(c, s) ==
    LET t == c.t
        a == tcp_send_ctl([c EXCEPT !.t = [@ EXCEPT !.rcv_nxt = SeqAdd(s.seq, Len(s.data) + 1),
                                                    !.rcv_eof = TRUE]], {"ACK"})
    IN  IF "FIN" \notin s.flags THEN c
        ELSE CASE t.state = "ESTABLISHED" -> [a EXCEPT !.t.state = "CLOSE_WAIT"]
               [] t.state = "FIN_WAIT_1" -> [a EXCEPT !.t.state = "CLOSING"]
               [] t.state = "FIN_WAIT_2" -> [a EXCEPT !.t = tcp_enter_timewait(@)]
               [] OTHER -> c

FinStage(c, s) ==
    LET t == c.t
        next == IF t.state = "TIME_WAIT" THEN t.rcv_nxt ELSE SeqAdd(t.rcv_nxt, 1)
        a == tcp_send_ctl([c EXCEPT !.t = [@ EXCEPT !.rcv_nxt = next, !.rcv_eof = TRUE]],
                          {"ACK"})
    IN  IF "FIN" \notin s.flags \/ SeqAdd(s.seq, Len(s.data)) # t.rcv_nxt THEN c
        ELSE CASE t.state = "ESTABLISHED" -> [a EXCEPT !.t.state = "CLOSE_WAIT"]
               [] t.state = "FIN_WAIT_1" -> [a EXCEPT !.t.state = "CLOSING"]
               [] t.state = "FIN_WAIT_2" -> [a EXCEPT !.t = tcp_enter_timewait(@)]
               [] t.state = "TIME_WAIT" -> a
               [] OTHER -> c

=============================================================================
