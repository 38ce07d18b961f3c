--------------------------- MODULE TcpConnProofs ----------------------------
(* Proofs about TcpConn for every sequence space, segment size, window and *)
(* bound of the network.                                                   *)
EXTENDS TcpCoreProofs

-----------------------------------------------------------------------------
(* Segments that arrive.                                                   *)

LEMMA InputClosed ==
  ASSUME IInv, NEW e \in Ends, NEW s \in SegTo(e), NEW left \in SUBSET SegTo(e),
         input_no_tcb(e, s, left) \/ input_listen_other(e, s, left)
  PROVE  NetInv' /\ AppInv' /\ EarlyInv'
  <1> DEFINE x == tcp_send_reset_for(s)
             y == IF "ACK" \in s.flags THEN x ELSE {}
  <1>1. x \in SUBSET OutSeg(e)
    BY ResetSent, ZenonT(60)
  <1>2. y \in SUBSET OutSeg(e)
    BY <1>1, ZenonT(60)
  <1>3. tcb[e].state = "CLOSED"
    BY ZenonT(60) DEF input_no_tcb, input_listen_other
  <1>4. tcb[e] = NoTcb
    BY <1>3, Zenon DEF IInv, NetInv, Block
  <1>5. (Commit(e, [t |-> NoTcb, out |-> x], left) \/ Commit(e, [t |-> NoTcb, out |-> y], left)) /\ UNCHANGED appVars
    BY Zenon DEF input_no_tcb, input_listen_other
  <1> HIDE DEF x, y
  <1>6. Commit(e, [t |-> tcb[e], out |-> x], left) \/ Commit(e, [t |-> tcb[e], out |-> y], left)
    BY <1>4, <1>5, ZenonT(60)
  <1>7. QED
    BY <1>1, <1>2, <1>5, <1>6, AnswerStep, ZenonT(60)

LEMMA InputListenSyn ==
  ASSUME IInv, NEW e \in Ends, NEW s \in SegTo(e), NEW left \in SUBSET SegTo(e),
         input_listen_syn(e, s, left)
  PROVE  NetInv' /\ AppInv' /\ EarlyInv'
  <1> DEFINE iss == tcp_gen_iss(e)
             n == SeqAdd(s.seq, 1)
             m == SeqAdd(iss, 1)
             t == [NoTcb EXCEPT !.irs = s.seq, !.rcv_nxt = n, !.iss = iss,
                           !.snd_una = iss, !.snd_nxt = m, !.snd_wnd = s.wnd,
                           !.snd_wl1 = s.seq, !.snd_wl2 = iss, !.state = "SYN_RCVD",
                           !.rto = TRUE]
             c == tcp_send_ctl(Ctx(t), {"SYN", "ACK"})
  <1>1. NetInv /\ AppInv /\ EarlyInv
    BY ZenonT(60) DEF IInv
  <1>2. Commit(e, c, left)
    BY ZenonT(60) DEF input_listen_syn
  <1>3. iss \in SeqNums /\ s.seq \in SeqNums /\ s.wnd \in 0..TCP_RCVBUF
    BY <1>1, IssIs, ZenonT(60) DEF SegTo
  <1>4. n \in SeqNums /\ m \in SeqNums
    <2>1. 1 \in Nat
      BY ZenonT(60)
    <2>2. QED
      BY <1>3, <2>1, AddNat, ZenonT(60)
  <1>5. Typed(NoTcb, e) /\ NoTcb \in Tcb(e)
    BY BlankBlock, ZenonT(60) DEF Typed
  <1>6. m = SeqAdd(iss, 1)
    BY ZenonT(60)
  <1> HIDE DEF iss, n, m
  <1>7. /\ t.sndq = <<>> /\ t.rcvq = <<>> /\ t.ooo = <<>> /\ t.ssthresh = NoTcb.ssthresh
        /\ t.state = "SYN_RCVD" /\ t.iss = iss /\ t.snd_una = iss /\ t.snd_nxt = m
    BY ZenonT(60) DEF NoTcb
  <1>8. t.rto = TRUE /\ t.fin_queued = FALSE /\ t.fin_sent = FALSE
    BY Zenon DEF NoTcb
  <1>9. t \in Tcb(e)
    <2>1. "SYN_RCVD" \in TcpStates
      BY ZenonT(60) DEF TcpStates
    <2>2. QED
      BY <1>3, <1>4, <1>5, <2>1, ZenonT(60) DEF Tcb
  <1> HIDE DEF t
  <1>10. Typed(t, e)
    BY <1>5, <1>7, <1>9, Sizes DEF Typed
  <1>11. Block(t)
    <2>1. t.state \in Opening
      BY <1>7, ZenonT(60) DEF Opening
    <2>2. QED
      BY <1>6, <1>7, <1>8, <1>10, <2>1, SynBlock, ZenonT(60)
  <1>12. Context(c, e) /\ SameSend(c.t, t)
    <2>1. {"SYN", "ACK"} \in Flags
      BY ZenonT(60) DEF Flags
    <2>2. Context(Ctx(t), e) /\ Ctx(t).t = t
      BY <1>10, CtxOf, ZenonT(60)
    <2>3. Context(c, e) /\ SameSend(c.t, Ctx(t).t)
      BY <2>1, <2>2, CtlSent, ZenonT(60)
    <2>4. QED
      BY <2>2, <2>3, ZenonT(60)
  <1> HIDE DEF c
  <1>13. Block(c.t)
    <2>1. t.state # "CLOSED"
      BY <1>7, ZenonT(60)
    <2>2. QED
      BY <1>11, <1>12, <2>1, SameBlock, ZenonT(60)
  <1>14. NetInv' /\ tcb'[e] = c.t /\ tcb'[Peer(e)] = tcb[Peer(e)]
    BY <1>1, <1>2, <1>12, <1>13, CommitStep, ZenonT(60)
  <1>15. AppInv' /\ app'[Peer(e)] = app[Peer(e)] /\ app'[e] = "idle"
    <2>1. /\ opens' = [opens EXCEPT ![e] = @ + 1] /\ opens[e] < MaxOpens
          /\ app' = [app EXCEPT ![e] = "idle"]
          /\ err' = [err EXCEPT ![e] = "none"]
          /\ wrote' = [wrote EXCEPT ![e] = 0]
          /\ got' = [got EXCEPT ![e] = <<>>]
          /\ eof' = [eof EXCEPT ![e] = FALSE]
          /\ active' = active
      BY ZenonT(60) DEF input_listen_syn
    <2>2. /\ active \in Roles
          /\ got \in [Ends -> Seq(Nat)]
          /\ opens \in [Ends -> 0..MaxOpens]
          /\ app \in [Ends -> {"idle", "connecting", "queued", "open", "closed"}]
          /\ err \in [Ends -> {"none", "RESET", "REFUSED", "TIMEDOUT"}]
          /\ wrote \in [Ends -> Nat]
          /\ eof \in [Ends -> BOOLEAN]
      BY <1>1, ZenonT(60) DEF AppInv
    <2>3. opens' \in [Ends -> 0..MaxOpens]
      <3>1. opens[e] \in 0..MaxOpens /\ MaxOpens \in Nat
        BY <2>2, ConnConstants, ZenonT(60)
      <3>2. opens[e] + 1 \in 0..MaxOpens
        BY <2>1, <3>1
      <3>3. QED
        BY <2>1, <2>2, <3>2, ZenonT(60)
    <2>4. app' \in [Ends -> {"idle", "connecting", "queued", "open", "closed"}]
      BY <2>1, <2>2, ZenonT(60)
    <2>5. err' \in [Ends -> {"none", "RESET", "REFUSED", "TIMEDOUT"}] /\ wrote' \in [Ends -> Nat]
      BY <2>1, <2>2, ZenonT(60)
    <2>6. eof' \in [Ends -> BOOLEAN]
      BY <2>1, <2>2, ZenonT(60)
    <2>7. got' \in [Ends -> Seq(Nat)] /\ \A f \in Ends : got'[f] \in Seq(Bytes(Peer(f)))
      <3>1. <<>> \in Seq(Nat) /\ <<>> \in Seq(Bytes(Peer(e)))
        OBVIOUS
      <3>2. \A f \in Ends : got[f] \in Seq(Bytes(Peer(f)))
        BY <1>1, ZenonT(60) DEF AppInv
      <3>3. got' \in [Ends -> Seq(Nat)]
        BY <2>1, <2>2, <3>1, ZenonT(60)
      <3>4. ASSUME NEW f \in Ends PROVE got'[f] \in Seq(Bytes(Peer(f)))
        <4>1. got'[f] = IF f = e THEN <<>> ELSE got[f]
          BY <2>1, <2>2, ZenonT(60)
        <4>2. QED
          BY <3>1, <3>2, <4>1, ZenonT(60)
      <3>5. QED
        BY <3>3, <3>4, ZenonT(60)
    <2>8. app'[Peer(e)] = app[Peer(e)] /\ app'[e] = "idle"
      BY <2>1, <2>2, PeerIs, ZenonT(60)
    <2>9. QED
      BY <2>1, <2>2, <2>3, <2>4, <2>5, <2>6, <2>7, <2>8, ZenonT(60) DEF AppInv
  <1>16. EarlyInv'
    BY <1>1, <1>14, <1>15, EarlyStep, ZenonT(60)
  <1>17. QED
    BY <1>14, <1>15, <1>16, ZenonT(60)

LEMMA InputSynSentOther ==
  ASSUME IInv, NEW e \in Ends, NEW s \in SegTo(e), NEW left \in SUBSET SegTo(e),
         input_synsent_ignored(e, s, left) \/ input_bad_handshake(e, s, left)
  PROVE  NetInv' /\ AppInv' /\ EarlyInv'
  <1> DEFINE x == tcp_send_reset_for(s)
             y == IF BadSynAck(tcb[e], s) THEN x ELSE {}
  <1>1. x \in SUBSET OutSeg(e)
    BY ResetSent, Zenon
  <1>2. y \in SUBSET OutSeg(e)
    BY <1>1, ZenonT(60)
  <1>3. (Commit(e, [t |-> tcb[e], out |-> x], left) \/ Commit(e, [t |-> tcb[e], out |-> y], left)) /\ UNCHANGED appVars
    BY Zenon DEF input_synsent_ignored, input_bad_handshake
  <1> HIDE DEF x, y
  <1>4. QED
    BY <1>1, <1>2, <1>3, AnswerStep, ZenonT(60)

LEMMA InputFreed ==
  ASSUME IInv, NEW e \in Ends, NEW s \in SegTo(e), NEW left \in SUBSET SegTo(e),
         \/ input_synsent_refused(e, s, left)
         \/ input_reset(e, s, left)
         \/ input_last_ack(e, s, left)
  PROVE  NetInv' /\ AppInv' /\ EarlyInv'
  <1>1. \E code \in {"none", "RESET", "REFUSED", "TIMEDOUT"} : Freed(e, {}, code, left)
    <2>1. CASE input_synsent_refused(e, s, left)
      BY <2>1, ZenonT(60) DEF input_synsent_refused
    <2>2. CASE input_reset(e, s, left)
      <3> DEFINE quiet == \/ tcb[e].state = "SYN_RCVD" /\ e \notin active
                          \/ tcb[e].state \in {"CLOSING", "LAST_ACK", "TIME_WAIT"}
                 code == IF quiet THEN "none" ELSE "RESET"
      <3>1. Freed(e, {}, code, left)
        BY <2>2, ZenonT(60) DEF input_reset
      <3>2. code \in {"none", "RESET", "REFUSED", "TIMEDOUT"}
        BY ZenonT(60)
      <3> HIDE DEF code
      <3>3. QED
        BY <3>1, <3>2, ZenonT(60)
    <2>3. CASE input_last_ack(e, s, left)
      BY <2>3, ZenonT(60) DEF input_last_ack
    <2>4. QED
      BY <2>1, <2>2, <2>3, ZenonT(60)
  <1>2. {} \in SUBSET OutSeg(e)
    BY ZenonT(60)
  <1>3. QED
    BY <1>1, <1>2, FreedStep, ZenonT(60)

\* SYN_SENT: a SYN that acknowledges ours establishes the connection, one
\* that does not is a simultaneous open.
LEMMA InputSynSentSyn ==
  ASSUME IInv, NEW e \in Ends, NEW s \in SegTo(e), NEW left \in SUBSET SegTo(e),
         input_synsent_syn(e, s, left)
  PROVE  NetInv' /\ AppInv' /\ EarlyInv'
  <1> DEFINE b == tcb[e]
             n == SeqAdd(s.seq, 1)
             una == IF "ACK" \in s.flags THEN s.ack ELSE b.snd_una
             t == [b EXCEPT !.irs = s.seq, !.rcv_nxt = n, !.snd_una = una]
             w == tcp_cwnd_init(t)
             est == [w EXCEPT !.state = "ESTABLISHED", !.snd_wnd = s.wnd,
                              !.snd_wl1 = s.seq, !.snd_wl2 = s.ack,
                              !.rto = FALSE, !.rtx_count = 0]
             sim == [t EXCEPT !.state = "SYN_RCVD", !.rto = TRUE]
             ce == tcp_send_ctl(Ctx(est), {"ACK"})
             cs == tcp_send_ctl(Ctx(sim), {"SYN", "ACK"})
  <1>1. /\ b.state = "SYN_SENT"
        /\ ~BadSynAck(b, s)
        /\ Commit(e, IF seq_gt(t.snd_una, t.iss) THEN ce ELSE cs, left)
        /\ UNCHANGED appVars
    BY Zenon DEF input_synsent_syn
  <1>2. Typed(b, e) /\ Block(b)
    BY Zenon DEF IInv, NetInv
  <1>3. SynOut(b) /\ b.state \in Opening
    BY <1>1, <1>2, ZenonT(60) DEF Block, Opening
  <1>4. s.ack \in SeqNums /\ s.seq \in SeqNums /\ s.wnd \in 0..TCP_RCVBUF
    BY Zenon DEF SegTo
  <1> HIDE DEF b
  <1>5. b.iss \in SeqNums /\ b.snd_una \in SeqNums /\ b.snd_nxt \in SeqNums
    BY <1>2, TypedFields, ZenonT(60)
  <1>6. b.snd_una = b.iss /\ b.snd_nxt = SeqAdd(b.iss, 1)
    BY <1>3, ZenonT(60) DEF SynOut
  <1>7. /\ "ACK" \in s.flags => una = b.snd_nxt /\ seq_gt(una, b.iss)
        /\ "ACK" \notin s.flags => una = b.iss /\ ~seq_gt(una, b.iss)
    <2>1. "ACK" \in s.flags => ~seq_le(s.ack, b.iss) /\ ~seq_gt(s.ack, b.snd_nxt)
      BY <1>1, ZenonT(60) DEF BadSynAck
    <2>2. /\ ~seq_le(s.ack, b.iss) /\ ~seq_gt(s.ack, b.snd_nxt) => s.ack = b.snd_nxt
          /\ seq_gt(b.snd_nxt, b.iss) /\ ~seq_gt(b.iss, b.iss)
      <3> DEFINE m == SeqAdd(b.iss, 1)
      <3>1. /\ ~seq_le(s.ack, b.iss) /\ ~seq_gt(s.ack, m) => s.ack = m
            /\ seq_gt(m, b.iss) /\ ~seq_gt(b.iss, b.iss)
        BY <1>4, <1>5, AckOfSyn, ZenonT(60)
      <3>2. m = b.snd_nxt
        BY <1>6, ZenonT(60)
      <3> HIDE DEF m
      <3>3. QED
        BY <3>1, <3>2, ZenonT(60)
    <2>3. QED
      BY <1>6, <2>1, <2>2, ZenonT(60)
  <1>8. una \in SeqNums /\ n \in SeqNums
    <2>1. 1 \in Nat
      BY Zenon
    <2>2. QED
      BY <1>4, <1>5, <2>1, AddNat, ZenonT(60)
  <1> HIDE DEF una, n
  <1>9. /\ b \in Tcb(e) /\ Len(b.sndq) <= TCP_SNDBUF /\ Len(b.rcvq) <= TCP_RCVBUF
        /\ Len(b.ooo) <= TCP_OOO_MAX /\ b.ssthresh >= TCP_MSS
    BY <1>2, ZenonT(60) DEF Typed
  <1>10. /\ t.sndq = b.sndq /\ t.rcvq = b.rcvq /\ t.ooo = b.ooo /\ t.ssthresh = b.ssthresh
         /\ t.state = b.state /\ t.iss = b.iss /\ t.snd_una = una /\ t.snd_nxt = b.snd_nxt
         /\ t.fin_queued = b.fin_queued /\ t.fin_sent = b.fin_sent /\ t.rto = b.rto
    BY <1>9, ZenonT(60) DEF Tcb
  <1>11. t \in Tcb(e)
    BY <1>4, <1>8, <1>9, ZenonT(60) DEF Tcb
  <1> HIDE DEF t
  <1>12. Typed(t, e)
    BY <1>9, <1>10, <1>11, ZenonT(60) DEF Typed
  <1>13. t.sndq = <<>> /\ ~t.fin_queued /\ ~t.fin_sent
    BY <1>3, <1>10, ZenonT(60) DEF SynOut
  <1>14. Typed(w, e) /\ SameSend(w, t)
    BY <1>12, CwndInit, ZenonT(60)
  <1> HIDE DEF w
  <1>15. CASE "ACK" \in s.flags
    <2>1. /\ w \in Tcb(e) /\ Len(w.sndq) <= TCP_SNDBUF /\ Len(w.rcvq) <= TCP_RCVBUF
          /\ Len(w.ooo) <= TCP_OOO_MAX /\ w.ssthresh >= TCP_MSS
      BY <1>14, ZenonT(60) DEF Typed
    <2>2. /\ est.sndq = w.sndq /\ est.rcvq = w.rcvq /\ est.ooo = w.ooo /\ est.ssthresh = w.ssthresh
          /\ est.state = "ESTABLISHED" /\ est.snd_una = w.snd_una /\ est.snd_nxt = w.snd_nxt
          /\ est.fin_queued = w.fin_queued /\ est.fin_sent = w.fin_sent
      BY <2>1, ZenonT(60) DEF Tcb
    <2>3. est.rto = FALSE
      BY <2>1, ZenonT(60) DEF Tcb
    <2>4. est \in Tcb(e)
      <3>1. "ESTABLISHED" \in TcpStates /\ 0 \in 0..TCP_MAX_RTX
        BY Sizes DEF TcpStates
      <3>2. QED
        BY <1>4, <2>1, <3>1, ZenonT(60) DEF Tcb
    <2> HIDE DEF est
    <2>5. Typed(est, e)
      BY <2>1, <2>2, <2>4, ZenonT(60) DEF Typed
    <2>6. /\ est.snd_una = est.snd_nxt /\ est.sndq = <<>> /\ ~est.fin_queued /\ ~est.fin_sent
          /\ ~est.rto
      BY <1>7, <1>10, <1>13, <1>14, <1>15, <2>2, <2>3, ZenonT(60) DEF SameSend
    <2>7. Going(est)
      BY <2>2, <2>5, <2>6, OpenedGoing, ZenonT(60)
    <2>8. Context(ce, e) /\ SameSend(ce.t, est)
      <3>1. {"ACK"} \in Flags
        BY ZenonT(60) DEF Flags
      <3>2. Context(Ctx(est), e) /\ Ctx(est).t = est
        BY <2>5, CtxOf, Zenon
      <3>3. Context(ce, e) /\ SameSend(ce.t, Ctx(est).t)
        BY <3>1, <3>2, CtlSent, ZenonT(60)
      <3>4. QED
        BY <3>2, <3>3, ZenonT(60)
    <2>9. Commit(e, ce, left)
      BY <1>1, <1>7, <1>10, <1>15, ZenonT(60)
    <2> HIDE DEF ce
    <2>10. Block(ce.t) /\ ce.t.state \notin Opening
      BY <2>7, <2>8, SameGoing, GoingBlock, ZenonT(60)
    <2>11. QED
      BY <1>1, <2>8, <2>9, <2>10, QuietStep, ZenonT(60)
  <1>16. CASE "ACK" \notin s.flags
    <2>1. /\ sim.sndq = t.sndq /\ sim.rcvq = t.rcvq /\ sim.ooo = t.ooo /\ sim.ssthresh = t.ssthresh
          /\ sim.state = "SYN_RCVD" /\ sim.iss = t.iss /\ sim.snd_una = t.snd_una
          /\ sim.snd_nxt = t.snd_nxt
          /\ sim.fin_queued = t.fin_queued /\ sim.fin_sent = t.fin_sent
      BY <1>11, ZenonT(60) DEF Tcb
    <2>2. sim.rto = TRUE
      BY <1>11, ZenonT(60) DEF Tcb
    <2>3. sim \in Tcb(e)
      <3>1. "SYN_RCVD" \in TcpStates
        BY Zenon DEF TcpStates
      <3>2. QED
        BY <1>11, <3>1, ZenonT(60) DEF Tcb
    <2> HIDE DEF sim
    <2>4. Typed(sim, e)
      BY <1>9, <1>10, <2>1, <2>3, ZenonT(60) DEF Typed
    <2>5. sim.state \in Opening /\ sim.state # "CLOSED"
      BY <2>1, ZenonT(60) DEF Opening
    <2>6. Block(sim)
      BY <1>6, <1>7, <1>10, <1>13, <1>16, <2>1, <2>2, <2>4, <2>5, SynBlock, ZenonT(60)
    <2>7. Context(cs, e) /\ SameSend(cs.t, sim)
      <3>1. {"SYN", "ACK"} \in Flags
        BY Zenon DEF Flags
      <3>2. Context(Ctx(sim), e) /\ Ctx(sim).t = sim
        BY <2>4, CtxOf, Zenon
      <3>3. Context(cs, e) /\ SameSend(cs.t, Ctx(sim).t)
        BY <3>1, <3>2, CtlSent, Zenon
      <3>4. QED
        BY <3>2, <3>3, Zenon
    <2>8. Commit(e, cs, left)
      BY <1>1, <1>7, <1>10, <1>16, ZenonT(60)
    <2> HIDE DEF cs
    <2>9. Block(cs.t)
      BY <2>5, <2>6, <2>7, SameBlock, ZenonT(60)
    <2>10. tcb[e].state \in Opening
      BY <1>3, ZenonT(60) DEF b
    <2>11. QED
      BY <1>1, <2>7, <2>8, <2>9, <2>10, QuietStep, ZenonT(60)
  <1>17. QED
    BY <1>15, <1>16, ZenonT(60)

LEMMA InputRejected ==
  ASSUME IInv, NEW e \in Ends, NEW s \in SegTo(e), NEW left \in SUBSET SegTo(e),
         input_rejected(e, s, left)
  PROVE  NetInv' /\ AppInv' /\ EarlyInv'
  <1> DEFINE t == tcb[e]
             ignored == ~acceptable(t, s) /\ "RST" \in s.flags
             a == tcp_send_ctl(Ctx(t), {"ACK"})
             c == IF ignored THEN Ctx(t) ELSE a
  <1>1. Commit(e, c, left) /\ UNCHANGED appVars /\ Synchronised(e)
    BY ZenonT(60) DEF input_rejected
  <1>2. t.state # "CLOSED"
    BY <1>1, ZenonT(60) DEF Synchronised
  <1>3. Typed(t, e)
    BY Zenon DEF IInv, NetInv
  <1>4. Context(Ctx(t), e) /\ Ctx(t).t = t
    BY <1>3, CtxOf, Zenon
  <1>5. Context(a, e) /\ SameSend(a.t, t)
    <2>1. {"ACK"} \in Flags
      BY Zenon DEF Flags
    <2>2. Context(a, e) /\ SameSend(a.t, Ctx(t).t)
      BY <1>4, <2>1, CtlSent, ZenonT(60)
    <2>3. QED
      BY <1>4, <2>2, Zenon
  <1>6. SameSend(Ctx(t).t, t)
    BY <1>4, Zenon DEF SameSend
  <1> HIDE DEF ignored, a
  <1>7. Context(c, e) /\ SameSend(c.t, t)
    BY <1>4, <1>5, <1>6, ZenonT(60)
  <1> HIDE DEF c
  <1>8. QED
    BY <1>1, <1>2, <1>7, SameSendStep, ZenonT(60)

\* ACK, window, text and FIN processing in the order of the code.
LEMMA InputSegment ==
  ASSUME IInv, NEW e \in Ends, NEW s \in SegTo(e), NEW left \in SUBSET SegTo(e),
         input_segment(e, s, left)
  PROVE  NetInv' /\ AppInv' /\ EarlyInv'
  <1> DEFINE t == tcb[e]
             h == Handshaken(t, s)
             c == Ctx(h)
             acked == AckStage(c, s)
             opened == WindowStage(acked, s)
             taken == TextStage(opened, s)
             done == FinStage(taken, s)
  <1>1. /\ Ordinary(e, s)
        /\ t.state = "SYN_RCVD" => HandshakeAck(t, s)
        /\ Commit(e, done, left)
        /\ app' = [app EXCEPT ![e] = IF t.state = "SYN_RCVD" /\ e \notin active
                                     THEN "queued" ELSE @]
        /\ UNCHANGED <<active, opens, err, wrote, got, eof>>
    BY Zenon DEF input_segment
  <1>2. NetInv /\ AppInv /\ EarlyInv
    BY Zenon DEF IInv
  <1>3. Typed(t, e) /\ Block(t)
    BY <1>2, ZenonT(60) DEF NetInv
  <1>4. /\ s.ack \in SeqNums /\ s.seq \in SeqNums /\ s.wnd \in 0..TCP_RCVBUF
        /\ s.data \in Seq(Bytes(Peer(e)))
    BY ZenonT(60) DEF SegTo
  <1>5. t.state \notin {"CLOSED", "SYN_SENT"}
    BY <1>1, ZenonT(60) DEF Ordinary, Synchronised
  <1> HIDE DEF t
  <1>6. Typed(h, e) /\ Going(h) /\ ~seq_gt(s.ack, h.snd_nxt)
    <2>1. CASE t.state = "SYN_RCVD"
      BY <1>1, <1>3, <1>4, <2>1, HandshakeDone, ZenonT(60)
    <2>2. CASE t.state # "SYN_RCVD"
      <3>1. h = t
        BY <2>2, ZenonT(60) DEF Handshaken
      <3>2. Going(t)
        BY <1>3, <1>5, <2>2, BlockGoing, ZenonT(60) DEF Opening
      <3>3. ~seq_gt(s.ack, t.snd_nxt)
        <4>1. ~Challenged(t, s) /\ "RST" \notin s.flags /\ "ACK" \in s.flags
          BY <1>1, ZenonT(60) DEF Ordinary, t
        <4>2. s.flags \cap {"RST", "ACK"} = {"ACK"}
          BY <4>1, ZenonT(60)
        <4>3. QED
          BY <2>2, <4>1, <4>2, ZenonT(60) DEF Challenged
      <3>4. QED
        BY <1>3, <3>1, <3>2, <3>3, ZenonT(60)
    <2>3. QED
      BY <2>1, <2>2, ZenonT(60)
  <1> HIDE DEF h
  <1>7. Context(c, e) /\ c.t = h
    BY <1>6, CtxOf, ZenonT(60)
  <1> HIDE DEF c
  <1>8. Context(acked, e) /\ Going(acked.t)
    <2>1. Going(c.t) /\ ~seq_gt(s.ack, c.t.snd_nxt)
      BY <1>6, <1>7, ZenonT(60)
    <2>2. QED
      BY <1>4, <1>7, <2>1, AckStageFlow, ZenonT(60)
  <1> HIDE DEF acked
  <1>9. Context(opened, e) /\ Going(opened.t)
    BY <1>4, <1>8, WindowStageFlow, ZenonT(60)
  <1> HIDE DEF opened
  <1>10. Context(taken, e) /\ Going(taken.t)
    BY <1>4, <1>9, TextStageFlow, ZenonT(60)
  <1> HIDE DEF taken
  <1>11. Context(done, e) /\ Going(done.t)
    BY <1>10, FinStageFlow, ZenonT(60)
  <1> HIDE DEF done
  <1>12. Block(done.t) /\ done.t.state \notin Opening
    BY <1>11, GoingBlock, ZenonT(60)
  <1>13. NetInv' /\ tcb'[e] = done.t /\ tcb'[Peer(e)] = tcb[Peer(e)]
    BY <1>1, <1>2, <1>11, <1>12, CommitStep, ZenonT(60)
  <1>14. app' \in [Ends -> {"idle", "connecting", "queued", "open", "closed"}] /\ app'[Peer(e)] = app[Peer(e)]
    <2> DEFINE x == IF t.state = "SYN_RCVD" /\ e \notin active THEN "queued" ELSE app[e]
    <2>1. app \in [Ends -> {"idle", "connecting", "queued", "open", "closed"}]
      BY <1>2, ZenonT(60) DEF AppInv
    <2>2. x \in {"idle", "connecting", "queued", "open", "closed"}
      BY <2>1, ZenonT(60)
    <2>3. app' = [app EXCEPT ![e] = x]
      BY <1>1, ZenonT(60)
    <2> HIDE DEF x
    <2>4. QED
      BY <2>1, <2>2, <2>3, PeerIs, ZenonT(60)
  <1>15. AppInv'
    BY <1>1, <1>2, <1>14, ZenonT(60) DEF AppInv
  <1>16. EarlyInv'
    BY <1>2, <1>12, <1>13, <1>14, EarlyStep, ZenonT(60)
  <1>17. QED
    BY <1>13, <1>15, <1>16, ZenonT(60)

\* tcp_input, whatever the segment.
LEMMA InputStep ==
  ASSUME IInv, NEW e \in Ends, NEW s \in SegTo(e), NEW left \in SUBSET SegTo(e),
         tcp_input(e, s, left)
  PROVE  NetInv' /\ AppInv' /\ EarlyInv'
  BY InputClosed, InputListenSyn, InputSynSentOther, InputFreed, InputSynSentSyn, InputRejected,
     InputSegment, ZenonT(60) DEF tcp_input

-----------------------------------------------------------------------------
(* The timers.                                                             *)

\* What the retransmission timer does to the congestion window.
LEMMA RtoCollapse ==
  ASSUME NEW e \in Ends, NEW b, Typed(b, e), in_flight(b) <= TCP_SNDBUF + 1,
         b.rtx_count + 1 <= TCP_MAX_RTX
  PROVE  LET t == [b EXCEPT !.rtx_count = @ + 1]
             u == IF in_flight(t) = 0 THEN t
                  ELSE [t EXCEPT !.ssthresh = Most(in_flight(t) \div 2, 2 * TCP_MSS),
                                 !.cwnd = TCP_MSS, !.dupacks = 0]
         IN  Typed(u, e) /\ SameSend(u, b)
  <1> DEFINE x == b.rtx_count + 1
             t == [b EXCEPT !.rtx_count = x]
             thr == Most(in_flight(t) \div 2, 2 * TCP_MSS)
             v == [t EXCEPT !.ssthresh = thr, !.cwnd = TCP_MSS, !.dupacks = 0]
  <1>1. /\ b.rtx_count \in 0..TCP_MAX_RTX /\ b.cwnd \in TCP_MSS..CwndCap
        /\ b.ssthresh \in TCP_MSS..SsthreshMax /\ b.dupacks \in 0..4
    BY TypedFields, ZenonT(60)
  <1>2. x \in 0..TCP_MAX_RTX
    BY <1>1, Sizes
  <1> HIDE DEF x
  <1>3. t = CongSet(b, b.cwnd, b.ssthresh, b.dupacks, x)
    <2>1. b \in Tcb(e)
      BY ZenonT(60) DEF Typed
    <2>2. QED
      BY <2>1, ZenonT(60) DEF CongSet, Tcb
  <1> HIDE DEF t
  <1>4. Typed(t, e) /\ SameSend(t, b)
    BY <1>1, <1>2, <1>3, CongUpdate, Zenon
  <1>5. in_flight(t) <= TCP_SNDBUF + 1
    BY <1>4, SameFlow, Zenon
  <1>6. thr \in TCP_MSS..SsthreshMax
    BY <1>4, <1>5, Halved, ZenonT(60)
  <1> HIDE DEF thr
  <1>7. t.rtx_count \in 0..TCP_MAX_RTX /\ t \in Tcb(e)
    BY <1>4, TypedFields, ZenonT(60) DEF Typed
  <1>8. v = CongSet(t, TCP_MSS, thr, 0, t.rtx_count)
    BY <1>7, ZenonT(60) DEF CongSet, Tcb
  <1>9. TCP_MSS \in TCP_MSS..CwndCap /\ 0 \in 0..4
    BY Sizes
  <1> HIDE DEF v
  <1>10. Typed(v, e) /\ SameSend(v, t)
    BY <1>4, <1>6, <1>7, <1>8, <1>9, CongUpdate, Zenon
  <1>11. SameSend(v, b)
    BY <1>4, <1>10, SameTrans, ZenonT(60)
  <1>12. Typed(IF in_flight(t) = 0 THEN t ELSE v, e) /\ SameSend(IF in_flight(t) = 0 THEN t ELSE v, b)
    BY <1>4, <1>10, <1>11, ZenonT(60)
  <1>13. QED
    BY <1>12, ZenonT(60) DEF v, thr, t, x

\* What is outstanding is bounded in every state.
LEMMA BlockFlight ==
  ASSUME NEW e \in Ends, NEW t, Typed(t, e), Block(t), t.state # "CLOSED"
  PROVE  in_flight(t) <= TCP_SNDBUF + 1
  <1>1. CASE t.state \in Opening
    <2>1. t.snd_una = t.iss /\ t.snd_nxt = SeqAdd(t.iss, 1)
      BY <1>1, ZenonT(60) DEF Block, SynOut
    <2>2. t.iss \in SeqNums
      BY TypedFields, ZenonT(60)
    <2>3. SeqDiff(SeqAdd(t.iss, 1), t.iss) = 1
      BY <2>2, AckOfSyn, ZenonT(60)
    <2>4. in_flight(t) = 1
      BY <2>1, <2>3, ZenonT(60) DEF in_flight
    <2>5. QED
      BY <2>4, Sizes
  <1>2. CASE t.state \notin Opening
    <2>1. Flow(t)
      BY <1>2, ZenonT(60) DEF Block
    <2>2. QED
      BY <2>1, FlightBound, ZenonT(60)
  <1>3. QED
    BY <1>1, <1>2, ZenonT(60)

LEMMA TickRto ==
  ASSUME IInv, NEW e \in Ends, tick_rto(e)
  PROVE  NetInv' /\ AppInv' /\ EarlyInv'
  <1> DEFINE b == tcb[e]
             t == [b EXCEPT !.rtx_count = @ + 1]
             u == IF in_flight(t) = 0 THEN t
                  ELSE [t EXCEPT !.ssthresh = Most(in_flight(t) \div 2, 2 * TCP_MSS),
                                 !.cwnd = TCP_MSS, !.dupacks = 0]
             c == tcp_retransmit(Ctx(u))
  <1>1. b.rto /\ t.rtx_count <= TCP_MAX_RTX /\ Commit(e, c, net[e]) /\ UNCHANGED appVars
    BY Zenon DEF tick_rto
  <1>2. Typed(b, e) /\ Block(b) /\ net[e] \in SUBSET SegTo(e)
    BY ZenonT(60) DEF IInv, NetInv
  <1>3. b.state # "CLOSED"
    BY <1>1, <1>2 DEF Block, NoTcb
  <1>4. b.rtx_count + 1 <= TCP_MAX_RTX
    <2>1. b \in Tcb(e)
      BY <1>2, ZenonT(60) DEF Typed
    <2> HIDE DEF b
    <2>2. t.rtx_count = b.rtx_count + 1
      BY <2>1, ZenonT(60) DEF Tcb
    <2>3. QED
      BY <1>1, <2>2, ZenonT(60)
  <1>5. in_flight(b) <= TCP_SNDBUF + 1
    BY <1>2, <1>3, BlockFlight, ZenonT(60)
  <1>6. Typed(u, e) /\ SameSend(u, b)
    <2> HIDE DEF b
    <2>1. QED
      BY <1>2, <1>4, <1>5, RtoCollapse, ZenonT(60)
  <1> HIDE DEF u
  <1>7. Context(Ctx(u), e) /\ Ctx(u).t = u
    BY <1>6, CtxOf, ZenonT(60)
  <1>8. Block(u)
    BY <1>2, <1>3, <1>6, SameBlock, ZenonT(60)
  <1>9. u.state = b.state
    BY <1>6, ZenonT(60) DEF SameSend
  <1>10. u.state \notin Opening => Flow(u)
    BY <1>3, <1>8, <1>9, ZenonT(60) DEF Block
  <1>11. Context(c, e) /\ SameSend(c.t, u)
    <2>1. Context(c, e) /\ SameSend(c.t, Ctx(u).t)
      BY <1>7, <1>10, Retransmitted, ZenonT(60)
    <2>2. QED
      BY <1>7, <2>1, ZenonT(60)
  <1> HIDE DEF c
  <1>12. SameSend(c.t, b)
    BY <1>6, <1>11, SameTrans, ZenonT(60)
  <1>13. QED
    BY <1>1, <1>2, <1>3, <1>11, <1>12, SameSendStep, ZenonT(60)

LEMMA TickOther ==
  ASSUME IInv, NEW e \in Ends, tick_timewait(e) \/ tick_rto_abort(e) \/ tick_probe(e) \/ tick_delack(e)
  PROVE  NetInv' /\ AppInv' /\ EarlyInv'
  <1> DEFINE b == tcb[e]
  <1>1. Typed(b, e) /\ Block(b) /\ net[e] \in SUBSET SegTo(e)
    BY Zenon DEF IInv, NetInv
  <1>2. Context(Ctx(b), e) /\ Ctx(b).t = b
    BY <1>1, CtxOf, ZenonT(60)
  <1>3. {"ACK"} \in Flags /\ {"RST", "ACK"} \in Flags
    BY ZenonT(60) DEF Flags
  <1>4. CASE tick_timewait(e)
    <2>1. Freed(e, {}, "none", net[e])
      BY <1>4, ZenonT(60) DEF tick_timewait
    <2>2. {} \in SUBSET OutSeg(e) /\ "none" \in {"none", "RESET", "REFUSED", "TIMEDOUT"}
      BY ZenonT(60)
    <2>3. QED
      BY <1>1, <2>1, <2>2, FreedStep, ZenonT(60)
  <1>5. CASE tick_rto_abort(e)
    <2> DEFINE o == tcp_send_ctl(Ctx(b), {"RST", "ACK"}).out
    <2>1. Freed(e, o, "TIMEDOUT", net[e])
      BY <1>5, Zenon DEF tick_rto_abort
    <2>2. Context(tcp_send_ctl(Ctx(b), {"RST", "ACK"}), e)
      BY <1>2, <1>3, CtlSent, ZenonT(60)
    <2>3. o \in SUBSET OutSeg(e)
      BY <2>2, ZenonT(60) DEF Context
    <2>4. "TIMEDOUT" \in {"none", "RESET", "REFUSED", "TIMEDOUT"}
      BY ZenonT(60)
    <2> HIDE DEF o
    <2>5. QED
      BY <1>1, <2>1, <2>3, <2>4, FreedStep, ZenonT(60)
  <1>6. CASE tick_probe(e)
    <2> DEFINE c == [tcp_send_probe(Ctx(b)) EXCEPT !.t.rto = TRUE]
    <2>1. ProbeDue(b) /\ Commit(e, c, net[e]) /\ UNCHANGED appVars
      BY <1>6, ZenonT(60) DEF tick_probe
    <2>2. b.state \in SendStates
      BY <2>1, ZenonT(60) DEF ProbeDue
    <2>3. b.state # "CLOSED" /\ b.state \notin Opening
      BY <2>2, ZenonT(60) DEF SendStates, Opening
    <2>4. Going(b)
      BY <1>1, <2>3, BlockGoing, ZenonT(60)
    <2>5. Flow(b) /\ b.state \notin {"CLOSED"} \cup Opening
      BY <2>4, ZenonT(60) DEF Going
    <2>6. Context(c, e) /\ Flow(c.t) /\ NoStall(c.t) /\ c.t.state = b.state
      <3>1. Flow(Ctx(b).t) /\ ProbeDue(Ctx(b).t)
        BY <1>2, <2>1, <2>5, ZenonT(60)
      <3>2. Context(c, e) /\ Flow(c.t) /\ NoStall(c.t) /\ c.t.state = Ctx(b).t.state
        BY <1>2, <3>1, ProbeSent, ZenonT(60)
      <3>3. QED
        BY <1>2, <3>2, ZenonT(60)
    <2> HIDE DEF c
    <2>7. Going(c.t)
      BY <2>5, <2>6, Zenon DEF Going
    <2>8. Block(c.t) /\ c.t.state \notin Opening
      BY <2>7, GoingBlock, ZenonT(60)
    <2>9. QED
      BY <1>1, <2>1, <2>6, <2>8, QuietStep, ZenonT(60)
  <1>7. CASE tick_delack(e)
    <2> DEFINE c == tcp_send_ctl(Ctx(b), {"ACK"})
    <2>1. b.delack /\ Commit(e, c, net[e]) /\ UNCHANGED appVars
      BY <1>7, ZenonT(60) DEF tick_delack
    <2>2. b.state # "CLOSED"
      <3>1. ~NoTcb.delack
        BY ZenonT(60) DEF NoTcb
      <3>2. QED
        BY <1>1, <2>1, <3>1, Zenon DEF Block
    <2>3. Context(c, e) /\ SameSend(c.t, b)
      <3>1. Context(c, e) /\ SameSend(c.t, Ctx(b).t)
        BY <1>2, <1>3, CtlSent, ZenonT(60)
      <3>2. QED
        BY <1>2, <3>1, ZenonT(60)
    <2> HIDE DEF c
    <2>4. QED
      BY <1>1, <2>1, <2>2, <2>3, SameSendStep, ZenonT(60)
  <1>8. QED
    BY <1>4, <1>5, <1>6, <1>7, ZenonT(60)

-----------------------------------------------------------------------------
(* The socket calls and the network.                                       *)

LEMMA NetSame == ASSUME NetInv, UNCHANGED <<tcb, net>> PROVE NetInv'
  BY ZenonT(60) DEF NetInv

\* Calls that only move the application on.
LEMMA CallsOnly ==
  ASSUME IInv, NEW e \in Ends, connect_return(e) \/ pf_accept(e) \/ recv_eof(e)
  PROVE  NetInv' /\ AppInv' /\ EarlyInv'
  <1>1. NetInv /\ AppInv /\ EarlyInv
    BY ZenonT(60) DEF IInv
  <1>2. UNCHANGED <<tcb, net>>
    BY ZenonT(60) DEF connect_return, pf_accept, recv_eof
  <1>3. NetInv'
    BY <1>1, <1>2, NetSame, ZenonT(60)
  <1>4. CASE connect_return(e)
    <2>1. AppInv'
      BY <1>1, <1>4, ZenonT(60) DEF AppInv, connect_return
    <2>2. app'[Peer(e)] = app[Peer(e)]
      BY <1>1, <1>4, PeerIs, ZenonT(60) DEF AppInv, connect_return
    <2>3. tcb'[e].state \notin Opening
      BY <1>2, <1>4, ZenonT(60) DEF connect_return, Opening
    <2>4. EarlyInv'
      BY <1>1, <1>2, <2>2, <2>3, EarlyStep, ZenonT(60)
    <2>5. QED
      BY <1>3, <2>1, <2>4, ZenonT(60)
  <1>5. CASE pf_accept(e)
    <2>1. AppInv'
      BY <1>1, <1>5, ZenonT(60) DEF AppInv, pf_accept
    <2>2. app'[Peer(e)] = app[Peer(e)]
      BY <1>1, <1>5, PeerIs, ZenonT(60) DEF AppInv, pf_accept
    <2>3. tcb'[e].state \notin Opening
      BY <1>1, <1>2, <1>5, ZenonT(60) DEF pf_accept, EarlyInv
    <2>4. EarlyInv'
      BY <1>1, <1>2, <2>2, <2>3, EarlyStep, Zenon
    <2>5. QED
      BY <1>3, <2>1, <2>4, Zenon
  <1>6. CASE recv_eof(e)
    <2>1. eof' = [eof EXCEPT ![e] = TRUE] /\ UNCHANGED <<active, tcb, net, opens, app, err, wrote, got>>
      BY <1>6, ZenonT(60) DEF recv_eof
    <2>2. eof' \in [Ends -> BOOLEAN]
      BY <1>1, <2>1, ZenonT(60) DEF AppInv
    <2>3. AppInv'
      BY <1>1, <2>1, <2>2, ZenonT(60) DEF AppInv
    <2>4. EarlyInv'
      BY <1>1, <2>1, ZenonT(60) DEF EarlyInv
    <2>5. QED
      BY <1>3, <2>3, <2>4, Zenon
  <1>7. QED
    BY <1>4, <1>5, <1>6, ZenonT(60)

LEMMA Connect ==
  ASSUME IInv, NEW e \in Ends, pf_connect(e)
  PROVE  NetInv' /\ AppInv' /\ EarlyInv'
  <1> DEFINE iss == tcp_gen_iss(e)
             m == SeqAdd(iss, 1)
             t == [NoTcb EXCEPT !.iss = iss, !.snd_una = iss, !.snd_nxt = m,
                                !.state = "SYN_SENT", !.rto = TRUE]
             c == tcp_send_ctl(Ctx(t), {"SYN"})
  <1>1. NetInv /\ AppInv /\ EarlyInv
    BY ZenonT(60) DEF IInv
  <1>2. Commit(e, c, net[e])
    BY Zenon DEF pf_connect
  <1>3. iss \in SeqNums /\ net[e] \in SUBSET SegTo(e)
    BY <1>1, IssIs, ZenonT(60) DEF NetInv
  <1>4. m \in SeqNums
    <2>1. 1 \in Nat
      BY ZenonT(60)
    <2>2. QED
      BY <1>3, <2>1, AddNat, ZenonT(60)
  <1>5. Typed(NoTcb, e) /\ NoTcb \in Tcb(e)
    BY BlankBlock, ZenonT(60) DEF Typed
  <1>6. m = SeqAdd(iss, 1)
    BY ZenonT(60)
  <1> HIDE DEF iss, m
  <1>7. /\ t.sndq = <<>> /\ t.rcvq = <<>> /\ t.ooo = <<>> /\ t.ssthresh = NoTcb.ssthresh
        /\ t.state = "SYN_SENT" /\ t.iss = iss /\ t.snd_una = iss /\ t.snd_nxt = m
    BY ZenonT(60) DEF NoTcb
  <1>8. t.rto = TRUE /\ t.fin_queued = FALSE /\ t.fin_sent = FALSE
    BY Zenon DEF NoTcb
  <1>9. t \in Tcb(e)
    <2>1. "SYN_SENT" \in TcpStates
      BY ZenonT(60) DEF TcpStates
    <2>2. QED
      BY <1>3, <1>4, <1>5, <2>1, ZenonT(60) DEF Tcb
  <1> HIDE DEF t
  <1>10. Typed(t, e)
    BY <1>5, <1>7, <1>9, Sizes DEF Typed
  <1>11. Block(t)
    <2>1. t.state \in Opening
      BY <1>7, ZenonT(60) DEF Opening
    <2>2. QED
      BY <1>6, <1>7, <1>8, <1>10, <2>1, SynBlock, ZenonT(60)
  <1>12. Context(c, e) /\ SameSend(c.t, t)
    <2>1. {"SYN"} \in Flags
      BY ZenonT(60) DEF Flags
    <2>2. Context(Ctx(t), e) /\ Ctx(t).t = t
      BY <1>10, CtxOf, Zenon
    <2>3. Context(c, e) /\ SameSend(c.t, Ctx(t).t)
      BY <2>1, <2>2, CtlSent, ZenonT(60)
    <2>4. QED
      BY <2>2, <2>3, ZenonT(60)
  <1> HIDE DEF c
  <1>13. Block(c.t)
    <2>1. t.state # "CLOSED"
      BY <1>7, ZenonT(60)
    <2>2. QED
      BY <1>11, <1>12, <2>1, SameBlock, ZenonT(60)
  <1>14. NetInv' /\ tcb'[e] = c.t /\ tcb'[Peer(e)] = tcb[Peer(e)]
    BY <1>1, <1>2, <1>3, <1>12, <1>13, CommitStep, ZenonT(60)
  <1>15. AppInv' /\ app'[Peer(e)] = app[Peer(e)] /\ app'[e] = "connecting"
    <2>1. /\ opens' = [opens EXCEPT ![e] = @ + 1] /\ opens[e] < MaxOpens
          /\ app' = [app EXCEPT ![e] = "connecting"]
          /\ err' = [err EXCEPT ![e] = "none"]
          /\ UNCHANGED <<active, wrote, got, eof>>
      BY Zenon DEF pf_connect
    <2>2. /\ opens \in [Ends -> 0..MaxOpens]
          /\ app \in [Ends -> {"idle", "connecting", "queued", "open", "closed"}]
          /\ err \in [Ends -> {"none", "RESET", "REFUSED", "TIMEDOUT"}]
      BY <1>1, ZenonT(60) DEF AppInv
    <2>3. opens' \in [Ends -> 0..MaxOpens]
      <3>1. opens[e] \in 0..MaxOpens /\ MaxOpens \in Nat
        BY <2>2, ConnConstants, ZenonT(60)
      <3>2. opens[e] + 1 \in 0..MaxOpens
        BY <2>1, <3>1
      <3>3. QED
        BY <2>1, <2>2, <3>2, ZenonT(60)
    <2>4. app' \in [Ends -> {"idle", "connecting", "queued", "open", "closed"}]
      BY <2>1, <2>2, ZenonT(60)
    <2>5. err' \in [Ends -> {"none", "RESET", "REFUSED", "TIMEDOUT"}]
      BY <2>1, <2>2, ZenonT(60)
    <2>6. app'[Peer(e)] = app[Peer(e)] /\ app'[e] = "connecting"
      BY <2>1, <2>2, PeerIs, ZenonT(60)
    <2>7. QED
      BY <1>1, <2>1, <2>3, <2>4, <2>5, <2>6, ZenonT(60) DEF AppInv
  <1>16. EarlyInv'
    BY <1>1, <1>14, <1>15, EarlyStep, ZenonT(60)
  <1>17. QED
    BY <1>14, <1>15, <1>16, ZenonT(60)

LEMMA ConnectTimeout ==
  ASSUME IInv, NEW e \in Ends, connect_timeout(e)
  PROVE  NetInv' /\ AppInv' /\ EarlyInv'
  <1> DEFINE a == tcp_send_ctl(Ctx(tcb[e]), {"RST", "ACK"})
             o == IF tcb[e].state = "SYN_SENT" THEN {} ELSE a.out
             c == [t |-> NoTcb, out |-> o]
  <1>1. NetInv /\ AppInv /\ EarlyInv
    BY Zenon DEF IInv
  <1>2. Typed(tcb[e], e) /\ net[e] \in SUBSET SegTo(e)
    BY <1>1, Zenon DEF NetInv
  <1>3. /\ Commit(e, c, net[e])
        /\ app' = [app EXCEPT ![e] = "closed"]
        /\ err' = [err EXCEPT ![e] = "none"]
        /\ UNCHANGED <<active, opens, wrote, got, eof>>
    BY Zenon DEF connect_timeout
  <1>4. Context(a, e)
    <2>1. {"RST", "ACK"} \in Flags
      BY ZenonT(60) DEF Flags
    <2>2. Context(Ctx(tcb[e]), e)
      BY <1>2, CtxOf, ZenonT(60)
    <2>3. QED
      BY <2>1, <2>2, CtlSent, ZenonT(60)
  <1> HIDE DEF a
  <1>5. o \subseteq OutSeg(e)
    BY <1>4, ZenonT(60) DEF Context
  <1> HIDE DEF o
  <1>6. Typed(NoTcb, e) /\ Block(NoTcb) /\ NoTcb.state = "CLOSED"
    BY BlankBlock, ZenonT(60)
  <1>7. Context(c, e) /\ c.t = NoTcb
    BY <1>5, <1>6, ZenonT(60) DEF Context
  <1> HIDE DEF c
  <1>8. NetInv' /\ tcb'[e] = NoTcb /\ tcb'[Peer(e)] = tcb[Peer(e)]
    BY <1>1, <1>2, <1>3, <1>6, <1>7, CommitStep, ZenonT(60)
  <1>9. AppInv' /\ app'[Peer(e)] = app[Peer(e)]
    BY <1>1, <1>3, PeerIs, ZenonT(60) DEF AppInv
  <1>10. tcb'[e].state \notin Opening
    BY <1>6, <1>8, ZenonT(60) DEF Opening
  <1>11. EarlyInv'
    BY <1>1, <1>8, <1>9, <1>10, EarlyStep, ZenonT(60)
  <1>12. QED
    BY <1>8, <1>9, <1>11, ZenonT(60)

\* A connection in the hands of an application is past the handshake.
LEMMA OpenGoing ==
  ASSUME IInv, NEW e \in Ends, app[e] = "open", tcb[e].state # "CLOSED"
  PROVE  Typed(tcb[e], e) /\ Going(tcb[e]) /\ tcb[e].state \notin Opening
  <1>1. Typed(tcb[e], e) /\ Block(tcb[e])
    BY ZenonT(60) DEF IInv, NetInv
  <1>2. tcb[e].state \notin Opening
    BY ZenonT(60) DEF IInv, EarlyInv
  <1>3. QED
    BY <1>1, <1>2, BlockGoing, ZenonT(60)

\* Bytes that the application adds to the ring.
LEMMA Written ==
  ASSUME NEW e \in Ends, NEW w \in Nat, NEW n \in Nat, w + n <= MaxBytes[e]
  PROVE  [k \in 1..n |-> w + k] \in Seq(Bytes(e)) /\ Len([k \in 1..n |-> w + k]) = n
  <1>1. MaxBytes[e] \in Nat
    BY ConnConstants, ZenonT(60)
  <1>2. \A k \in 1..n : w + k \in Bytes(e)
    BY <1>1 DEF Bytes
  <1> HIDE DEF Bytes
  <1>3. QED
    BY <1>2

\* A longer ring keeps the flow as long as no FIN is queued.
LEMMA RingAdd ==
  ASSUME NEW e \in Ends, NEW t, Typed(t, e), Flow(t), t.state \in {"ESTABLISHED", "CLOSE_WAIT"},
         NEW d \in Seq(Bytes(e)), Len(d) <= TCP_SNDBUF - Len(t.sndq)
  PROVE  LET u == [t EXCEPT !.sndq = @ \o d]
         IN  Typed(u, e) /\ Flow(u) /\ u.state = t.state
  <1> DEFINE q == t.sndq \o d
             u == [t EXCEPT !.sndq = q]
  <1>1. t.sndq \in Seq(Bytes(e)) /\ Len(t.sndq) \in Nat /\ Len(d) \in Nat /\ in_flight(t) \in Nat
    <2>1. Len(d) \in Nat
      OBVIOUS
    <2>2. QED
      BY <2>1, TypedFields, ZenonT(60)
  <1>2. q \in Seq(Bytes(e)) /\ Len(q) = Len(t.sndq) + Len(d)
    BY <1>1, SeqConcat, ZenonT(60)
  <1> HIDE DEF q
  <1>3. Len(q) <= TCP_SNDBUF /\ Len(q) >= Len(t.sndq) /\ Len(q) \in Nat
    <2> DEFINE x == Len(t.sndq)
               y == Len(d)
               z == Len(q)
    <2>1. x \in Nat /\ y \in Nat /\ z = x + y /\ y <= TCP_SNDBUF - x
      BY <1>1, <1>2, ZenonT(60)
    <2> HIDE DEF x, y, z
    <2>2. z <= TCP_SNDBUF /\ z >= x /\ z \in Nat
      BY <2>1, Sizes
    <2>3. QED
      BY <2>2, ZenonT(60) DEF x, z
  <1>4. /\ t \in Tcb(e) /\ Len(t.rcvq) <= TCP_RCVBUF /\ Len(t.ooo) <= TCP_OOO_MAX
        /\ t.ssthresh >= TCP_MSS
    BY ZenonT(60) DEF Typed
  <1>5. /\ u.sndq = q /\ u.rcvq = t.rcvq /\ u.ooo = t.ooo /\ u.ssthresh = t.ssthresh
        /\ u.state = t.state /\ u.snd_una = t.snd_una /\ u.snd_nxt = t.snd_nxt
        /\ u.fin_queued = t.fin_queued /\ u.fin_sent = t.fin_sent /\ u.rto = t.rto
    BY <1>4, ZenonT(60) DEF Tcb
  <1>6. u \in Tcb(e)
    BY <1>2, <1>4, ZenonT(60) DEF Tcb
  <1> HIDE DEF u
  <1>7. Typed(u, e)
    BY <1>3, <1>4, <1>5, <1>6, ZenonT(60) DEF Typed
  <1>8. in_flight(u) = in_flight(t)
    BY <1>5, ZenonT(60) DEF in_flight
  <1>9. ~t.fin_queued /\ ~t.fin_sent /\ in_flight(t) <= Len(t.sndq) /\ (t.rto <=> t.snd_una # t.snd_nxt)
    BY ZenonT(60) DEF Flow
  <1>10. in_flight(u) <= Len(u.sndq)
    <2> DEFINE f == in_flight(t)
               x == Len(t.sndq)
               z == Len(q)
    <2>1. f \in Nat /\ x \in Nat /\ z \in Nat /\ f <= x /\ x <= z
      BY <1>1, <1>3, <1>9, ZenonT(60)
    <2> HIDE DEF f, x, z
    <2>2. f <= z
      BY <2>1
    <2>3. QED
      BY <1>5, <1>8, <2>2, ZenonT(60) DEF f, z
  <1>11. u.state \notin {"FIN_WAIT_2", "TIME_WAIT"}
    BY <1>5, ZenonT(60)
  <1>12. Flow(u)
    BY <1>5, <1>9, <1>10, <1>11, ZenonT(60) DEF Flow
  <1>13. QED
    BY <1>5, <1>7, <1>12, ZenonT(60) DEF u, q

LEMMA Send ==
  ASSUME IInv, NEW e \in Ends, NEW n \in 1..TCP_SNDBUF, pf_send(e, n)
  PROVE  NetInv' /\ AppInv' /\ EarlyInv'
  <1> DEFINE t == tcb[e]
             bytes == [k \in 1..n |-> wrote[e] + k]
             u == [t EXCEPT !.sndq = @ \o bytes]
             c == tcp_output(Ctx(u))
  <1>1. /\ app[e] = "open"
        /\ t.state \in {"ESTABLISHED", "CLOSE_WAIT"}
        /\ n <= TCP_SNDBUF - Len(t.sndq)
        /\ wrote[e] + n <= MaxBytes[e]
        /\ Commit(e, c, net[e])
        /\ wrote' = [wrote EXCEPT ![e] = @ + n]
        /\ UNCHANGED <<active, opens, app, err, got, eof>>
    BY Zenon DEF pf_send
  <1>2. NetInv /\ AppInv /\ EarlyInv
    BY ZenonT(60) DEF IInv
  <1>3. t.state # "CLOSED"
    BY <1>1, ZenonT(60)
  <1>4. Typed(t, e) /\ Going(t)
    BY <1>1, <1>3, OpenGoing, ZenonT(60)
  <1>5. Flow(t) /\ t.state \notin {"CLOSED"} \cup Opening /\ net[e] \in SUBSET SegTo(e)
    BY <1>2, <1>4, ZenonT(60) DEF Going, NetInv
  <1>6. n \in Nat /\ wrote[e] \in Nat
    BY <1>2, Sizes DEF AppInv
  <1>7. bytes \in Seq(Bytes(e)) /\ Len(bytes) = n
    BY <1>1, <1>6, Written, ZenonT(60)
  <1> HIDE DEF bytes, t
  <1>8. Len(bytes) <= TCP_SNDBUF - Len(t.sndq)
    BY <1>1, <1>7, ZenonT(60)
  <1>9. Typed(u, e) /\ Flow(u) /\ u.state = t.state
    BY <1>1, <1>4, <1>5, <1>7, <1>8, RingAdd, ZenonT(60)
  <1> HIDE DEF u
  <1>10. Context(Ctx(u), e) /\ Ctx(u).t = u
    BY <1>9, CtxOf, ZenonT(60)
  <1>11. Context(c, e) /\ Flow(c.t) /\ NoStall(c.t) /\ c.t.state = u.state
    <2>1. Flow(Ctx(u).t)
      BY <1>9, <1>10, ZenonT(60)
    <2>2. Context(c, e) /\ Flow(c.t) /\ NoStall(c.t) /\ c.t.state = Ctx(u).t.state
      BY <1>10, <2>1, Output, ZenonT(60)
    <2>3. QED
      BY <1>10, <2>2, ZenonT(60)
  <1> HIDE DEF c
  <1>12. Going(c.t)
    BY <1>5, <1>9, <1>11, ZenonT(60) DEF Going
  <1>13. Block(c.t) /\ c.t.state \notin Opening
    BY <1>12, GoingBlock, ZenonT(60)
  <1>14. NetInv' /\ tcb'[e] = c.t /\ tcb'[Peer(e)] = tcb[Peer(e)]
    BY <1>1, <1>2, <1>5, <1>11, <1>13, CommitStep, ZenonT(60)
  <1>15. AppInv' /\ app' = app
    <2>1. wrote' \in [Ends -> Nat]
      BY <1>1, <1>2, <1>6 DEF AppInv
    <2>2. QED
      BY <1>1, <1>2, <2>1, ZenonT(60) DEF AppInv
  <1>16. EarlyInv'
    BY <1>2, <1>13, <1>14, <1>15, EarlyStep, ZenonT(60)
  <1>17. QED
    BY <1>14, <1>15, <1>16, ZenonT(60)

\* Reading from the ring leaves the send side alone.
LEMMA RingTake ==
  ASSUME NEW e \in Ends, NEW t, Typed(t, e), NEW n \in Nat
  PROVE  LET u == [t EXCEPT !.rcvq = SubSeq(@, n + 1, Len(@))]
         IN  Typed(u, e) /\ SameSend(u, t)
  <1> DEFINE q == SubSeq(t.rcvq, n + 1, Len(t.rcvq))
             u == [t EXCEPT !.rcvq = q]
  <1>1. t.rcvq \in Seq(Bytes(Peer(e))) /\ Len(t.rcvq) \in Nat /\ Len(t.rcvq) <= TCP_RCVBUF
    BY TypedFields, ZenonT(60)
  <1> DEFINE m == n + 1
  <1>2. m \in Int /\ m >= 1
    OBVIOUS
  <1> HIDE DEF m
  <1>3. SubSeq(t.rcvq, m, Len(t.rcvq)) \in Seq(Bytes(Peer(e))) /\ Len(SubSeq(t.rcvq, m, Len(t.rcvq))) <= TCP_RCVBUF
    <2>1. SubSeq(t.rcvq, m, Len(t.rcvq)) \in Seq(Bytes(Peer(e))) /\ Len(SubSeq(t.rcvq, m, Len(t.rcvq))) = IF m <= Len(t.rcvq) THEN Len(t.rcvq) - m + 1 ELSE 0
      BY <1>1, <1>2, SeqPart, SMT
    <2>2. QED
      BY <1>1, <1>2, <2>1, Sizes
  <1>4. q \in Seq(Bytes(Peer(e))) /\ Len(q) <= TCP_RCVBUF
    BY <1>3, Zenon DEF m
  <1> HIDE DEF q
  <1>5. /\ t \in Tcb(e) /\ Len(t.sndq) <= TCP_SNDBUF /\ Len(t.ooo) <= TCP_OOO_MAX
        /\ t.ssthresh >= TCP_MSS
    BY Zenon DEF Typed
  <1>6. SameSend(u, t) /\ u.sndq = t.sndq /\ u.rcvq = q /\ u.ooo = t.ooo /\ u.ssthresh = t.ssthresh
    BY <1>5, Zenon DEF Tcb, SameSend
  <1>7. u \in Tcb(e)
    BY <1>4, <1>5, ZenonT(60) DEF Tcb
  <1> HIDE DEF u
  <1>8. Typed(u, e)
    BY <1>4, <1>5, <1>6, <1>7, ZenonT(60) DEF Typed
  <1>9. QED
    BY <1>6, <1>8, ZenonT(60) DEF u, q

LEMMA Recv ==
  ASSUME IInv, NEW e \in Ends, NEW n \in 1..TCP_RCVBUF, pf_recv(e, n)
  PROVE  NetInv' /\ AppInv' /\ EarlyInv'
  <1> DEFINE t == tcb[e]
             u == [t EXCEPT !.rcvq = SubSeq(@, n + 1, Len(@))]
             reopen == t.rcv_wnd_advertised = 0 /\ tcp_rcv_window(u) >= TCP_MSS
             a == tcp_send_ctl(Ctx(u), {"ACK"})
             c == IF reopen THEN a ELSE Ctx(u)
  <1>1. /\ app[e] = "open"
        /\ n <= Len(t.rcvq)
        /\ Commit(e, c, net[e])
        /\ got' = [got EXCEPT ![e] = @ \o SubSeq(t.rcvq, 1, n)]
        /\ UNCHANGED <<active, opens, app, err, wrote, eof>>
    BY Zenon DEF pf_recv
  <1>2. NetInv /\ AppInv /\ EarlyInv
    BY Zenon DEF IInv
  <1>3. Typed(t, e) /\ Block(t) /\ net[e] \in SUBSET SegTo(e)
    BY <1>2, ZenonT(60) DEF NetInv
  <1>4. n \in Nat /\ n >= 1 /\ n \in Int
    BY Sizes
  <1>5. t.state # "CLOSED"
    <2>1. t.state = "CLOSED" => t.rcvq = <<>>
      <3>1. NoTcb.rcvq = <<>>
        BY ZenonT(60) DEF NoTcb
      <3>2. t.state = "CLOSED" => t = NoTcb
        BY <1>3, ZenonT(60) DEF Block
      <3>3. QED
        BY <3>1, <3>2, ZenonT(60)
    <2>2. t.rcvq # <<>>
      <3>1. Len(<<>>) = 0
        BY ZenonT(60)
      <3>2. SUFFICES ASSUME t.rcvq = <<>> PROVE FALSE
        BY ZenonT(60)
      <3>3. Len(t.rcvq) = 0
        BY <3>1, <3>2, ZenonT(60)
      <3>4. QED
        BY <1>1, <1>4, <3>3
    <2>3. QED
      BY <2>1, <2>2, ZenonT(60)
  <1>6. Going(t)
    BY <1>1, <1>5, OpenGoing, ZenonT(60)
  <1>7. t.rcvq \in Seq(Bytes(Peer(e)))
    BY <1>3, TypedFields, ZenonT(60)
  <1> HIDE DEF t
  <1>8. Typed(u, e) /\ SameSend(u, t)
    BY <1>3, <1>4, RingTake, ZenonT(60)
  <1> HIDE DEF u, reopen
  <1>9. Context(Ctx(u), e) /\ Ctx(u).t = u
    BY <1>8, CtxOf, ZenonT(60)
  <1>10. Context(a, e) /\ SameSend(a.t, u)
    <2>1. {"ACK"} \in Flags
      BY ZenonT(60) DEF Flags
    <2>2. Context(a, e) /\ SameSend(a.t, Ctx(u).t)
      BY <1>9, <2>1, CtlSent, ZenonT(60)
    <2>3. QED
      BY <1>9, <2>2, ZenonT(60)
  <1> HIDE DEF a
  <1>11. Context(c, e) /\ SameSend(c.t, t)
    <2>1. SameSend(a.t, t)
      BY <1>8, <1>10, SameTrans, ZenonT(60)
    <2>2. SameSend(Ctx(u).t, t)
      BY <1>8, <1>9, ZenonT(60)
    <2>3. QED
      BY <1>9, <1>10, <2>1, <2>2, ZenonT(60)
  <1> HIDE DEF c
  <1>12. Block(c.t) /\ c.t.state \notin Opening
    BY <1>6, <1>11, SameGoing, GoingBlock, ZenonT(60)
  <1>13. NetInv' /\ tcb'[e] = c.t /\ tcb'[Peer(e)] = tcb[Peer(e)]
    BY <1>1, <1>2, <1>3, <1>11, <1>12, CommitStep, ZenonT(60)
  <1>14. AppInv' /\ app' = app
    <2> DEFINE d == SubSeq(t.rcvq, 1, n)
               g == got[e] \o d
    <2>1. got \in [Ends -> Seq(Nat)] /\ \A f \in Ends : got[f] \in Seq(Bytes(Peer(f)))
      BY <1>2, ZenonT(60) DEF AppInv
    <2>2. d \in Seq(Bytes(Peer(e)))
      <3>1. 1 \in Int /\ 1 >= 1
        OBVIOUS
      <3>2. QED
        BY <1>1, <1>4, <1>7, <3>1, SeqPart, ZenonT(60)
    <2> HIDE DEF d
    <2>3. g \in Seq(Bytes(Peer(e)))
      BY <2>1, <2>2, SeqConcat, ZenonT(60)
    <2>4. g \in Seq(Nat)
      <3>1. Peer(e) \in Ends
        BY PeerIs, ZenonT(60)
      <3>2. Bytes(Peer(e)) \subseteq Nat
        BY <3>1, ConnConstants DEF Bytes
      <3> HIDE DEF g
      <3>3. QED
        BY <2>3, <3>2
    <2>5. got' = [got EXCEPT ![e] = g]
      BY <1>1, Zenon DEF d
    <2> HIDE DEF g
    <2>6. got' \in [Ends -> Seq(Nat)]
      BY <2>1, <2>4, <2>5, ZenonT(60)
    <2>7. ASSUME NEW f \in Ends PROVE got'[f] \in Seq(Bytes(Peer(f)))
      <3>1. got'[f] = IF f = e THEN g ELSE got[f]
        BY <2>1, <2>5, ZenonT(60)
      <3>2. QED
        BY <2>1, <2>3, <3>1, ZenonT(60)
    <2>8. QED
      BY <1>1, <1>2, <2>6, <2>7, ZenonT(60) DEF AppInv
  <1>15. EarlyInv'
    BY <1>2, <1>12, <1>13, <1>14, EarlyStep, Zenon
  <1>16. QED
    BY <1>13, <1>14, <1>15, Zenon

\* Closing queues the FIN.
LEMMA FinQueued ==
  ASSUME NEW e \in Ends, NEW t, Typed(t, e), Flow(t), t.state \in {"ESTABLISHED", "CLOSE_WAIT"}
  PROVE  LET u == [t EXCEPT !.state = CloseState[@], !.fin_queued = TRUE]
         IN  Typed(u, e) /\ Flow(u) /\ u.state \notin {"CLOSED"} \cup Opening
  <1> DEFINE x == CloseState[t.state]
             u == [t EXCEPT !.state = x, !.fin_queued = TRUE]
  <1>1. x \in {"FIN_WAIT_1", "LAST_ACK"}
    BY DEF CloseState
  <1> HIDE DEF x
  <1>2. /\ t \in Tcb(e) /\ Len(t.sndq) <= TCP_SNDBUF /\ Len(t.rcvq) <= TCP_RCVBUF
        /\ Len(t.ooo) <= TCP_OOO_MAX /\ t.ssthresh >= TCP_MSS
    BY ZenonT(60) DEF Typed
  <1>3. /\ u.sndq = t.sndq /\ u.rcvq = t.rcvq /\ u.ooo = t.ooo /\ u.ssthresh = t.ssthresh
        /\ u.state = x /\ u.snd_una = t.snd_una /\ u.snd_nxt = t.snd_nxt
        /\ u.fin_sent = t.fin_sent /\ u.rto = t.rto
    BY <1>2, ZenonT(60) DEF Tcb
  <1>4. x \in TcpStates
    BY <1>1, ZenonT(60) DEF TcpStates
  <1>5. u \in Tcb(e)
    BY <1>2, <1>4, ZenonT(60) DEF Tcb
  <1> HIDE DEF u
  <1>6. Typed(u, e)
    BY <1>2, <1>3, <1>5, ZenonT(60) DEF Typed
  <1>7. in_flight(u) = in_flight(t)
    BY <1>3, ZenonT(60) DEF in_flight
  <1>8. ~t.fin_sent /\ in_flight(t) <= Len(t.sndq) /\ (t.rto <=> t.snd_una # t.snd_nxt)
    BY ZenonT(60) DEF Flow
  <1>9. /\ u.state \notin {"FIN_WAIT_2", "TIME_WAIT"} /\ u.state \notin {"ESTABLISHED", "CLOSE_WAIT"}
        /\ u.state \notin {"CLOSED"} \cup Opening
    BY <1>1, <1>3, ZenonT(60) DEF Opening
  <1>10. Flow(u)
    BY <1>3, <1>7, <1>8, <1>9, ZenonT(60) DEF Flow
  <1>11. QED
    BY <1>6, <1>9, <1>10, ZenonT(60) DEF u, x

LEMMA Close ==
  ASSUME IInv, NEW e \in Ends, pf_close(e)
  PROVE  NetInv' /\ AppInv' /\ EarlyInv'
  <1> DEFINE t == tcb[e]
             u == [t EXCEPT !.state = CloseState[@], !.fin_queued = TRUE]
             o == tcp_output(Ctx(u))
             c == IF t.state \in DOMAIN CloseState THEN o ELSE Ctx(t)
  <1>1. /\ app[e] = "open"
        /\ Commit(e, c, net[e])
        /\ app' = [app EXCEPT ![e] = "closed"]
        /\ UNCHANGED <<active, opens, err, wrote, got, eof>>
    BY Zenon DEF pf_close
  <1>2. NetInv /\ AppInv /\ EarlyInv
    BY Zenon DEF IInv
  <1>3. Typed(t, e) /\ Block(t) /\ net[e] \in SUBSET SegTo(e)
    BY <1>2, ZenonT(60) DEF NetInv
  <1>4. t.state \notin Opening
    BY <1>1, <1>2, ZenonT(60) DEF EarlyInv
  <1>5. DOMAIN CloseState = {"SYN_RCVD", "ESTABLISHED", "CLOSE_WAIT"}
    BY ZenonT(60) DEF CloseState
  <1> HIDE DEF t
  <1>6. Context(c, e) /\ Block(c.t) /\ c.t.state \notin Opening
    <2>1. CASE t.state \in DOMAIN CloseState
      <3>1. t.state \in {"ESTABLISHED", "CLOSE_WAIT"}
        BY <1>4, <1>5, <2>1, ZenonT(60) DEF Opening
      <3>2. Flow(t)
        BY <1>3, <3>1, ZenonT(60) DEF Block, Opening
      <3>3. Typed(u, e) /\ Flow(u) /\ u.state \notin {"CLOSED"} \cup Opening
        BY <1>3, <3>1, <3>2, FinQueued, ZenonT(60)
      <3> HIDE DEF u
      <3>4. Context(Ctx(u), e) /\ Ctx(u).t = u
        BY <3>3, CtxOf, ZenonT(60)
      <3>5. Context(o, e) /\ Flow(o.t) /\ NoStall(o.t) /\ o.t.state = u.state
        <4>1. Flow(Ctx(u).t)
          BY <3>3, <3>4, ZenonT(60)
        <4>2. Context(o, e) /\ Flow(o.t) /\ NoStall(o.t) /\ o.t.state = Ctx(u).t.state
          BY <3>4, <4>1, Output, ZenonT(60)
        <4>3. QED
          BY <3>4, <4>2, ZenonT(60)
      <3> HIDE DEF o
      <3>6. Going(o.t)
        BY <3>3, <3>5, ZenonT(60) DEF Going
      <3>7. Block(o.t) /\ o.t.state \notin Opening
        BY <3>6, GoingBlock, ZenonT(60)
      <3>8. c = o
        BY <2>1, ZenonT(60)
      <3>9. QED
        BY <3>5, <3>7, <3>8, ZenonT(60)
    <2>2. CASE t.state \notin DOMAIN CloseState
      <3>1. c = Ctx(t)
        BY <2>2, ZenonT(60)
      <3>2. Context(Ctx(t), e) /\ Ctx(t).t = t
        BY <1>3, CtxOf, ZenonT(60)
      <3>3. QED
        BY <1>3, <1>4, <3>1, <3>2, ZenonT(60)
    <2>3. QED
      BY <2>1, <2>2, ZenonT(60)
  <1> HIDE DEF c
  <1>7. NetInv' /\ tcb'[e] = c.t /\ tcb'[Peer(e)] = tcb[Peer(e)]
    BY <1>1, <1>2, <1>3, <1>6, CommitStep, ZenonT(60)
  <1>8. AppInv' /\ app'[Peer(e)] = app[Peer(e)]
    BY <1>1, <1>2, PeerIs, ZenonT(60) DEF AppInv
  <1>9. EarlyInv'
    BY <1>2, <1>6, <1>7, <1>8, EarlyStep, ZenonT(60)
  <1>10. QED
    BY <1>7, <1>8, <1>9, ZenonT(60)

LEMMA Nodelay ==
  ASSUME IInv, NEW e \in Ends, pf_sock_set_nodelay(e)
  PROVE  NetInv' /\ AppInv' /\ EarlyInv'
  <1> DEFINE t == tcb[e]
             u == [t EXCEPT !.nodelay = TRUE]
             p == Peer(e)
  <1>1. NetInv /\ AppInv /\ EarlyInv
    BY Zenon DEF IInv
  <1>2. app[e] = "open" /\ t.state # "CLOSED" /\ net' = net /\ UNCHANGED appVars
    BY ZenonT(60) DEF pf_sock_set_nodelay
  <1>3. Typed(t, e) /\ Going(t)
    BY <1>2, OpenGoing, ZenonT(60)
  <1>4. tcb' = [tcb EXCEPT ![e] = u]
    BY ZenonT(60) DEF pf_sock_set_nodelay
  <1> HIDE DEF t
  <1>5. /\ t \in Tcb(e) /\ Len(t.sndq) <= TCP_SNDBUF /\ Len(t.rcvq) <= TCP_RCVBUF
        /\ Len(t.ooo) <= TCP_OOO_MAX /\ t.ssthresh >= TCP_MSS
    BY <1>3, ZenonT(60) DEF Typed
  <1>6. SameSend(u, t) /\ u.sndq = t.sndq /\ u.rcvq = t.rcvq /\ u.ooo = t.ooo /\ u.ssthresh = t.ssthresh
    BY <1>5, ZenonT(60) DEF Tcb, SameSend
  <1>7. u \in Tcb(e)
    BY <1>5, ZenonT(60) DEF Tcb
  <1> HIDE DEF u
  <1>8. Typed(u, e)
    BY <1>5, <1>6, <1>7, ZenonT(60) DEF Typed
  <1>9. Block(u) /\ u.state \notin Opening
    BY <1>3, <1>6, SameGoing, GoingBlock, ZenonT(60)
  <1>10. p \in Ends /\ p # e /\ \A f \in Ends : f = e \/ f = p
    BY PeerIs, ZenonT(60) DEF Ends
  <1>11. tcb \in [Ends -> Tcb("A") \cup Tcb("B")]
    BY <1>1, ZenonT(60) DEF NetInv
  <1> HIDE DEF p
  <1>12. tcb' \in [Ends -> Tcb("A") \cup Tcb("B")] /\ tcb'[e] = u /\ tcb'[p] = tcb[p]
    <2>1. u \in Tcb("A") \cup Tcb("B")
      BY <1>7, ZenonT(60) DEF Ends
    <2>2. QED
      BY <1>4, <1>10, <1>11, <2>1, ZenonT(60)
  <1>13. \A f \in Ends : Typed(tcb'[f], f) /\ Block(tcb'[f]) /\ net'[f] \in SUBSET SegTo(f)
    BY <1>1, <1>2, <1>8, <1>9, <1>10, <1>12, ZenonT(60) DEF NetInv
  <1>14. NetInv'
    BY <1>1, <1>2, <1>12, <1>13, ZenonT(60) DEF NetInv
  <1>15. AppInv' /\ app' = app
    BY <1>1, <1>2, AppSame, ZenonT(60)
  <1>16. EarlyInv'
    BY <1>1, <1>9, <1>12, <1>15, EarlyStep, ZenonT(60) DEF p
  <1>17. QED
    BY <1>14, <1>15, <1>16

LEMMA Lose ==
  ASSUME IInv, NEW e \in Ends, NEW s \in net[e], lose(e, s)
  PROVE  IInv'
  <1>1. NetInv /\ AppInv /\ EarlyInv /\ CountInv
    BY ZenonT(60) DEF IInv
  <1>2. losses < MaxLoss /\ net' = [net EXCEPT ![e] = @ \ {s}] /\ losses' = losses + 1 /\ tcb' = tcb /\ dups' = dups /\ UNCHANGED appVars
    BY ZenonT(60) DEF lose
  <1>3. /\ net \in [Ends -> SUBSET (SegTo("A") \cup SegTo("B"))]
        /\ \A f \in Ends : net[f] \in SUBSET SegTo(f)
    BY <1>1, ZenonT(60) DEF NetInv
  <1>4. net' \in [Ends -> SUBSET (SegTo("A") \cup SegTo("B"))]
    BY <1>2, <1>3, ZenonT(60)
  <1>5. \A f \in Ends : net'[f] \in SUBSET SegTo(f)
    <2>1. ASSUME NEW f \in Ends PROVE net'[f] \subseteq net[f]
      BY <1>2, <1>3, ZenonT(60)
    <2>2. QED
      BY <1>3, <2>1, ZenonT(60)
  <1>6. NetInv'
    BY <1>1, <1>2, <1>4, <1>5, ZenonT(60) DEF NetInv
  <1>7. AppInv' /\ app' = app
    BY <1>1, <1>2, AppSame, ZenonT(60)
  <1>8. EarlyInv'
    BY <1>1, <1>2, <1>7, ZenonT(60) DEF EarlyInv
  <1>9. CountInv'
    BY <1>1, <1>2, ConnConstants DEF CountInv
  <1>10. QED
    BY <1>6, <1>7, <1>8, <1>9, ZenonT(60) DEF IInv

-----------------------------------------------------------------------------
(* The theorems.                                                           *)

\* Every step keeps the inductive invariant.
LEMMA StepInv == IInv /\ [Next]_vars => IInv'
  <1> SUFFICES ASSUME IInv, [Next]_vars PROVE IInv'
    BY Zenon
  <1>1. NetInv /\ AppInv /\ EarlyInv /\ CountInv
    BY Zenon DEF IInv
  <1>2. ASSUME NEW e \in Ends, LocalStep(e), UNCHANGED <<dups, losses>> PROVE IInv'
    <2>1. NetInv' /\ AppInv' /\ EarlyInv'
      <3>1. CASE tcp_tick(e)
        BY <3>1, TickRto, TickOther, ZenonT(60) DEF tcp_tick
      <3>2. CASE pf_connect(e)
        BY <3>2, Connect, ZenonT(60)
      <3>3. CASE connect_return(e) \/ pf_accept(e) \/ recv_eof(e)
        BY <3>3, CallsOnly, ZenonT(60)
      <3>4. CASE connect_timeout(e)
        BY <3>4, ConnectTimeout, Zenon
      <3>5. CASE \E n \in 1..TCP_SNDBUF : pf_send(e, n)
        BY <3>5, Send, ZenonT(60)
      <3>6. CASE \E n \in 1..TCP_RCVBUF : pf_recv(e, n)
        BY <3>6, Recv, ZenonT(60)
      <3>7. CASE pf_close(e)
        BY <3>7, Close, Zenon
      <3>8. CASE pf_sock_set_nodelay(e)
        BY <3>8, Nodelay, Zenon
      <3>9. QED
        BY <1>2, <3>1, <3>2, <3>3, <3>4, <3>5, <3>6, <3>7, <3>8, ZenonT(60) DEF LocalStep
    <2>2. CountInv'
      BY <1>1, <1>2, ZenonT(60) DEF CountInv
    <2>3. QED
      BY <2>1, <2>2, ZenonT(60) DEF IInv
  <1>3. ASSUME NEW e \in Ends, NEW s \in net[e], deliver(e, s) \/ duplicate(e, s) \/ lose(e, s)
        PROVE  IInv'
    <2>1. net[e] \in SUBSET SegTo(e)
      BY <1>1, ZenonT(60) DEF NetInv
    <2>2. s \in SegTo(e) /\ net[e] \ {s} \in SUBSET SegTo(e)
      BY <2>1, ZenonT(60)
    <2>3. CASE deliver(e, s)
      <3>1. tcp_input(e, s, net[e] \ {s}) /\ UNCHANGED <<dups, losses>>
        BY <2>3, ZenonT(60) DEF deliver
      <3>2. NetInv' /\ AppInv' /\ EarlyInv'
        BY <2>2, <3>1, InputStep, ZenonT(60)
      <3>3. CountInv'
        BY <1>1, <3>1, ZenonT(60) DEF CountInv
      <3>4. QED
        BY <3>2, <3>3, ZenonT(60) DEF IInv
    <2>4. CASE duplicate(e, s)
      <3>1. tcp_input(e, s, net[e]) /\ dups < MaxDup /\ dups' = dups + 1 /\ losses' = losses
        BY <2>4, ZenonT(60) DEF duplicate
      <3>2. NetInv' /\ AppInv' /\ EarlyInv'
        BY <2>1, <2>2, <3>1, InputStep, ZenonT(60)
      <3>3. CountInv'
        BY <1>1, <3>1, ConnConstants DEF CountInv
      <3>4. QED
        BY <3>2, <3>3, Zenon DEF IInv
    <2>5. CASE lose(e, s)
      BY <2>5, Lose, Zenon
    <2>6. QED
      BY <1>3, <2>3, <2>4, <2>5, ZenonT(60)
  <1>4. CASE UNCHANGED vars
    <2>1. UNCHANGED appVars /\ UNCHANGED <<tcb, net>> /\ UNCHANGED <<dups, losses>>
      BY <1>4, ZenonT(60) DEF vars, appVars
    <2>2. NetInv'
      BY <1>1, <2>1, NetSame, ZenonT(60)
    <2>3. AppInv' /\ app' = app
      BY <1>1, <2>1, AppSame, ZenonT(60)
    <2>4. EarlyInv' /\ CountInv'
      BY <1>1, <2>1, <2>3, ZenonT(60) DEF EarlyInv, CountInv
    <2>5. QED
      BY <2>2, <2>3, <2>4, Zenon DEF IInv
  <1>5. QED
    BY <1>2, <1>3, <1>4, ZenonT(60) DEF Next

LEMMA InitInv == Init => IInv
  <1> SUFFICES ASSUME Init PROVE IInv
    BY ZenonT(60)
  <1>1. \A e \in Ends : Typed(NoTcb, e) /\ Block(NoTcb) /\ NoTcb.state = "CLOSED"
    BY BlankBlock, Zenon
  <1>2. \A e \in Ends : NoTcb \in Tcb(e)
    BY <1>1, ZenonT(60) DEF Typed
  <1>3. /\ active \in Roles
        /\ tcb = [e \in Ends |-> NoTcb] /\ net = [e \in Ends |-> {}] /\ opens = [e \in Ends |-> 0]
        /\ app = [e \in Ends |-> "idle"] /\ err = [e \in Ends |-> "none"]
        /\ wrote = [e \in Ends |-> 0] /\ got = [e \in Ends |-> <<>>]
        /\ eof = [e \in Ends |-> FALSE] /\ dups = 0 /\ losses = 0
    BY ZenonT(60) DEF Init
  <1>4. NetInv
    <2>1. NoTcb \in Tcb("A") \cup Tcb("B")
      BY <1>2, Zenon DEF Ends
    <2> HIDE DEF NoTcb
    <2>2. tcb \in [Ends -> Tcb("A") \cup Tcb("B")]
      BY <1>3, <2>1, ZenonT(60)
    <2>3. net \in [Ends -> SUBSET (SegTo("A") \cup SegTo("B"))]
      BY <1>3, ZenonT(60)
    <2>4. \A e \in Ends : tcb[e] = NoTcb /\ net[e] = {}
      BY <1>3, Zenon
    <2>5. QED
      BY <1>1, <2>2, <2>3, <2>4, ZenonT(60) DEF NetInv
  <1>5. EarlyInv
    <2>1. \A e \in Ends : tcb[e] = NoTcb
      BY <1>3, Zenon
    <2>2. "CLOSED" \notin Opening
      BY ZenonT(60) DEF Opening
    <2>3. QED
      BY <1>1, <2>1, <2>2, ZenonT(60) DEF EarlyInv
  <1>6. CountInv
    BY <1>3, ConnConstants DEF CountInv
  <1>7. AppInv
    <2>1. opens \in [Ends -> 0..MaxOpens] /\ wrote \in [Ends -> Nat]
      BY <1>3, ConnConstants
    <2>2. /\ app \in [Ends -> {"idle", "connecting", "queued", "open", "closed"}]
          /\ err \in [Ends -> {"none", "RESET", "REFUSED", "TIMEDOUT"}]
      BY <1>3, Zenon
    <2>3. eof \in [Ends -> BOOLEAN]
      BY <1>3, Zenon
    <2>4. \A S : <<>> \in Seq(S)
      OBVIOUS
    <2>5. got \in [Ends -> Seq(Nat)] /\ \A e \in Ends : got[e] \in Seq(Bytes(Peer(e)))
      BY <1>3, <2>4, Zenon
    <2>6. QED
      BY <1>3, <2>1, <2>2, <2>3, <2>5, ZenonT(60) DEF AppInv
  <1>8. QED
    BY <1>4, <1>5, <1>6, <1>7, ZenonT(60) DEF IInv

\* The block after a handshake without loss.
LEMMA OpenBlock ==
  ASSUME NEW e \in Ends
  PROVE  Typed(OpenTcb(e), e) /\ Block(OpenTcb(e)) /\ OpenTcb(e).state \notin Opening
  <1> DEFINE x == SeqAdd(Iss[e], 1)
             y == SeqAdd(Iss[Peer(e)], 1)
             l == IF e \in active THEN Iss[Peer(e)] ELSE y
             w == tcp_cwnd_init(NoTcb)
             u == [w EXCEPT
                     !.state = "ESTABLISHED", !.iss = Iss[e], !.snd_una = x,
                     !.snd_nxt = x, !.snd_wnd = TCP_RCVBUF, !.snd_wl2 = x,
                     !.snd_wl1 = l,
                     !.irs = Iss[Peer(e)], !.rcv_nxt = y,
                     !.rcv_wnd_advertised = TCP_RCVBUF]
  <1>1. OpenTcb(e) = u
    BY Zenon DEF OpenTcb
  <1>2. Iss[e] \in SeqNums /\ Iss[Peer(e)] \in SeqNums
    BY PeerIs, ConnConstants, ZenonT(60)
  <1>3. x \in SeqNums /\ y \in SeqNums
    <2>1. 1 \in Nat
      BY ZenonT(60)
    <2>2. QED
      BY <1>2, <2>1, AddNat, ZenonT(60)
  <1>4. l \in SeqNums
    BY <1>2, <1>3, ZenonT(60)
  <1>5. Typed(w, e) /\ SameSend(w, NoTcb)
    BY BlankBlock, CwndInit, ZenonT(60)
  <1>6. NoTcb.sndq = <<>> /\ NoTcb.fin_queued = FALSE /\ NoTcb.fin_sent = FALSE /\ NoTcb.rto = FALSE
    BY Zenon DEF NoTcb
  <1> HIDE DEF x, y, l, w
  <1>7. /\ w \in Tcb(e) /\ Len(w.sndq) <= TCP_SNDBUF /\ Len(w.rcvq) <= TCP_RCVBUF
        /\ Len(w.ooo) <= TCP_OOO_MAX /\ w.ssthresh >= TCP_MSS
    BY <1>5, ZenonT(60) DEF Typed
  <1>8. /\ u.sndq = w.sndq /\ u.rcvq = w.rcvq /\ u.ooo = w.ooo /\ u.ssthresh = w.ssthresh
        /\ u.state = "ESTABLISHED" /\ u.snd_una = x /\ u.snd_nxt = x
        /\ u.fin_queued = w.fin_queued /\ u.fin_sent = w.fin_sent /\ u.rto = w.rto
    BY <1>7, ZenonT(60) DEF Tcb
  <1>9. u \in Tcb(e)
    <2>1. "ESTABLISHED" \in TcpStates /\ TCP_RCVBUF \in 0..TCP_RCVBUF
      BY Sizes DEF TcpStates
    <2>2. QED
      BY <1>2, <1>3, <1>4, <1>7, <2>1, ZenonT(60) DEF Tcb
  <1> HIDE DEF u
  <1>10. Typed(u, e)
    BY <1>7, <1>8, <1>9, ZenonT(60) DEF Typed
  <1>11. u.snd_una = u.snd_nxt /\ ~u.rto /\ u.sndq = <<>> /\ ~u.fin_queued /\ ~u.fin_sent
    BY <1>5, <1>6, <1>8, ZenonT(60) DEF SameSend
  <1>12. Going(u)
    BY <1>8, <1>10, <1>11, OpenedGoing, ZenonT(60)
  <1>13. QED
    BY <1>1, <1>10, <1>12, GoingBlock, ZenonT(60)

LEMMA InitOpenInv == InitOpen => IInv
  <1> SUFFICES ASSUME InitOpen PROVE IInv
    BY Zenon
  <1>1. \A e \in Ends : Typed(OpenTcb(e), e) /\ Block(OpenTcb(e)) /\ OpenTcb(e).state \notin Opening
    BY OpenBlock, ZenonT(60)
  <1>2. /\ active \in Roles
        /\ tcb = [e \in Ends |-> OpenTcb(e)] /\ net = [e \in Ends |-> {}] /\ opens = [e \in Ends |-> 1]
        /\ app = [e \in Ends |-> "open"] /\ err = [e \in Ends |-> "none"]
        /\ wrote = [e \in Ends |-> 0] /\ got = [e \in Ends |-> <<>>]
        /\ eof = [e \in Ends |-> FALSE] /\ dups = 0 /\ losses = 0
    BY ZenonT(60) DEF InitOpen
  <1>3. \A e \in Ends : tcb[e] = OpenTcb(e) /\ net[e] = {}
    BY <1>2, ZenonT(60)
  <1>4. NetInv
    <2>1. \A e \in Ends : OpenTcb(e) \in Tcb("A") \cup Tcb("B")
      BY <1>1, Zenon DEF Typed, Ends
    <2>2. tcb \in [Ends -> Tcb("A") \cup Tcb("B")]
      BY <1>2, <2>1, ZenonT(60)
    <2>3. net \in [Ends -> SUBSET (SegTo("A") \cup SegTo("B"))]
      BY <1>2, ZenonT(60)
    <2>4. QED
      BY <1>1, <1>3, <2>2, <2>3, ZenonT(60) DEF NetInv
  <1>5. EarlyInv
    BY <1>1, <1>3, ZenonT(60) DEF EarlyInv
  <1>6. CountInv
    BY <1>2, ConnConstants DEF CountInv
  <1>7. AppInv
    <2>1. opens \in [Ends -> 0..MaxOpens] /\ wrote \in [Ends -> Nat]
      BY <1>2, ConnConstants
    <2>2. /\ app \in [Ends -> {"idle", "connecting", "queued", "open", "closed"}]
          /\ err \in [Ends -> {"none", "RESET", "REFUSED", "TIMEDOUT"}]
      BY <1>2, Zenon
    <2>3. eof \in [Ends -> BOOLEAN]
      BY <1>2, Zenon
    <2>4. \A S : <<>> \in Seq(S)
      OBVIOUS
    <2>5. got \in [Ends -> Seq(Nat)] /\ \A e \in Ends : got[e] \in Seq(Bytes(Peer(e)))
      BY <1>2, <2>4, ZenonT(60)
    <2>6. QED
      BY <1>2, <2>1, <2>2, <2>3, <2>5, ZenonT(60) DEF AppInv
  <1>8. QED
    BY <1>4, <1>5, <1>6, <1>7, Zenon DEF IInv

\* The inductive invariant holds from the first connect on, and from two
\* connections already established.
THEOREM SendSideInvariant == (Spec => []IInv) /\ (OpenSpec => []IInv)
  <1>1. Init => IInv
    BY InitInv, ZenonT(60)
  <1>2. InitOpen => IInv
    BY InitOpenInv, ZenonT(60)
  <1>3. IInv /\ [Next]_vars => IInv'
    BY StepInv, ZenonT(60)
  <1>4. Spec => []IInv
    BY <1>1, <1>3, PTL DEF Spec
  <1>5. OpenSpec => []IInv
    BY <1>2, <1>3, PTL DEF OpenSpec
  <1>6. QED
    BY <1>4, <1>5, ZenonT(60)

\* In every state but TIME_WAIT the retransmission timer runs exactly while a
\* sequence number is unacknowledged: no ACK, retransmission, probe, close or
\* handshake leaves data without a timer or a timer without data.
THEOREM TimerMatchesFlight == (Spec => []RtoIffOutstanding) /\ (OpenSpec => []RtoIffOutstanding)
  <1>1. IInv => RtoIffOutstanding
    <2> SUFFICES ASSUME IInv, NEW e \in Ends, tcb[e].state # "TIME_WAIT"
                 PROVE  tcb[e].rto <=> tcb[e].snd_una # tcb[e].snd_nxt
      BY Zenon DEF RtoIffOutstanding
    <2> DEFINE t == tcb[e]
    <2>1. Typed(t, e) /\ Block(t)
      BY Zenon DEF IInv, NetInv
    <2> HIDE DEF t
    <2>2. CASE t.state = "CLOSED"
      <3>1. t = NoTcb
        BY <2>1, <2>2, ZenonT(60) DEF Block
      <3>2. ~NoTcb.rto /\ NoTcb.snd_una = NoTcb.snd_nxt
        BY ZenonT(60) DEF NoTcb
      <3>3. QED
        BY <3>1, <3>2, ZenonT(60) DEF t
    <2>3. CASE t.state \in Opening
      <3>1. SynOut(t)
        BY <2>1, <2>3, ZenonT(60) DEF Block
      <3>2. t.iss \in SeqNums
        BY <2>1, TypedFields, ZenonT(60)
      <3>3. SeqAdd(t.iss, 1) # t.iss
        BY <3>2, AckOfSyn, ZenonT(60)
      <3>4. QED
        BY <3>1, <3>3, ZenonT(60) DEF SynOut, t
    <2>4. CASE t.state \notin {"CLOSED"} \cup Opening
      <3>1. Flow(t)
        BY <2>1, <2>4 DEF Block
      <3>2. QED
        BY <3>1, ZenonT(60) DEF Flow, t
    <2>5. QED
      BY <2>2, <2>3, <2>4, ZenonT(60)
  <1>2. QED
    BY <1>1, SendSideInvariant, PTL

\* Data that waits in the send ring with nothing in flight waits only for a
\* zero window, which the probe looks after: every handler that can make data
\* sendable calls tcp_output.
THEOREM WaitsOnlyForWindow == (Spec => []NoSilentStall) /\ (OpenSpec => []NoSilentStall)
  <1>1. IInv => NoSilentStall
    <2> SUFFICES ASSUME IInv, NEW e \in Ends,
                        tcb[e].state \in SendStates /\ tcb[e].sndq # <<>> /\ tcb[e].snd_una = tcb[e].snd_nxt
                 PROVE  tcb[e].snd_wnd = 0
      BY Zenon DEF NoSilentStall
    <2>1. Block(tcb[e])
      BY Zenon DEF IInv, NetInv
    <2>2. tcb[e].state \notin {"CLOSED"} \cup Opening
      BY ZenonT(60) DEF SendStates, Opening
    <2>3. NoStall(tcb[e])
      BY <2>1, <2>2, ZenonT(60) DEF Block
    <2>4. QED
      BY <2>3, ZenonT(60) DEF NoStall
  <1>2. QED
    BY <1>1, SendSideInvariant, PTL

\* Rings, parking list and fields keep to their bounds, and the bytes in flight
\* are in the send ring: the unsigned subtractions of tcp_output, tcp_input and
\* tcp_retransmit never wrap.
THEOREM FlightFitsRing == (Spec => []FlightInRing) /\ (OpenSpec => []FlightInRing)
  <1>1. IInv => TypeOK
    <2> SUFFICES ASSUME IInv PROVE TypeOK
      BY ZenonT(60)
    <2>1. \A e \in Ends : Typed(tcb[e], e) /\ net[e] \in SUBSET SegTo(e)
      BY Zenon DEF IInv, NetInv
    <2>2. \A e \in Ends : /\ tcb[e] \in Tcb(e)
                          /\ Len(tcb[e].sndq) <= TCP_SNDBUF
                          /\ Len(tcb[e].rcvq) <= TCP_RCVBUF
                          /\ Len(tcb[e].ooo) <= TCP_OOO_MAX
      BY <2>1, Zenon DEF Typed
    <2>3. AppInv /\ CountInv
      BY ZenonT(60) DEF IInv
    <2>4. QED
      BY <2>1, <2>2, <2>3, ZenonT(60) DEF TypeOK, AppInv, CountInv
  <1>2. IInv => FlightInRing
    <2> SUFFICES ASSUME IInv, NEW e \in Ends,
                        tcb[e].state \notin {"CLOSED", "SYN_SENT", "SYN_RCVD"}
                 PROVE  tcp_data_in_flight(tcb[e]) <= Len(tcb[e].sndq)
      BY <1>1, Zenon DEF FlightInRing
    <2>1. Typed(tcb[e], e) /\ Block(tcb[e])
      BY ZenonT(60) DEF IInv, NetInv
    <2>2. Flow(tcb[e])
      BY <2>1, ZenonT(60) DEF Block, Opening
    <2>3. QED
      BY <2>1, <2>2, FlightData, ZenonT(60)
  <1>3. QED
    BY <1>2, SendSideInvariant, PTL

=============================================================================
