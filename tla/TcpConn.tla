------------------------------ MODULE TcpConn -------------------------------
(***************************************************************************)
(* Two PacketForge stacks and one TCP connection between them: tcp_input,  *)
(* tcp_tick and the socket calls of tcp_sock.c at both ends, over a        *)
(* network that loses, duplicates and reorders segments.                   *)
(*                                                                         *)
(* The stack is single-threaded, so each handler is one action.  Ends in   *)
(* active call pf_connect; the others hold a listening socket whose        *)
(* backlog never fills (TcpTable models the accept queue).  A timer that   *)
(* is armed may expire at any tick.  Stream bytes are numbered in the      *)
(* order the application writes them.                                      *)
(***************************************************************************)
EXTENDS TcpCore

CONSTANTS
    Roles,          \* the sets of ends that may be the active ones
    Iss,            \* Iss[e]: first initial sequence number of end e
    IssStep,        \* tcp_gen_iss: distance of successive ones
    Calls,          \* Calls[e]: what the application at e may do besides
                    \* reading and writing
    MaxBytes,       \* bound: MaxBytes[e] bytes written by end e
    MaxOpens,       \* bound: connections opened by one end
    MaxNet,         \* bound: segments under way to one end
    MaxDup,         \* bound: duplications and losses by the network
    MaxLoss

Ends == {"A", "B"}
Peer(e) == CHOOSE p \in Ends : p # e

ASSUME ConnConstants ==
    /\ Roles \subseteq SUBSET Ends
    /\ Iss \in [Ends -> SeqNums]
    /\ Calls \in [Ends -> SUBSET {"close", "nodelay", "timeout"}]
    /\ MaxBytes \in [Ends -> Nat]
    /\ {IssStep, MaxNet, MaxDup, MaxLoss} \subseteq Nat
    /\ MaxOpens \in Nat \ {0}

VARIABLES
    active,     \* ends that connect; the others listen
    tcb,        \* tcb[e]: control block of the connection at e, or NoTcb
    net,        \* net[e]: segments under way to e
    opens,      \* opens[e]: connections e has opened
    app,        \* app[e]: what the application at e is doing
    err,        \* err[e]: pf_sock.err
    wrote,      \* wrote[e]: bytes accepted by pf_send
    got,        \* got[e]: bytes returned by pf_recv
    eof,        \* eof[e]: pf_recv returned 0
    dups,       \* duplications so far
    losses      \* losses so far

vars == <<active, tcb, net, opens, app, err, wrote, got, eof, dups, losses>>
appVars == <<active, opens, app, err, wrote, got, eof>>

Flags == {{"SYN"}, {"SYN", "ACK"}, {"ACK"}, {"FIN", "ACK"}, {"RST"}, {"RST", "ACK"}}
Bytes(e) == 1..MaxBytes[e]
SegTo(e) == [flags : Flags, seq : SeqNums, ack : SeqNums, wnd : 0..TCP_RCVBUF,
             data : Seq(Bytes(Peer(e)))]

Tcb(e) ==
    [state : TcpStates, iss : SeqNums, snd_una : SeqNums, snd_nxt : SeqNums,
     snd_wnd : 0..TCP_RCVBUF, snd_wl1 : SeqNums, snd_wl2 : SeqNums, irs : SeqNums,
     rcv_nxt : SeqNums, rcv_wnd_advertised : 0..TCP_RCVBUF, sndq : Seq(Bytes(e)),
     fin_queued : BOOLEAN, fin_sent : BOOLEAN, rcvq : Seq(Bytes(Peer(e))),
     rcv_eof : BOOLEAN, ooo : Seq([seq : SeqNums, data : Seq(Bytes(Peer(e)))]),
     rto : BOOLEAN, rtx_count : 0..TCP_MAX_RTX, cwnd : TCP_MSS..CwndCap,
     ssthresh : 1..SsthreshMax, dupacks : 0..4, nodelay : BOOLEAN, delack : BOOLEAN]

TypeOK ==
    /\ active \in Roles
    /\ \A e \in Ends :
          /\ tcb[e] \in Tcb(e)
          /\ Len(tcb[e].sndq) <= TCP_SNDBUF
          /\ Len(tcb[e].rcvq) <= TCP_RCVBUF
          /\ Len(tcb[e].ooo) <= TCP_OOO_MAX
          /\ net[e] \in SUBSET SegTo(e)
          /\ got[e] \in Seq(Bytes(Peer(e)))
    /\ opens \in [Ends -> 0..MaxOpens]
    /\ app \in [Ends -> {"idle", "connecting", "queued", "open", "closed"}]
    /\ err \in [Ends -> {"none", "RESET", "REFUSED", "TIMEDOUT"}]
    /\ wrote \in [Ends -> Nat]
    /\ eof \in [Ends -> BOOLEAN]
    /\ dups \in 0..MaxDup
    /\ losses \in 0..MaxLoss

Init ==
    /\ active \in Roles
    /\ tcb = [e \in Ends |-> NoTcb]
    /\ net = [e \in Ends |-> {}]
    /\ opens = [e \in Ends |-> 0]
    /\ app = [e \in Ends |-> "idle"]
    /\ err = [e \in Ends |-> "none"]
    /\ wrote = [e \in Ends |-> 0]
    /\ got = [e \in Ends |-> <<>>]
    /\ eof = [e \in Ends |-> FALSE]
    /\ dups = 0
    /\ losses = 0

\* The state after a handshake without loss, both sockets open: the start
\* of the runs about the transfer of data.
OpenTcb(e) ==
    LET next(x) == SeqAdd(Iss[x], 1)
    IN  [tcp_cwnd_init(NoTcb) EXCEPT
            !.state = "ESTABLISHED", !.iss = Iss[e], !.snd_una = next(e),
            !.snd_nxt = next(e), !.snd_wnd = TCP_RCVBUF, !.snd_wl2 = next(e),
            !.snd_wl1 = IF e \in active THEN Iss[Peer(e)] ELSE next(Peer(e)),
            !.irs = Iss[Peer(e)], !.rcv_nxt = next(Peer(e)),
            !.rcv_wnd_advertised = TCP_RCVBUF]

InitOpen ==
    /\ active \in Roles
    /\ tcb = [e \in Ends |-> OpenTcb(e)]
    /\ net = [e \in Ends |-> {}]
    /\ opens = [e \in Ends |-> 1]
    /\ app = [e \in Ends |-> "open"]
    /\ err = [e \in Ends |-> "none"]
    /\ wrote = [e \in Ends |-> 0]
    /\ got = [e \in Ends |-> <<>>]
    /\ eof = [e \in Ends |-> FALSE]
    /\ dups = 0
    /\ losses = 0

-----------------------------------------------------------------------------
(* Effects common to all handlers.                                         *)

Ctx(t) == [t |-> t, out |-> {}]

\* End e's control block becomes c.t and the segments c.out leave for its
\* peer; left is what remains under way to e.
Commit(e, c, left) ==
    \E r \in {c} :
        /\ Cardinality(net[Peer(e)] \cup r.out) <= MaxNet
        /\ tcb' = [tcb EXCEPT ![e] = r.t]
        /\ net' = [net EXCEPT ![e] = left, ![Peer(e)] = @ \cup r.out]

\* tcb_free: the block is cleared; tcb_detach_sock reports code to a socket
\* that still owns it.
Freed(e, out, code, left) ==
    /\ Commit(e, [t |-> NoTcb, out |-> out], left)
    /\ err' = [err EXCEPT ![e] = IF app[e] \in {"connecting", "open"} THEN code ELSE @]
    /\ UNCHANGED <<active, opens, app, wrote, got, eof>>

\* tcp_gen_iss: the next initial sequence number of end e.
tcp_gen_iss(e) == SeqAdd(Iss[e], opens[e] * IssStep)

-----------------------------------------------------------------------------
(* tcp_input at e for a segment s, one action per way through it.  t is    *)
(* the block tcb_lookup finds, left what stays under way to e.             *)

\* No TCB and no listener: answer with RST.
input_no_tcb(e, s, left) ==
    /\ tcb[e].state = "CLOSED"
    /\ e \in active
    /\ Commit(e, [t |-> NoTcb, out |-> tcp_send_reset_for(s)], left)
    /\ UNCHANGED appVars

\* LISTEN, segment refused or ignored.
input_listen_other(e, s, left) ==
    /\ tcb[e].state = "CLOSED"
    /\ e \notin active
    /\ s.flags # {"SYN"}
    /\ Commit(e, [t |-> NoTcb, out |-> IF "ACK" \in s.flags THEN tcp_send_reset_for(s)
                                       ELSE {}], left)
    /\ UNCHANGED appVars

\* LISTEN, SYN: a child is created and answers SYN|ACK.
input_listen_syn(e, s, left) ==
    LET iss == tcp_gen_iss(e)
        t == [NoTcb EXCEPT !.irs = s.seq, !.rcv_nxt = SeqAdd(s.seq, 1), !.iss = iss,
                           !.snd_una = iss, !.snd_nxt = SeqAdd(iss, 1), !.snd_wnd = s.wnd,
                           !.snd_wl1 = s.seq, !.snd_wl2 = iss, !.state = "SYN_RCVD",
                           !.rto = TRUE]
    IN  /\ tcb[e].state = "CLOSED"
        /\ e \notin active
        /\ s.flags = {"SYN"}
        /\ opens[e] < MaxOpens
        /\ Commit(e, tcp_send_ctl(Ctx(t), {"SYN", "ACK"}), left)
        /\ opens' = [opens EXCEPT ![e] = @ + 1]
        /\ app' = [app EXCEPT ![e] = "idle"]
        /\ err' = [err EXCEPT ![e] = "none"]
        /\ wrote' = [wrote EXCEPT ![e] = 0]
        /\ got' = [got EXCEPT ![e] = <<>>]
        /\ eof' = [eof EXCEPT ![e] = FALSE]
        /\ UNCHANGED active

\* SYN_SENT, the ACK is not for our SYN.
BadSynAck(t, s) ==
    /\ "ACK" \in s.flags
    /\ seq_le(s.ack, t.iss) \/ seq_gt(s.ack, t.snd_nxt)

\* SYN_SENT without effect on the connection: wrong ACK (answered by RST),
\* RST without ACK, or nothing of interest.
input_synsent_ignored(e, s, left) ==
    /\ tcb[e].state = "SYN_SENT"
    /\ \/ BadSynAck(tcb[e], s)
       \/ s.flags \cap {"SYN", "RST"} = {}
       \/ s.flags = {"RST"}
    /\ Commit(e, [t |-> tcb[e], out |-> IF BadSynAck(tcb[e], s) THEN tcp_send_reset_for(s)
                                        ELSE {}], left)
    /\ UNCHANGED appVars

input_synsent_refused(e, s, left) ==
    /\ tcb[e].state = "SYN_SENT"
    /\ s.flags = {"RST", "ACK"}
    /\ ~BadSynAck(tcb[e], s)
    /\ Freed(e, {}, "REFUSED", left)

\* Fault variant: the acknowledgment field is used without the ACK flag.
input_synsent_syn_noflag(e, s, left) ==
    LET t == [tcb[e] EXCEPT !.irs = s.seq, !.rcv_nxt = SeqAdd(s.seq, 1), !.snd_una = s.ack,
                            !.state = "ESTABLISHED", !.snd_wnd = s.wnd, !.snd_wl1 = s.seq,
                            !.snd_wl2 = s.ack, !.rto = FALSE, !.rtx_count = 0]
    IN  /\ tcb[e].state = "SYN_SENT"
        /\ "SYN" \in s.flags
        /\ ~BadSynAck(tcb[e], s)
        /\ Commit(e, tcp_send_ctl(Ctx(tcp_cwnd_init(t)), {"ACK"}), left)
        /\ UNCHANGED appVars

\* SYN_SENT, SYN: established when it acknowledges our SYN, otherwise a
\* simultaneous open.
input_synsent_syn(e, s, left) ==
    LET t == [tcb[e] EXCEPT !.irs = s.seq, !.rcv_nxt = SeqAdd(s.seq, 1),
                            !.snd_una = IF "ACK" \in s.flags THEN s.ack ELSE @]
        est == [tcp_cwnd_init(t) EXCEPT !.state = "ESTABLISHED", !.snd_wnd = s.wnd,
                                        !.snd_wl1 = s.seq, !.snd_wl2 = s.ack,
                                        !.rto = FALSE, !.rtx_count = 0]
        sim == [t EXCEPT !.state = "SYN_RCVD", !.rto = TRUE]
    IN  /\ tcb[e].state = "SYN_SENT"
        /\ "SYN" \in s.flags
        /\ ~BadSynAck(tcb[e], s)
        /\ Commit(e, IF seq_gt(t.snd_una, t.iss) THEN tcp_send_ctl(Ctx(est), {"ACK"})
                     ELSE tcp_send_ctl(Ctx(sim), {"SYN", "ACK"}), left)
        /\ UNCHANGED appVars

Synchronised(e) == tcb[e].state \notin {"CLOSED", "SYN_SENT"}

\* Outside the window, a RST inside it that is not exact, a SYN inside it,
\* or an ACK of something never sent: the connection is left alone and the
\* segment answered by an ACK (a RST outside the window by nothing).
Challenged(t, s) ==
    \/ ~acceptable(t, s)
    \/ "RST" \in s.flags /\ s.seq # t.rcv_nxt
    \/ "SYN" \in s.flags
    \/ /\ s.flags \cap {"RST", "ACK"} = {"ACK"}
       /\ t.state # "SYN_RCVD"
       /\ seq_gt(s.ack, t.snd_nxt)

input_rejected(e, s, left) ==
    LET t == tcb[e]
        ignored == ~acceptable(t, s) /\ "RST" \in s.flags
    IN  /\ Synchronised(e)
        /\ Challenged(t, s)
        /\ Commit(e, IF ignored THEN Ctx(t) ELSE tcp_send_ctl(Ctx(t), {"ACK"}), left)
        /\ UNCHANGED appVars

\* An exact RST: closing connections and unaccepted children die quietly,
\* the others report ECONNRESET.
input_reset(e, s, left) ==
    LET t == tcb[e]
        quiet == \/ t.state = "SYN_RCVD" /\ e \notin active
                 \/ t.state \in {"CLOSING", "LAST_ACK", "TIME_WAIT"}
    IN  /\ Synchronised(e)
        /\ ~Challenged(t, s)
        /\ "RST" \in s.flags
        /\ Freed(e, {}, IF quiet THEN "none" ELSE "RESET", left)

\* Past these checks: an ordinary segment with ACK.
Ordinary(e, s) ==
    /\ Synchronised(e)
    /\ ~Challenged(tcb[e], s)
    /\ "RST" \notin s.flags
    /\ "ACK" \in s.flags

\* Fault variant: any ACK completes the handshake.
HandshakeAck_any(t, s) == TRUE

HandshakeAck(t, s) == seq_lt(t.snd_una, s.ack) /\ seq_le(s.ack, t.snd_nxt)

\* SYN_RCVD and the ACK is not for our SYN: RST <SEQ=SEG.ACK>.
input_bad_handshake(e, s, left) ==
    /\ Ordinary(e, s)
    /\ tcb[e].state = "SYN_RCVD"
    /\ ~HandshakeAck(tcb[e], s)
    /\ Commit(e, [t |-> tcb[e], out |-> tcp_send_reset_for(s)], left)
    /\ UNCHANGED appVars

\* LAST_ACK and our FIN is acknowledged: the block is freed.
input_last_ack(e, s, left) ==
    /\ Ordinary(e, s)
    /\ tcb[e].state = "LAST_ACK"
    /\ fin_acked(tcb[e], s)
    /\ seq_gt(s.ack, tcb[e].snd_una)
    /\ Freed(e, {}, "none", left)

Handshaken(t, s) ==
    IF t.state # "SYN_RCVD" THEN t
    ELSE [tcp_cwnd_init(t) EXCEPT !.state = "ESTABLISHED", !.snd_una = s.ack,
                                  !.snd_wnd = s.wnd, !.snd_wl1 = s.seq, !.snd_wl2 = s.ack,
                                  !.rto = FALSE, !.rtx_count = 0]

\* ACK, window, text and FIN processing.  A child that completes the
\* handshake goes to the accept queue.
input_segment(e, s, left) ==
    LET t == tcb[e]
        c == Ctx(Handshaken(t, s))
    IN  /\ Ordinary(e, s)
        /\ t.state = "SYN_RCVD" => HandshakeAck(t, s)
        /\ ~(t.state = "LAST_ACK" /\ fin_acked(t, s) /\ seq_gt(s.ack, t.snd_una))
        /\ \E acked \in {AckStage(c, s)} :
           \E opened \in {WindowStage(acked, s)} :
           \E taken \in {TextStage(opened, s)} :
              Commit(e, FinStage(taken, s), left)
        /\ app' = [app EXCEPT ![e] = IF t.state = "SYN_RCVD" /\ e \notin active
                                     THEN "queued" ELSE @]
        /\ UNCHANGED <<active, opens, err, wrote, got, eof>>

tcp_input(e, s, left) ==
    \/ input_no_tcb(e, s, left)
    \/ input_listen_other(e, s, left)
    \/ input_listen_syn(e, s, left)
    \/ input_synsent_ignored(e, s, left)
    \/ input_synsent_refused(e, s, left)
    \/ input_synsent_syn(e, s, left)
    \/ input_rejected(e, s, left)
    \/ input_reset(e, s, left)
    \/ input_bad_handshake(e, s, left)
    \/ input_last_ack(e, s, left)
    \/ input_segment(e, s, left)

-----------------------------------------------------------------------------
(* tcp_tick on the block of e.                                             *)

\* 2MSL elapsed.
tick_timewait(e) ==
    /\ tcb[e].state = "TIME_WAIT"
    /\ Freed(e, {}, "none", net[e])

\* The retransmission timer expires: give up after TCP_MAX_RTX, otherwise
\* collapse the window and retransmit; the timer stays armed.
tick_rto_abort(e) ==
    /\ tcb[e].rto
    /\ tcb[e].state # "TIME_WAIT"
    /\ tcb[e].rtx_count + 1 > TCP_MAX_RTX
    /\ Freed(e, tcp_send_ctl(Ctx(tcb[e]), {"RST", "ACK"}).out, "TIMEDOUT", net[e])

tick_rto(e) ==
    LET t == [tcb[e] EXCEPT !.rtx_count = @ + 1]
        u == IF in_flight(t) = 0 THEN t
             ELSE [t EXCEPT !.ssthresh = Most(in_flight(t) \div 2, 2 * TCP_MSS),
                            !.cwnd = TCP_MSS, !.dupacks = 0]
    IN  /\ tcb[e].rto
        /\ tcb[e].state # "TIME_WAIT"
        /\ t.rtx_count <= TCP_MAX_RTX
        /\ Commit(e, tcp_retransmit(Ctx(u)), net[e])
        /\ UNCHANGED appVars

\* Data waiting, nothing in flight, the peer advertises zero.
ProbeDue(t) ==
    /\ ~t.rto
    /\ t.sndq # <<>>
    /\ t.snd_wnd = 0
    /\ t.snd_una = t.snd_nxt
    /\ t.state \in SendStates

tick_probe(e) ==
    /\ ProbeDue(tcb[e])
    /\ Commit(e, [tcp_send_probe(Ctx(tcb[e])) EXCEPT !.t.rto = TRUE], net[e])
    /\ UNCHANGED appVars

\* The probe carries an ACK and disarms the delayed-ACK timer, so at most
\* one of the two is sent.
tick_delack(e) ==
    /\ tcb[e].delack
    /\ tcb[e].state # "TIME_WAIT"
    /\ ~ProbeDue(tcb[e])
    /\ Commit(e, tcp_send_ctl(Ctx(tcb[e]), {"ACK"}), net[e])
    /\ UNCHANGED appVars

tcp_tick(e) ==
    \/ tick_timewait(e)
    \/ tick_rto_abort(e)
    \/ tick_rto(e)
    \/ tick_probe(e)
    \/ tick_delack(e)

-----------------------------------------------------------------------------
(* The socket calls.  A call that blocks pumps the event loop, so it is    *)
(* one action per step between two pumps.                                  *)

\* pf_connect up to the first pump: tcp_open_active.
pf_connect(e) ==
    LET iss == tcp_gen_iss(e)
        t == [NoTcb EXCEPT !.iss = iss, !.snd_una = iss, !.snd_nxt = SeqAdd(iss, 1),
                           !.state = "SYN_SENT", !.rto = TRUE]
    IN  /\ e \in active
        /\ app[e] = "idle"
        /\ opens[e] < MaxOpens
        /\ Commit(e, tcp_send_ctl(Ctx(t), {"SYN"}), net[e])
        /\ opens' = [opens EXCEPT ![e] = @ + 1]
        /\ app' = [app EXCEPT ![e] = "connecting"]
        /\ err' = [err EXCEPT ![e] = "none"]
        /\ UNCHANGED <<active, wrote, got, eof>>

\* pf_connect finds the connection established, or gone.
connect_return(e) ==
    /\ app[e] = "connecting"
    /\ tcb[e].state \in {"ESTABLISHED", "CLOSED"}
    /\ app' = [app EXCEPT ![e] = IF tcb[e].state = "ESTABLISHED" THEN "open" ELSE "closed"]
    /\ UNCHANGED <<active, tcb, net, opens, err, wrote, got, eof>>

\* The deadline of pf_connect passes: tcp_app_abort.
connect_timeout(e) ==
    /\ "timeout" \in Calls[e]
    /\ app[e] = "connecting"
    /\ tcb[e].state \notin {"ESTABLISHED", "CLOSED"}
    /\ Commit(e, [t |-> NoTcb,
                  out |-> IF tcb[e].state = "SYN_SENT" THEN {}
                          ELSE tcp_send_ctl(Ctx(tcb[e]), {"RST", "ACK"}).out], net[e])
    /\ app' = [app EXCEPT ![e] = "closed"]
    /\ err' = [err EXCEPT ![e] = "none"]
    /\ UNCHANGED <<active, opens, wrote, got, eof>>

\* pf_accept takes the child from the queue.
pf_accept(e) ==
    /\ app[e] = "queued"
    /\ tcb[e].state # "CLOSED"
    /\ app' = [app EXCEPT ![e] = "open"]
    /\ UNCHANGED <<active, tcb, net, opens, err, wrote, got, eof>>

\* One round of pf_send: n bytes go into the send ring.
pf_send(e, n) ==
    LET t == tcb[e]
        bytes == [k \in 1..n |-> wrote[e] + k]
    IN  /\ app[e] = "open"
        /\ t.state \in {"ESTABLISHED", "CLOSE_WAIT"}
        /\ n <= TCP_SNDBUF - Len(t.sndq)
        /\ wrote[e] + n <= MaxBytes[e]
        /\ Commit(e, tcp_output(Ctx([t EXCEPT !.sndq = @ \o bytes])), net[e])
        /\ wrote' = [wrote EXCEPT ![e] = @ + n]
        /\ UNCHANGED <<active, opens, app, err, got, eof>>

\* pf_recv with data in the ring: n bytes are returned, and a window that
\* was advertised as zero is reopened once it holds a full segment.
pf_recv(e, n) ==
    LET t == tcb[e]
        u == [t EXCEPT !.rcvq = SubSeq(@, n + 1, Len(@))]
        reopen == t.rcv_wnd_advertised = 0 /\ tcp_rcv_window(u) >= TCP_MSS
    IN  /\ app[e] = "open"
        /\ n <= Len(t.rcvq)
        /\ Commit(e, IF reopen THEN tcp_send_ctl(Ctx(u), {"ACK"}) ELSE Ctx(u), net[e])
        /\ got' = [got EXCEPT ![e] = @ \o SubSeq(t.rcvq, 1, n)]
        /\ UNCHANGED <<active, opens, app, err, wrote, eof>>

\* pf_recv returns 0.
recv_eof(e) ==
    /\ app[e] = "open"
    /\ ~eof[e]
    /\ IF tcb[e].state = "CLOSED" THEN err[e] = "none"
       ELSE tcb[e].rcvq = <<>> /\ tcb[e].rcv_eof
    /\ eof' = [eof EXCEPT ![e] = TRUE]
    /\ UNCHANGED <<active, tcb, net, opens, app, err, wrote, got>>

\* pf_close: the socket is released, tcp_app_close queues the FIN.
CloseState == [SYN_RCVD |-> "FIN_WAIT_1", ESTABLISHED |-> "FIN_WAIT_1",
               CLOSE_WAIT |-> "LAST_ACK"]

pf_close(e) ==
    LET t == tcb[e]
        u == [t EXCEPT !.state = CloseState[@], !.fin_queued = TRUE]
    IN  /\ "close" \in Calls[e]
        /\ app[e] = "open"
        /\ Commit(e, IF t.state \in DOMAIN CloseState THEN tcp_output(Ctx(u)) ELSE Ctx(t),
                  net[e])
        /\ app' = [app EXCEPT ![e] = "closed"]
        /\ UNCHANGED <<active, opens, err, wrote, got, eof>>

pf_sock_set_nodelay(e) ==
    /\ "nodelay" \in Calls[e]
    /\ app[e] = "open"
    /\ tcb[e].state # "CLOSED"
    /\ ~tcb[e].nodelay
    /\ tcb' = [tcb EXCEPT ![e].nodelay = TRUE]
    /\ UNCHANGED <<net, appVars>>

-----------------------------------------------------------------------------
(* The network.                                                            *)

deliver(e, s) ==
    /\ tcp_input(e, s, net[e] \ {s})
    /\ UNCHANGED <<dups, losses>>

\* The segment is delivered and a copy stays under way.
duplicate(e, s) ==
    /\ dups < MaxDup
    /\ tcp_input(e, s, net[e])
    /\ dups' = dups + 1
    /\ UNCHANGED losses

lose(e, s) ==
    /\ losses < MaxLoss
    /\ net' = [net EXCEPT ![e] = @ \ {s}]
    /\ losses' = losses + 1
    /\ UNCHANGED <<tcb, appVars, dups>>

LocalStep(e) ==
    \/ tcp_tick(e)
    \/ pf_connect(e)
    \/ connect_return(e)
    \/ connect_timeout(e)
    \/ pf_accept(e)
    \/ \E n \in 1..TCP_SNDBUF : pf_send(e, n)
    \/ \E n \in 1..TCP_RCVBUF : pf_recv(e, n)
    \/ recv_eof(e)
    \/ pf_close(e)
    \/ pf_sock_set_nodelay(e)

Next ==
    \/ \E e \in Ends : LocalStep(e) /\ UNCHANGED <<dups, losses>>
    \/ \E e \in Ends : \E s \in net[e] : deliver(e, s) \/ duplicate(e, s) \/ lose(e, s)

Spec == Init /\ [][Next]_vars
OpenSpec == InitOpen /\ [][Next]_vars

\* pf_loop_once polls the devices and runs the tick in every round, and the
\* network delivers what it does not lose.
Tick(e) == tcp_tick(e) /\ UNCHANGED <<dups, losses>>
Arrival(e) == \E s \in net[e] : deliver(e, s)

FairOpenSpec == OpenSpec /\ \A e \in Ends : WF_vars(Tick(e)) /\ WF_vars(Arrival(e))

\* Applications that go on reading, as the echo and iperf loops do.
Reading(e) == (\E n \in 1..TCP_RCVBUF : pf_recv(e, n)) /\ UNCHANGED <<dups, losses>>
ReaderSpec == FairOpenSpec /\ \A e \in Ends : WF_vars(Reading(e))

-----------------------------------------------------------------------------
(* Properties.                                                             *)

\* e's block belongs to the current connection of its peer.
Paired(e) ==
    /\ Synchronised(e)
    /\ opens[Peer(e)] > 0
    /\ tcb[e].irs = SeqAdd(Iss[Peer(e)], (opens[Peer(e)] - 1) * IssStep)

\* While both blocks belong to one connection, the receiver's rcv_nxt lies
\* between the sender's snd_una and snd_nxt: nothing is released from the
\* send ring that the peer has not taken, and nothing is taken that was not
\* sent.  The two are never further apart than the ring and a FIN.
SequenceSpacesAgree ==
    \A e \in Ends :
        Paired(e) /\ Paired(Peer(e)) =>
            /\ SeqDiff(tcb[Peer(e)].rcv_nxt, tcb[e].snd_una) <= in_flight(tcb[e])
            /\ in_flight(tcb[e]) <= TCP_SNDBUF + 1

\* Rings, parking list and fields keep to their bounds, and the bytes in
\* flight are in the send ring, so snd_len - sent_data in tcp_output never
\* underflows.
FlightInRing ==
    /\ TypeOK
    /\ \A e \in Ends :
          tcb[e].state \notin {"CLOSED", "SYN_SENT", "SYN_RCVD"} =>
              tcp_data_in_flight(tcb[e]) <= Len(tcb[e].sndq)

\* The retransmission timer runs exactly while something is unacknowledged.
RtoIffOutstanding ==
    \A e \in Ends :
        tcb[e].state # "TIME_WAIT" => (tcb[e].rto <=> tcb[e].snd_una # tcb[e].snd_nxt)

\* Unsent data never waits with nothing in flight, unless the peer's window
\* is zero, when the probe takes over: a window opened between two ACKs or
\* data held by Nagle is not forgotten.
NoSilentStall ==
    \A e \in Ends :
        LET t == tcb[e]
        IN  (t.state \in SendStates /\ t.sndq # <<>> /\ t.snd_una = t.snd_nxt)
                => t.snd_wnd = 0

\* Parked segments are sorted, disjoint, strictly above rcv_nxt and inside
\* the window.
OooInWindow ==
    \A e \in Ends :
        LET t == tcb[e]
            Off(k) == SeqDiff(t.ooo[k].seq, t.rcv_nxt)
        IN  \A k \in 1..Len(t.ooo) :
              /\ Off(k) >= 1
              /\ Off(k) + Len(t.ooo[k].data) <= tcp_rcv_window(t)
              /\ k > 1 => Off(k - 1) + Len(t.ooo[k - 1].data) <= Off(k)

\* The connection is a byte stream in each direction: every read returns
\* the next bytes the peer wrote, and "pf_recv returns 0 on clean EOF"
\* (sock.h:54) only when the peer closed and everything was read.
Stream == INSTANCE ByteStream WITH closed <- {e \in Ends : app[e] = "closed"}
ImplementsStream == Stream!Spec

\* Two applications that both hold the connection open hold the same one.
BothOpenPaired ==
    (\A e \in Ends : app[e] = "open" /\ Synchronised(e)) =>
        \A e \in Ends : Paired(e)


\* "app closed; emit FIN once the ring drains" (tcp.h:121): a queued FIN is
\* eventually sent, unless the connection goes away.
CloseEmitsFin ==
    \A e \in Ends :
        tcb[e].fin_queued ~> (tcb[e].fin_sent \/ tcb[e].state = "CLOSED")

\* What was written is eventually read, unless an end of the connection
\* goes away: no loss, zero window, Nagle delay or delayed ACK stops the
\* stream for good.
WrittenIsRead ==
    \A e \in Ends :
        (Len(got[Peer(e)]) < wrote[e]) ~>
            \/ Len(got[Peer(e)]) = wrote[e]
            \/ \E x \in Ends : tcb[x].state = "CLOSED"

=============================================================================
