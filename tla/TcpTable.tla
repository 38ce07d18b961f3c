------------------------------ MODULE TcpTable ------------------------------
(***************************************************************************)
(* The TCP sockets of one PacketForge stack: the socket table (sock.c),    *)
(* the table of control blocks with listeners, embryonic children and      *)
(* accept queues (tcp.c, tcp_sock.c), and the pointers between them.       *)
(*                                                                         *)
(* A pointer to a control block is its slot, so a pointer that outlives    *)
(* the block it was taken from refers to whatever the slot holds now, as   *)
(* in the code.  A segment is reduced to what it makes tcp_input do; which *)
(* of them a peer sends is its own choice.  The host has one address; UDP  *)
(* sockets are not in the table, and the error code of a socket is left to *)
(* TcpConn.                                                                *)
(***************************************************************************)
EXTENDS Integers, Sequences

CONSTANTS
    PF_SOCK_MAX,        \* sockets
    TCP_MAX_CONNS,      \* control blocks
    TCP_ACCEPT_QLEN,    \* longest accept queue
    Ports,              \* local ports in use
    Peers,              \* remote addresses and ports
    NoPort, NoPeer      \* local_port = 0, no remote end

ASSUME TableConstants ==
    /\ {PF_SOCK_MAX, TCP_MAX_CONNS, TCP_ACCEPT_QLEN} \subseteq Nat \ {0}
    /\ NoPort \notin Ports
    /\ NoPeer \notin Peers

VARIABLES
    socks,      \* struct pf_sock socks[PF_SOCK_MAX]
    tcbs,       \* struct tcp_cb tcbs[TCP_MAX_CONNS]
    connecting, \* the socket whose pf_connect is waiting, or NULL
    died        \* history: a connection ended while it was in an accept queue

vars == <<socks, tcbs, connecting, died>>

NULL == -1
Socks == 0..(PF_SOCK_MAX - 1)
Tcbs == 0..(TCP_MAX_CONNS - 1)

Closing == {"FIN_WAIT_1", "FIN_WAIT_2", "CLOSING", "LAST_ACK", "TIME_WAIT"}
States == {"CLOSED", "LISTEN", "SYN_SENT", "SYN_RCVD", "ESTABLISHED", "CLOSE_WAIT"} \cup Closing

SockType == [used : BOOLEAN, port : Ports \cup {NoPort}, tcb : Tcbs \cup {NULL}]

TcbType == [active : BOOLEAN, state : States, sock : Socks \cup {NULL},
            port : Ports \cup {NoPort}, peer : Peers \cup {NoPeer},
            listener : Tcbs \cup {NULL}, backlog : 0..TCP_ACCEPT_QLEN, acceptq : Seq(Tcbs)]

TypeOK ==
    /\ socks \in [Socks -> SockType]
    /\ tcbs \in [Tcbs -> TcbType]
    /\ connecting \in Socks \cup {NULL}
    /\ died \in BOOLEAN

ClearSock == [used |-> FALSE, port |-> NoPort, tcb |-> NULL]

\* A zeroed block: its sock_idx is 0, not NULL.
ClearTcb ==
    [active |-> FALSE, state |-> "CLOSED", sock |-> 0, port |-> NoPort, peer |-> NoPeer,
     listener |-> NULL, backlog |-> 0, acceptq |-> <<>>]

Init ==
    /\ socks = [i \in Socks |-> ClearSock]
    /\ tcbs = [k \in Tcbs |-> ClearTcb]
    /\ connecting = NULL
    /\ died = FALSE

-----------------------------------------------------------------------------
(* Slots.                                                                  *)

FreeSock(i) == ~socks[i].used /\ \A j \in Socks : j < i => socks[j].used
NoFreeSock == \A i \in Socks : socks[i].used

\* tcb_alloc hands out slot k.
tcb_alloc(k) == ~tcbs[k].active /\ \A j \in Tcbs : j < k => tcbs[j].active
TableFull == \A k \in Tcbs : tcbs[k].active

NewTcb(state, sock, port, peer) ==
    [ClearTcb EXCEPT !.active = TRUE, !.state = state, !.sock = sock, !.port = port,
                     !.peer = peer]

pf_sock_port_in_use(port) == \E i \in Socks : socks[i].used /\ socks[i].port = port

\* tcb_lookup: the first block with these addresses, else the last listener.
Connected(k, port, peer) ==
    tcbs[k].active /\ tcbs[k].state # "LISTEN" /\ tcbs[k].port = port /\ tcbs[k].peer = peer

Listening(k, port) == tcbs[k].active /\ tcbs[k].state = "LISTEN" /\ tcbs[k].port = port

Found(k) == \A j \in Tcbs : j < k => ~Connected(j, tcbs[k].port, tcbs[k].peer)

FoundListener(k, port, peer) ==
    /\ \A j \in Tcbs : ~Connected(j, port, peer)
    /\ Listening(k, port)
    /\ \A j \in Tcbs : j > k => ~Listening(j, port)

\* Fault variant: a listener leaves its children behind.
Doomed_alone(t, k) == {k}

\* tcb_free and tcp_conn_error on slot k of table t: a listener takes the
\* children that still point to it along; the sockets of the blocks that go
\* are detached.
Doomed(t, k) ==
    {k} \cup {c \in Tcbs : t[k].state = "LISTEN" /\ t[c].active /\ t[c].listener = k}

FreeTcbs(t, k) == [c \in Tcbs |-> IF c \in Doomed(t, k) THEN ClearTcb ELSE t[c]]

\* Fault variant: the socket keeps its pointer.
Detached_not(s, t, k) == s

Detached(s, t, k) ==
    [i \in Socks |-> IF \E c \in Doomed(t, k) : t[c].sock = i THEN [s[i] EXCEPT !.tcb = NULL]
                    ELSE s[i]]

tcb_free(k) ==
    /\ tcbs' = FreeTcbs(tcbs, k)
    /\ socks' = Detached(socks, tcbs, k)

-----------------------------------------------------------------------------
(* Socket calls.  A call that waits pumps the event loop; nothing else of  *)
(* the application runs meanwhile.                                         *)

AppRuns == connecting = NULL

pf_socket(i) ==
    /\ AppRuns
    /\ FreeSock(i)
    /\ socks' = [socks EXCEPT ![i] = [ClearSock EXCEPT !.used = TRUE]]
    /\ UNCHANGED <<tcbs, connecting, died>>

pf_bind(i, port) ==
    /\ AppRuns
    /\ socks[i].used
    /\ ~pf_sock_port_in_use(port)
    /\ socks' = [socks EXCEPT ![i].port = port]
    /\ UNCHANGED <<tcbs, connecting, died>>

Backlog(n) == IF n = 0 THEN 1 ELSE IF n < TCP_ACCEPT_QLEN THEN n ELSE TCP_ACCEPT_QLEN

pf_listen(i, backlog) ==
    /\ AppRuns
    /\ socks[i].used
    /\ socks[i].port # NoPort
    /\ socks[i].tcb = NULL
    /\ \E k \in Tcbs :
          /\ tcb_alloc(k)
          /\ tcbs' = [tcbs EXCEPT ![k] = [NewTcb("LISTEN", i, socks[i].port, NoPeer)
                                            EXCEPT !.backlog = Backlog(backlog)]]
          /\ socks' = [socks EXCEPT ![i].tcb = k]
    /\ UNCHANGED <<connecting, died>>

\* An unbound socket gets an ephemeral port, and keeps it when no control
\* block is free.
ConnectPort(i, port) ==
    IF socks[i].port = NoPort THEN ~pf_sock_port_in_use(port) ELSE port = socks[i].port

pf_connect(i, port, peer) ==
    /\ AppRuns
    /\ socks[i].used
    /\ socks[i].tcb = NULL
    /\ ConnectPort(i, port)
    /\ \/ \E k \in Tcbs :
             /\ tcb_alloc(k)
             /\ tcbs' = [tcbs EXCEPT ![k] = NewTcb("SYN_SENT", i, port, peer)]
             /\ socks' = [socks EXCEPT ![i] = [@ EXCEPT !.port = port, !.tcb = k]]
             /\ connecting' = i
             /\ UNCHANGED died
       \/ /\ TableFull
          /\ socks' = [socks EXCEPT ![i].port = port]
          /\ UNCHANGED <<tcbs, connecting, died>>

connect_return ==
    /\ connecting # NULL
    /\ LET k == socks[connecting].tcb IN k # NULL => tcbs[k].state = "ESTABLISHED"
    /\ connecting' = NULL
    /\ UNCHANGED <<socks, tcbs, died>>

\* The deadline passes: tcp_app_abort.
connect_timeout ==
    /\ connecting # NULL
    /\ LET k == socks[connecting].tcb
       IN  /\ k # NULL
           /\ tcbs[k].state # "ESTABLISHED"
           /\ tcb_free(k)
    /\ connecting' = NULL
    /\ UNCHANGED died

\* The first child of the queue gets a socket of its own, or is aborted
\* when there is none.
pf_accept(i) ==
    LET l     == socks[i].tcb
        child == Head(tcbs[l].acceptq)
        t     == [tcbs EXCEPT ![l].acceptq = Tail(@)]
    IN  /\ AppRuns
        /\ socks[i].used
        /\ l # NULL
        /\ tcbs[l].state = "LISTEN"
        /\ tcbs[l].acceptq # <<>>
        /\ \/ \E n \in Socks :
                 /\ FreeSock(n)
                 /\ socks' = [socks EXCEPT ![n] = [used |-> TRUE, port |-> t[child].port,
                                                   tcb |-> child]]
                 /\ tcbs' = [t EXCEPT ![child].sock = n, ![child].listener = NULL]
           \/ /\ NoFreeSock
              /\ tcbs' = FreeTcbs(t, child)
              /\ socks' = Detached(socks, t, child)
        /\ UNCHANGED <<connecting, died>>

\* Fault variant: the CLOSE_WAIT case is missing.
AfterClose_open == [SYN_RCVD |-> "FIN_WAIT_1", ESTABLISHED |-> "FIN_WAIT_1"]

\* pf_close detaches the socket and lets the connection go on closing.
AfterClose == [SYN_RCVD |-> "FIN_WAIT_1", ESTABLISHED |-> "FIN_WAIT_1",
               CLOSE_WAIT |-> "LAST_ACK"]

AppClosed(t, k) ==
    IF t[k].state \in {"LISTEN", "SYN_SENT"} THEN FreeTcbs(t, k)
    ELSE IF t[k].state \in DOMAIN AfterClose THEN [t EXCEPT ![k].state = AfterClose[@]]
    ELSE t

\* Fault variant: the block keeps naming the closed socket.
Disowned_not(k) == tcbs

Disowned(k) == [tcbs EXCEPT ![k].sock = NULL]

pf_close(i) ==
    LET k == socks[i].tcb
        t == Disowned(k)
        s == IF t[k].state \in {"LISTEN", "SYN_SENT"} THEN Detached(socks, t, k)
             ELSE socks
    IN  /\ AppRuns
        /\ socks[i].used
        /\ IF k = NULL
           THEN socks' = [socks EXCEPT ![i] = ClearSock] /\ UNCHANGED tcbs
           ELSE socks' = [s EXCEPT ![i] = ClearSock] /\ tcbs' = AppClosed(t, k)
        /\ UNCHANGED <<connecting, died>>

-----------------------------------------------------------------------------
(* tcp_input and tcp_tick on the table.                                    *)

\* Fault variant: one child too many.
QueueRoom_over(l) == Len(tcbs[l].acceptq) <= tcbs[l].backlog

QueueRoom(l) == Len(tcbs[l].acceptq) < tcbs[l].backlog

\* A SYN for a listener: a child, unless the queue or the table is full.
input_syn(l, port, peer) ==
    /\ FoundListener(l, port, peer)
    /\ QueueRoom(l)
    /\ \E k \in Tcbs :
          /\ tcb_alloc(k)
          /\ tcbs' = [tcbs EXCEPT ![k] = [NewTcb("SYN_RCVD", NULL, port, peer)
                                            EXCEPT !.listener = l]]
    /\ UNCHANGED <<socks, connecting, died>>

\* The answer to our SYN, with or without an ACK of it.
input_synack(k, state) ==
    /\ tcbs[k].state = "SYN_SENT"
    /\ Found(k)
    /\ state \in {"ESTABLISHED", "SYN_RCVD"}
    /\ tcbs' = [tcbs EXCEPT ![k].state = state]
    /\ UNCHANGED <<socks, connecting, died>>

\* What the rest of tcp_input makes of a synchronised state: the ACK of our
\* FIN, then the peer's FIN, either or both in one segment.
AfterFinAck == [FIN_WAIT_1 |-> "FIN_WAIT_2", CLOSING |-> "TIME_WAIT"]
AfterFin == [ESTABLISHED |-> "CLOSE_WAIT", FIN_WAIT_1 |-> "CLOSING", FIN_WAIT_2 |-> "TIME_WAIT"]

Moved(after, state, happens) ==
    IF happens /\ state \in DOMAIN after THEN after[state] ELSE state

\* The handshake completes: a child goes to its listener's queue, or is
\* aborted when that has filled up meanwhile.
input_handshake(k, fin) ==
    LET l == tcbs[k].listener
        state == Moved(AfterFin, "ESTABLISHED", fin)
    IN  /\ tcbs[k].state = "SYN_RCVD"
        /\ Found(k)
        /\ \/ /\ l = NULL
              /\ tcbs' = [tcbs EXCEPT ![k].state = state]
              /\ UNCHANGED socks
           \/ /\ l # NULL
              /\ QueueRoom(l)
              /\ tcbs' = [tcbs EXCEPT ![k].state = state, ![l].acceptq = Append(@, k)]
              /\ UNCHANGED socks
           \/ /\ l # NULL
              /\ ~QueueRoom(l)
              /\ tcb_free(k)
        /\ UNCHANGED <<connecting, died>>

input_segment(k, finAcked, fin) ==
    /\ tcbs[k].state \in {"ESTABLISHED", "CLOSE_WAIT"} \cup Closing
    /\ Found(k)
    /\ IF tcbs[k].state = "LAST_ACK" /\ finAcked
       THEN tcb_free(k)
       ELSE /\ tcbs' = [tcbs EXCEPT ![k].state = Moved(AfterFin, Moved(AfterFinAck, @, finAcked),
                                                      fin)]
            /\ UNCHANGED socks
    /\ UNCHANGED <<connecting, died>>

Queued(k) == \E l \in Tcbs : \E n \in 1..Len(tcbs[l].acceptq) : tcbs[l].acceptq[n] = k

\* RST frees the block, whether or not its socket hears of an error.
input_rst(k) ==
    /\ tcbs[k].active
    /\ tcbs[k].state # "LISTEN"
    /\ Found(k)
    /\ tcb_free(k)
    /\ died' = (died \/ Queued(k))
    /\ UNCHANGED connecting

\* tcp_tick: retransmissions are exhausted, or TIME_WAIT is over.
tick_rto_abort(k) ==
    /\ tcbs[k].active
    /\ tcbs[k].state \notin {"LISTEN", "FIN_WAIT_2", "TIME_WAIT"}
    /\ tcb_free(k)
    /\ died' = (died \/ Queued(k))
    /\ UNCHANGED connecting

tick_timewait(k) ==
    /\ tcbs[k].state = "TIME_WAIT"
    /\ tcb_free(k)
    /\ UNCHANGED <<connecting, died>>

Next ==
    \/ \E i \in Socks : pf_socket(i) \/ pf_accept(i) \/ pf_close(i)
    \/ \E i \in Socks, port \in Ports : pf_bind(i, port)
    \/ \E i \in Socks, backlog \in 0..(TCP_ACCEPT_QLEN + 1) : pf_listen(i, backlog)
    \/ \E i \in Socks, port \in Ports, peer \in Peers : pf_connect(i, port, peer)
    \/ connect_return
    \/ connect_timeout
    \/ \E l \in Tcbs, port \in Ports, peer \in Peers : input_syn(l, port, peer)
    \/ \E k \in Tcbs, state \in States : input_synack(k, state)
    \/ \E k \in Tcbs, fin \in BOOLEAN : input_handshake(k, fin)
    \/ \E k \in Tcbs, finAcked, fin \in BOOLEAN : input_segment(k, finAcked, fin)
    \/ \E k \in Tcbs : input_rst(k) \/ tick_rto_abort(k) \/ tick_timewait(k)

Spec == Init /\ [][Next]_vars

-----------------------------------------------------------------------------
(* Properties.                                                             *)

\* "TCP connection backing this socket" (sock.h:27): the block a socket
\* points to is in use and points back, so no two sockets drive one
\* connection and no socket drives a recycled slot.
SocketOwnsTcb ==
    \A i \in Socks :
        LET k == socks[i].tcb
        IN  k # NULL => tcbs[k].active /\ tcbs[k].sock = i

\* Sockets and control blocks agree on who belongs to whom, so pf_send and
\* pf_recv work on the socket's own connection and tcb_detach_sock reports an
\* error to the connection's own socket, as long as no connection ends in an
\* accept queue.
OwnersAgree ==
    ~died => /\ SocketOwnsTcb
             /\ \A k \in Tcbs :
                   (tcbs[k].active /\ tcbs[k].sock # NULL) => socks[tcbs[k].sock].tcb = k

\* A child's listener is alive: closing the listening socket takes every
\* embryonic and unaccepted child along, so no handshake completes into the
\* queue of a recycled slot.
ListenerLive ==
    \A k \in Tcbs :
        LET l == tcbs[k].listener
        IN  l # NULL => tcbs[l].active /\ tcbs[l].state = "LISTEN"

\* Accept queues respect their backlog, which pf_listen clamps; as long as no
\* connection ends in one, they hold each child once, and only children that
\* are established and still belong to the listener.
QueueHoldsChildren ==
    /\ TypeOK
    /\ \A l \in Tcbs :
          LET q == tcbs[l].acceptq
          IN  /\ Len(q) <= tcbs[l].backlog
              /\ ~died => \A n \in 1..Len(q) :
                    /\ tcbs[q[n]].listener = l
                    /\ tcbs[q[n]].state \in {"ESTABLISHED", "CLOSE_WAIT"}
                    /\ \A m \in 1..Len(q) : q[m] = q[n] => m = n

\* No connection is forgotten: a block that is not on its way to being
\* closed belongs to a socket or waits for pf_accept.
NoOrphan ==
    \A k \in Tcbs :
        (tcbs[k].active /\ tcbs[k].state \notin Closing) =>
            tcbs[k].sock # NULL \/ tcbs[k].listener # NULL

=============================================================================
