------------------------------- MODULE Router -------------------------------
(***************************************************************************)
(* Hosts and routers that run the stack, joined by networks: ip_input,     *)
(* ip_local_deliver and ip_output (src/src/ipv4/ipv4.c), ip_forward        *)
(* (src/src/fwd/fwd.c), icmp_input and icmp_send_error                     *)
(* (src/src/icmp/icmp.c), udp_input (src/src/udp/udp.c) and the echo       *)
(* service (src/apps/udp_echo.c).                                          *)
(*                                                                         *)
(* An address is <<network, node>>, or <<network, Bcast>> for the subnet   *)
(* broadcast.  A frame is known by the node it is for: what ARP does until *)
(* it knows the next hop is in ArpCache, and shows here as delay and loss. *)
(* The table of routes is in Fib; here a node has its connected networks   *)
(* and next hops for other networks or for all of them (Default).  Of the  *)
(* IP header the model keeps the word with TTL and protocol, the sum of    *)
(* the other words and the checksum.  Fragmentation is in IpPath: what a   *)
(* node of this model originates fits its device.                          *)
(***************************************************************************)
EXTENDS Checksum, Sequences, FiniteSets

CONSTANTS
    Nodes, Nets,
    Routers,        \* the nodes with stack->forwarding
    Attached,       \* the networks of each node's devices
    Startup,        \* the routes each node starts with
    Tables,         \* the routes the operator of each node may set
    Narrow,         \* networks whose MTU a datagram of size 2 exceeds
    Sends,          \* datagrams that programs on the hosts send, once each
    Bound,          \* the UDP sockets: <<node, port>>, on every address of the node
    EchoServices,   \* those of udp_echo
    Default, Bcast, None,
    IP_DEFAULT_TTL,
    PF_SOCK_RXQ_CAP,
    Rests,          \* sums of the header words other than TTL and checksum
    MaxSent,        \* bound: datagrams sent
    MaxChanges      \* bound: changes of routes

VARIABLES
    via,        \* the next hops in each node's routing table
    net,        \* frames on their way
    quiet,      \* an ICMP error left the node less than 10 ms ago
    rxq,        \* the receive queue of each UDP socket
    sent,       \* the datagrams of Sends that have been sent
    changes,    \* bound: changes of routes
    lost,       \* history: a frame was lost
    heard       \* history: datagrams whose answer came back

vars == <<via, net, quiet, rxq, sent, changes, lost, heard>>

Kinds == {"echo", "reply", "error", "udp", "other"}
Addr == Nets \X (Nodes \cup {Bcast})

\* A routing table of n: next hops for networks besides the connected ones.
\* fib_add_via refuses a next hop that is not on a connected network.
IsTable(n, t) ==
    \A k \in DOMAIN t : k \in Nets \cup {Default} /\ t[k] \in Addr /\ t[k][1] \in Attached[n]

\* A word has 16 bits, and a header at most 30 words, of which two are not in
\* Rests.
ASSUME RouterConstants ==
    /\ Routers \subseteq Nodes
    /\ Attached \in [Nodes -> SUBSET Nets]
    /\ Startup = [n \in Nodes |-> Startup[n]]
    /\ \A n \in Nodes : IsTable(n, Startup[n]) /\ \A t \in Tables[n] : IsTable(n, t)
    /\ Sends \subseteq [id : Nat, from : Nodes, dst : Addr, ttl : 0..255, size : 0..2,
                        what : {"echo", "udp", "other"}, sport : Nat, dport : Nat,
                        later : BOOLEAN, df : BOOLEAN]
    /\ \A s, t \in Sends : s.id = t.id => s = t
    /\ Bound \subseteq Nodes \X Nat
    /\ Bcast \notin Nodes /\ None \notin Addr
    /\ IP_DEFAULT_TTL \in 1..255 /\ PF_SOCK_RXQ_CAP \in Nat \ {0}
    /\ Rests \subseteq 1..(28 * Base)
    /\ Base >= 256 * 256

proto(what) == CASE what \in {"echo", "reply", "error"} -> 1
                 [] what = "udp" -> 17
                 [] what = "other" -> 47

\* The header word that holds TTL and protocol.
ttl_word(ttl, what) == ttl * 256 + proto(what)

\* inet_csum over a header with its checksum field.
inet_csum(d) == csum_fold(d.rest + ttl_word(d.ttl, d.what) + d.csum)

-----------------------------------------------------------------------------
(* Sending.                                                                *)

stack_owns_ip(n, addr) == addr \in {<<k, n>> : k \in Attached[n]}

\* Fault variant: the gateway is not used, the destination is taken for a
\* neighbour.
ip_route_lookup_direct(n, dst) ==
    IF dst[1] \in Attached[n] THEN {[dev |-> dst[1], hop |-> dst]}
    ELSE {[dev |-> via[n][k][1], hop |-> dst] : k \in {dst[1], Default} \cap DOMAIN via[n]}

\* The device and next hop for dst, if there is a route: the destination
\* itself on a connected network, or the gateway of the longest prefix.
ip_route_lookup(n, dst) ==
    IF dst[1] \in Attached[n] THEN {[dev |-> dst[1], hop |-> dst]}
    ELSE {[dev |-> via[n][k][1], hop |-> via[n][k]] :
             k \in IF dst[1] \in DOMAIN via[n] THEN {dst[1]} ELSE {Default} \cap DOMAIN via[n]}

Others(n, dev) == {m \in Nodes \ {n} : dev \in Attached[m]}

Frame(n, dev, m, d) == [to |-> m, dev |-> dev, by |-> n, d |-> d]

\* arp_resolve and eth_output: a frame for the owner of the next hop, if there
\* is one.
Frames(n, dev, hop, d) == {Frame(n, dev, m, d) : m \in {o \in Others(n, dev) : hop = <<dev, o>>}}

\* A new header around what the upper layer hands down.
Header(src, dst, ttl, rest, l4) ==
    [id |-> l4.id, what |-> l4.what, sport |-> l4.sport, dport |-> l4.dport,
     size |-> l4.size, quote |-> l4.quote,
     src |-> src, dst |-> dst, ttl |-> ttl, later |-> l4.later, df |-> l4.df,
     rest |-> rest, csum |-> csum_fold(rest + ttl_word(ttl, l4.what))]

\* The subnet broadcast goes to every other node of the network.
ip_output_one(n, r, d) ==
    IF d.dst = <<r.dev, Bcast>> THEN {Frame(n, r.dev, m, d) : m \in Others(n, r.dev)}
    ELSE Frames(n, r.dev, r.hop, d)

\* None as a source asks for the address of the device.
ip_output(n, src, dst, ttl, rest, l4) ==
    UNION {ip_output_one(n, r, Header(IF src = None THEN <<r.dev, n>> ELSE src,
                                      dst, ttl, rest, l4)) :
              r \in {q \in ip_route_lookup(n, dst) : dst # <<q.dev, n>>}}

\* What the stack sends is not fragmented here, nor does it set DF.
Message(id, what, size, sport, dport, quote) ==
    [id |-> id, what |-> what, size |-> size, sport |-> sport, dport |-> dport,
     quote |-> quote, later |-> FALSE, df |-> FALSE]

\* The frame is consumed and others take its place.
Becomes(f, fs) == net' = (net \ {f}) \cup fs

-----------------------------------------------------------------------------
(* ICMP and UDP.                                                           *)

\* Fault variant: an error about an error is not suppressed.
MayErr_always(d) == ~d.later

\* The datagrams RFC 1122 lets an error be about.
MayErr(d) == ~d.later /\ d.what # "error"

\* The error quotes the start of the datagram it is about.
Quoted(d) == [what |-> d.what, src |-> d.src, later |-> d.later]

icmp_send_error(n, f) ==
    LET d == f.d IN
    \/ /\ ~MayErr(d) \/ quiet[n]
       /\ Becomes(f, {})
       /\ UNCHANGED quiet
    \/ /\ MayErr(d) /\ ~quiet[n]
       /\ quiet' = [quiet EXCEPT ![n] = TRUE]
       /\ \E rest \in Rests :
             Becomes(f, ip_output(n, None, d.src, IP_DEFAULT_TTL, rest,
                                  Message(d.id, "error", 1, 0, 0, Quoted(d))))

\* Fault variant: the reply leaves from the address of the device it uses.
icmp_input_device(n, f) ==
    /\ \/ /\ f.d.what = "echo"
          /\ \E rest \in Rests :
                Becomes(f, ip_output(n, None, f.d.src, IP_DEFAULT_TTL, rest,
                                     Message(f.d.id, "reply", f.d.size, 0, 0, None)))
          /\ UNCHANGED heard
       \/ /\ f.d.what \in {"reply", "error"}
          /\ Becomes(f, {})
          /\ heard' = IF f.d.what = "reply" THEN heard \cup {f.d.id} ELSE heard
    /\ UNCHANGED <<quiet, rxq>>

\* An echo request is answered from the address it was sent to.
icmp_input(n, f) ==
    /\ \/ /\ f.d.what = "echo"
          /\ \E rest \in Rests :
                Becomes(f, ip_output(n, f.d.dst, f.d.src, IP_DEFAULT_TTL, rest,
                                     Message(f.d.id, "reply", f.d.size, 0, 0, None)))
          /\ UNCHANGED heard
       \/ /\ f.d.what \in {"reply", "error"}
          /\ Becomes(f, {})
          /\ heard' = IF f.d.what = "reply" THEN heard \cup {f.d.id} ELSE heard
    /\ UNCHANGED <<quiet, rxq>>

QueueFull(q) == Len(q) >= PF_SOCK_RXQ_CAP

\* Sockets are bound to every address of their node.
pf_sock_lookup_udp(n, dport) == <<n, dport>> \in Bound

\* A socket takes what comes to its port, an ICMP error goes back where there
\* is none.
udp_input(n, f) ==
    LET d == f.d
        s == <<n, d.dport>>
    IN
    \/ /\ ~pf_sock_lookup_udp(n, d.dport)
       /\ icmp_send_error(n, f)
       /\ UNCHANGED <<rxq, heard>>
    \/ /\ pf_sock_lookup_udp(n, d.dport) /\ QueueFull(rxq[s])
       /\ Becomes(f, {})
       /\ UNCHANGED <<quiet, rxq, heard>>
    \/ /\ pf_sock_lookup_udp(n, d.dport) /\ ~QueueFull(rxq[s])
       /\ rxq' = [rxq EXCEPT ![s] = Append(@, [id |-> d.id, src |-> d.src, sport |-> d.sport,
                                               size |-> d.size])]
       /\ Becomes(f, {})
       /\ UNCHANGED <<quiet, heard>>

-----------------------------------------------------------------------------
(* Receiving and forwarding.                                               *)

ip_local_deliver(n, f) ==
    \/ f.d.what \in {"echo", "reply", "error"} /\ icmp_input(n, f)
    \/ f.d.what = "udp" /\ udp_input(n, f)
    \/ f.d.what = "other" /\ icmp_send_error(n, f) /\ UNCHANGED <<rxq, heard>>

\* Fault variant: the TTL is not decremented.
Forwarded_same(d) == d

\* The datagram with its TTL decremented and its checksum updated.
Forwarded(d) ==
    [d EXCEPT !.ttl = @ - 1,
              !.csum = csum_update16(@, ttl_word(d.ttl, d.what), ttl_word(d.ttl - 1, d.what))]

BadDst(n, dst) == dst[2] = Bcast /\ dst[1] \in Attached[n]

\* Fault variant: the datagram whose TTL has run out is not dropped after the error.
ip_forward_both(n, f) ==
    LET d == f.d
        rt == ip_route_lookup(n, d.dst)
    IN
    \/ /\ d.ttl <= 1
       /\ ~quiet[n] /\ MayErr(d)
       /\ quiet' = [quiet EXCEPT ![n] = TRUE]
       /\ \E r \in rt, rest \in Rests :
             Becomes(f, Frames(n, r.dev, r.hop, d)
                        \cup ip_output(n, None, d.src, IP_DEFAULT_TTL, rest,
                                       Message(d.id, "error", 1, 0, 0, Quoted(d))))
    \/ /\ d.ttl > 1
       /\ \E r \in rt : Becomes(f, Frames(n, r.dev, r.hop, Forwarded(d)))
       /\ UNCHANGED quiet

ip_forward(n, f) ==
    LET d == f.d
        rt == ip_route_lookup(n, d.dst)
    IN
    \/ /\ BadDst(n, d.dst)
       /\ Becomes(f, {})
       /\ UNCHANGED quiet
    \/ /\ ~BadDst(n, d.dst)
       /\ d.ttl <= 1 \/ rt = {}
       /\ icmp_send_error(n, f)
    \/ /\ ~BadDst(n, d.dst) /\ d.ttl > 1
       /\ \E r \in rt : d.size = 2 /\ r.dev \in Narrow
       /\ IF d.df THEN icmp_send_error(n, f) ELSE Becomes(f, {}) /\ UNCHANGED quiet
    \/ /\ ~BadDst(n, d.dst) /\ d.ttl > 1
       /\ \E r \in rt : /\ ~(d.size = 2 /\ r.dev \in Narrow)
                        /\ Becomes(f, Frames(n, r.dev, r.hop, Forwarded(d)))
       /\ UNCHANGED quiet

\* Fault variant: every node forwards.
Forwards_all(n) == TRUE

Forwards(n) == n \in Routers

\* A later fragment goes to reassembly, which is in IpReass.
ip_input(f) ==
    LET d == f.d
        n == f.to
        drop == Becomes(f, {}) /\ UNCHANGED <<quiet, rxq, heard>>
    IN
    /\ IF inet_csum(d) # 0 THEN drop
       ELSE IF ~stack_owns_ip(n, d.dst)
            THEN IF d.dst # <<f.dev, Bcast>> /\ Forwards(n)
                 THEN ip_forward(n, f) /\ UNCHANGED <<rxq, heard>>
                 ELSE drop
            ELSE IF d.later THEN drop ELSE ip_local_deliver(n, f)
    /\ UNCHANGED <<via, sent, changes, lost>>

-----------------------------------------------------------------------------
(* The programs, the operators, the clock and the network.                 *)

\* A program on a host sends a datagram.  Its host need not be PacketForge, so
\* TTL, fragmentation and DF are its own.
host_sends(s, rest) ==
    /\ s \notin sent /\ Cardinality(sent) < MaxSent
    /\ sent' = sent \cup {s}
    /\ net' = net \cup ip_output(s.from, None, s.dst, s.ttl, rest,
                                 [id |-> s.id, what |-> s.what, size |-> s.size,
                                  sport |-> s.sport, dport |-> s.dport, quote |-> None,
                                  later |-> s.later, df |-> s.df])
    /\ UNCHANGED <<via, quiet, rxq, changes, lost, heard>>

udp_output(n, dst, rest, l4) == ip_output(n, None, dst, IP_DEFAULT_TTL, rest, l4)

\* Port 0 is refused: it stands for a sender that wants no answer.
pf_sendto(b, id, size, dst, dport, rest) ==
    IF dport = 0 THEN {}
    ELSE udp_output(b[1], dst, rest, Message(id, "udp", size, b[2], dport, None))

\* The loop of udp_echo: what pf_recvfrom returns goes back from the port it came
\* to, but pf_recvfrom's 0 for an empty datagram is taken for a timeout.
udp_echo(b, p, rest) ==
    IF p.size = 0 THEN {} ELSE pf_sendto(b, p.id, p.size, p.src, p.sport, rest)

\* A program takes a datagram from its socket: the echo service answers it,
\* another program is content.
pf_recvfrom(b, rest) ==
    LET p == Head(rxq[b]) IN
    /\ rxq[b] # <<>>
    /\ rxq' = [rxq EXCEPT ![b] = Tail(@)]
    /\ \/ /\ b \in EchoServices
          /\ net' = net \cup udp_echo(b, p, rest)
          /\ UNCHANGED heard
       \/ /\ b \notin EchoServices
          /\ heard' = heard \cup {p.id}
          /\ UNCHANGED net
    /\ UNCHANGED <<via, quiet, sent, changes, lost>>

cmd_ip_route(n, table) ==
    /\ changes < MaxChanges
    /\ table # via[n]
    /\ via' = [via EXCEPT ![n] = table]
    /\ changes' = changes + 1
    /\ UNCHANGED <<net, quiet, rxq, sent, lost, heard>>

\* The program on n ends and starts again with its command line's routes.
restart(n) ==
    /\ changes < MaxChanges
    /\ via' = [via EXCEPT ![n] = Startup[n]]
    /\ quiet' = [quiet EXCEPT ![n] = FALSE]
    /\ rxq' = [b \in Bound |-> IF b[1] = n THEN <<>> ELSE rxq[b]]
    /\ changes' = changes + 1
    /\ UNCHANGED <<net, sent, lost, heard>>

\* ICMP_ERR_MIN_INTERVAL_MS have passed since the last error of n.
elapse(n) ==
    /\ quiet[n]
    /\ quiet' = [quiet EXCEPT ![n] = FALSE]
    /\ UNCHANGED <<via, net, rxq, sent, changes, lost, heard>>

lose(f) ==
    /\ net' = net \ {f}
    /\ lost' = TRUE
    /\ UNCHANGED <<via, quiet, rxq, sent, changes, heard>>

Init ==
    /\ via = Startup
    /\ net = {} /\ sent = {} /\ heard = {}
    /\ quiet = [n \in Nodes |-> FALSE]
    /\ rxq = [b \in Bound |-> <<>>]
    /\ changes = 0 /\ lost = FALSE

Next ==
    \/ \E f \in net : ip_input(f)
    \/ \E s \in Sends, rest \in Rests : host_sends(s, rest)
    \/ \E b \in Bound, rest \in Rests : pf_recvfrom(b, rest)
    \/ \E n \in Nodes : \E table \in Tables[n] : cmd_ip_route(n, table)
    \/ \E n \in Nodes : restart(n)
    \/ \E n \in Nodes : elapse(n)
    \/ \E f \in net : lose(f)

\* Every event loop goes on taking the frames that reach its devices.
Spec == Init /\ [][Next]_vars /\ WF_vars(\E f \in net : ip_input(f))

-----------------------------------------------------------------------------
(* Properties.                                                             *)

\* struct ipv4_hdr with the fields of its payload that matter, each to its
\* width.  RouterProofs shows that every frame carries one of these.
Datagram ==
    [id : Nat, what : Kinds, sport : Nat, dport : Nat, size : 0..2,
     quote : [what : Kinds, src : Addr, later : BOOLEAN] \cup {None},
     src : Addr, dst : Addr, ttl : 0..255, later : BOOLEAN, df : BOOLEAN,
     rest : Rests, csum : Word]

\* No router spoils a header: the checksum ip_forward updates at every hop is
\* one that ip_input of the next hop accepts.
HeadersValid ==
    \A f \in net : inet_csum(f.d) = 0

InFrames(id) == {f \in net : f.d.id = id}
InQueues(id) == {p \in Bound \X (1..PF_SOCK_RXQ_CAP) :
                    p[2] <= Len(rxq[p[1]]) /\ rxq[p[1]][p[2]].id = id}

\* A datagram to one node is at one place and answered once: it, or the reply,
\* the echo or the error it became, is in one frame or one queue.  What is
\* dropped with an error is not forwarded as well, and what is queued or
\* answered is gone from the wire.
OneOfEach ==
    \A s \in sent : s.dst[2] # Bcast =>
        /\ \A f, g \in InFrames(s.id) : f = g
        /\ \A p, o \in InQueues(s.id) : p = o
        /\ InFrames(s.id) = {} \/ InQueues(s.id) = {}

\* An error goes to the source of the datagram it is about, and never is about
\* an error or a later fragment (the suppression rules of icmp_send_error).
ErrorsAreDue ==
    \A f \in net : f.d.what = "error" =>
        /\ f.d.dst = f.d.quote.src
        /\ f.d.quote.what # "error" /\ ~f.d.quote.later

\* A host sends what is its own, whatever a router with a wrong route hands it;
\* only a node with forwarding switched on passes on what others sent.
OnlyRoutersForward ==
    \A f \in net : f.by \notin Routers => stack_owns_ip(f.by, f.d.src)

\* A reply to a ping comes from the address that was pinged, also when that is
\* the far side of a router, and goes to the one that asked.
RepliesFromTheAsked ==
    \A f \in net : f.d.what = "reply" =>
        \E s \in sent : s.id = f.d.id /\ s.what = "echo" /\ f.d.src = s.dst /\ stack_owns_ip(s.from, f.d.dst)

\* Whatever loops the routes make, the traffic ends: the TTL falls at every hop
\* and no answer asks for another.
TrafficEnds ==
    <>[](net = {})

\* A ping with the default TTL comes back when no frame is lost and the routes
\* stay as the nodes were started with.
PingsReturn ==
    \A s \in Sends :
        /\ s.what = "echo" /\ s.ttl = IP_DEFAULT_TTL /\ ~s.later
        /\ \E n \in Nodes : stack_owns_ip(n, s.dst)
        =>
            (s \in sent ~> s.id \in heard \/ lost \/ changes > 0)
=============================================================================
