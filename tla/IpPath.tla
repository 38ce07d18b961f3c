------------------------------- MODULE IpPath -------------------------------
(***************************************************************************)
(* Two PacketForge stacks: the sender's ip_output numbers and fragments    *)
(* datagrams, a network delivers the pieces, the receiver's ip_input and   *)
(* IpReass put them together.  Fragments of other hosts, however they were *)
(* made, compete for the receiver's contexts.                              *)
(*                                                                         *)
(* Nothing is ever removed from the network, and a piece in it may be      *)
(* delivered any number of times, in any order, or never: it loses,        *)
(* duplicates, delays and reorders.                                        *)
(***************************************************************************)
EXTENDS IpReass

CONSTANTS
    Mtus,       \* payload bytes a frame of the outgoing device carries
    Lengths,    \* datagram payloads the transports hand to ip_output
    MaxSends,   \* bound: datagrams sent; identifications are not reused
    Others      \* reassembly keys of other hosts' datagrams

Ids == 1..MaxSends

ASSUME PathConstants ==
    /\ \A m \in Mtus : m \in Nat /\ m >= FRAG_UNIT
    /\ Lengths \subseteq Nat \ {0}
    /\ MaxSends \in Nat
    /\ Others \cap Ids = {}
    /\ Keys = Ids \cup Others
    /\ Tags = Keys

VARIABLES
    net,        \* fragments and datagrams of the sender on the wire
    length      \* length[n]: payload length datagram n was sent with

vars == <<ctxs, delivered, net, length>>

TypeOK ==
    /\ ReassTypeOK
    /\ length \in Seq(Lengths)
    /\ \A f \in net : f.key \in Ids /\ f.off % FRAG_UNIT = 0

Init ==
    /\ ReassInit
    /\ net = {}
    /\ length = <<>>

\* stack->ip_id: the identification of the next datagram.
ip_id == Len(length) + 1

\* Fault variant: fragments are as long as the frame allows.
MaxChunk_whole(mtu) == mtu

\* Payload of a fragment: a multiple of the unit.
MaxChunk(mtu) == FRAG_UNIT * (mtu \div FRAG_UNIT)

\* The frames ip_output makes of n payload bytes.  The offset field counts
\* units.
Piece(n, len, off, chunk) ==
    [key |-> n, tag |-> n, off |-> FRAG_UNIT * (off \div FRAG_UNIT),
     len |-> IF len - off < chunk THEN len - off ELSE chunk,
     mf |-> off + chunk < len]

Pieces(n, len, mtu) ==
    IF len <= mtu THEN {Piece(n, len, 0, len)}
    ELSE {Piece(n, len, k * MaxChunk(mtu), MaxChunk(mtu)) : k \in 0..((len - 1) \div MaxChunk(mtu))}

ip_output(len, mtu) ==
    /\ ip_id \in Ids
    /\ net' = net \cup Pieces(ip_id, len, mtu)
    /\ length' = Append(length, len)
    /\ delivered' = None
    /\ UNCHANGED ctxs

\* ip_input on the receiver: a whole datagram goes straight up.
ip_input(f) ==
    /\ \/ IsFragment(f) /\ ip_reass_input(f)
       \/ /\ ~IsFragment(f)
          /\ delivered' = [key |-> f.key, data |-> [b \in 1..f.len |-> f.tag]]
          /\ UNCHANGED ctxs
    /\ UNCHANGED <<net, length>>

deliver == \E f \in net : ip_input(f)
deliver_other == \E k \in Others : \E f \in Fragments(k, k) : ip_input(f)

Tick == ip_reass_tick /\ UNCHANGED <<net, length>>
Clock == Advance /\ UNCHANGED <<net, length>>

Next ==
    \/ \E len \in Lengths, mtu \in Mtus : ip_output(len, mtu)
    \/ deliver
    \/ deliver_other
    \/ Tick
    \/ Clock

\* The event loop keeps ticking and time passes.
Spec == Init /\ [][Next]_vars /\ WF_vars(Tick) /\ WF_vars(Clock)

-----------------------------------------------------------------------------
(* Properties.                                                             *)

\* Whatever the network and other hosts do, a datagram of the sender that
\* comes out of reassembly is one that went into ip_output: its own bytes,
\* all of them and no others.  No datagram at all has a byte that no fragment
\* filled.
DatagramIntact ==
    delivered # None =>
        /\ \A b \in DOMAIN delivered.data : delivered.data[b] \in Tags
        /\ delivered.key \in Ids =>
              LET n == delivered.key
              IN  n < ip_id /\ delivered.data = [b \in 1..length[n] |-> n]

\* Contexts keep to the bounds of their buffer and of their list of ranges,
\* and know which bytes of the buffer ip_reass_input has filled.
ContextsSound == TypeOK /\ RangesDescribeBuffer

\* What ip_output sends of a datagram is what reassembly needs of it: pieces
\* it does not refuse, that cover every byte once, exactly one of them the
\* last.
PiecesTile ==
    \A n \in DOMAIN length :
        LET ps == {f \in net : f.key = n}
        IN  /\ \A f \in ps : ~BadFrag(f)
            /\ \A b \in 0..(length[n] - 1) :
                  \E f \in ps : /\ f.off <= b /\ b < End(f)
                               /\ \A g \in ps : (g.off <= b /\ b < End(g)) => g = f
            /\ \A f \in ps : ~f.mf <=> End(f) = length[n]

=============================================================================
