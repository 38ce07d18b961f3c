SPECIFICATION Spec
CONSTANTS
    p1 = p1
    p2 = p2
    c1 = c1
    c2 = c2
    NoPort = NoPort
    NoPeer = NoPeer
    Ports = {p1}
    Peers <- PeersMC
    PF_SOCK_MAX = 2
    TCP_MAX_CONNS = 3
    TCP_ACCEPT_QLEN = 1
SYMMETRY Symmetry
INVARIANTS OwnersAgree ListenerLive QueueHoldsChildren NoOrphan
