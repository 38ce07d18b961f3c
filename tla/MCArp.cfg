SPECIFICATION FairSpec
CONSTANTS
    h1 = h1
    h2 = h2
    h3 = h3
    m1 = m1
    m2 = m2
    None = None
    Hops = {h1, h2, h3}
    Macs = {m1, m2}
    MacsOf <- MacsOfMC
    Devs = {d1}
    ARP_CACHE_SIZE = 2
    ARP_CACHE_TTL = 2
    ARP_PENDING_RETRY = 1
    ARP_PENDING_MAX_TRIES = 2
    ARP_WAITQ_MAX = 2
    MaxPkts = 3
    MaxLate = 0
INVARIANTS
    IInv
    PacketConserved
    FifoPerHop
PROPERTIES
    SentToLatestBinding
    ParkedLeaves
