SPECIFICATION Spec
CONSTANTS
    other = other
    Others <- OthersMC
    Keys <- KeysMC
    Tags <- KeysMC
    Junk = junk
    None = None
    IP_REASS_CTXS = 2
    IP_REASS_TIMEOUT = 1
    IP_REASS_MAX_RANGES = 3
    IP_REASS_MAX_PAYLOAD = 10
    FRAG_UNIT = 2
    FragLens = {0, 1, 2}
    MaxLate = 0
    MaxSends = 2
    Mtus = {3, 4}
    Lengths = {4}
INVARIANTS ContextsSound OneContextPerDatagram CompleteIsDelivered DatagramIntact PiecesTile
PROPERTY ContextEnds
