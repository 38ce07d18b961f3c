SPECIFICATION Spec
CONSTANTS
    a = a
    b = b
    q = q
    r = r
    None = None
    Default = Default
    Bcast = Bcast
    Nodes = {a, b, q, r}
    Nets = {1, 2, 3, 4}
    Routers = {q, r}
    Attached <- AttachedMC
    Startup <- StartupMC
    Tables <- TablesMC
    Narrow = {2}
    Sends <- SendsMC
    Bound <- BoundMC
    EchoServices <- EchoServicesMC
    IP_DEFAULT_TTL = 3
    PF_SOCK_RXQ_CAP = 1
    Rests = {65022}
    Base = 65536
    MaxSent = 2
    MaxChanges = 2
INVARIANTS
    HeadersValid
    OneOfEach
    ErrorsAreDue
    OnlyRoutersForward
    RepliesFromTheAsked
PROPERTIES
    TrafficEnds
    PingsReturn
CHECK_DEADLOCK FALSE
