SPECIFICATION OpenSpec
CONSTANTS
    SEQ_MOD = 32
    TCP_MSS = 2
    TCP_IW = 4
    TCP_SNDBUF = 2
    TCP_RCVBUF = 2
    TCP_OOO_MAX = 2
    TCP_MAX_RTX = 1
    Roles <- AConnects
    Iss <- IssMC
    IssStep = 5
    Calls <- ACloses
    MaxBytes <- OneWay2
    MaxOpens = 1
    MaxNet = 3
    MaxDup = 1
    MaxLoss = 0
INVARIANTS
    OooInWindow
    FlightInRing
    RtoIffOutstanding
PROPERTY
    ImplementsStream
CHECK_DEADLOCK FALSE
