SPECIFICATION ReaderSpec
CONSTANTS
    SEQ_MOD = 32
    TCP_MSS = 1
    TCP_IW = 2
    TCP_SNDBUF = 2
    TCP_RCVBUF = 1
    TCP_OOO_MAX = 2
    TCP_MAX_RTX = 1
    Roles <- AConnects
    Iss <- IssMC
    IssStep = 5
    Calls <- Quiet
    MaxBytes <- OneWay3
    MaxOpens = 1
    MaxNet = 3
    MaxDup = 0
    MaxLoss = 1
INVARIANTS
    NoSilentStall
PROPERTIES
    WrittenIsRead
CHECK_DEADLOCK FALSE
