SPECIFICATION Spec
CONSTANTS
    SEQ_MOD = 32
    TCP_MSS = 1
    TCP_IW = 2
    TCP_SNDBUF = 2
    TCP_RCVBUF = 2
    TCP_OOO_MAX = 1
    TCP_MAX_RTX = 1
    Roles <- AnyConnects
    Iss <- IssMC
    IssStep = 5
    Calls <- Everything
    MaxBytes <- NoBytes
    MaxOpens = 2
    MaxNet = 2
    MaxDup = 1
    MaxLoss = 0
INVARIANTS
    BothOpenPaired
    SequenceSpacesAgree
CHECK_DEADLOCK FALSE
