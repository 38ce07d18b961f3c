SPECIFICATION FairOpenSpec
CONSTANTS
    SEQ_MOD = 32
    TCP_MSS = 1
    TCP_IW = 2
    TCP_SNDBUF = 2
    TCP_RCVBUF = 1
    TCP_OOO_MAX = 1
    TCP_MAX_RTX = 0
    Roles <- AConnects
    Iss <- IssMC
    IssStep = 5
    Calls <- BothClose
    MaxBytes <- OneWay2
    MaxOpens = 1
    MaxNet = 6
    MaxDup = 0
    MaxLoss = 0
PROPERTIES
    CloseEmitsFin
CHECK_DEADLOCK FALSE
