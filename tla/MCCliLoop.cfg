SPECIFICATION Spec
CONSTANTS
    ann = ann
    bob = bob
    cem = cem
    None = None
    Operators = {ann, bob, cem}
    Hasty = {ann}
    Script <- ScriptMC
    NDevs = 1
    RX_BATCH = 1
    CLI_MAX_CLIENTS = 2
    CLI_LINE_MAX = 2
    READ_MAX = 3
    SOMAX = 1
    OUT_MAX = 1
    RXQ_MAX = 1
INVARIANTS
    RunsWhatWasTyped
    SlotsMatchConnections
PROPERTIES
    TimersRun
    NobodyWaits
    StopStops
CHECK_DEADLOCK FALSE
