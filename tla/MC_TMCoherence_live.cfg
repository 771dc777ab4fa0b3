CONSTANTS
    p1 = p1
    p2 = p2
    p3 = p3
    l1 = l1
    l2 = l2
    Pids <- MCPidsLive
    Lines <- MCLines
    numLines = 2
    MaxTxns = 3
    NoPid = NoPid
    NoAddr = NoAddr
    INVALID_UTID = INVALID_UTID
    Policies = {"LE", "EE"}
    BaseStall = 1
    MAX_EXP_BACKOFF = 1
    NoAccess = NoAccess
SPECIFICATION LiveSpec
INVARIANTS
    NoLiveConflict
PROPERTIES
    ImplementsAtomic
    MarkedAbortCompletes
    PendingAccessCompletes
