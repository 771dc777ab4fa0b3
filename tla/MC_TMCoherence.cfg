CONSTANTS
    p1 = p1
    p2 = p2
    p3 = p3
    l1 = l1
    l2 = l2
    Pids <- MCPids
    Lines <- MCLines
    numLines = 2
    MaxTxns = 3
    NoPid = NoPid
    NoAddr = NoAddr
    INVALID_UTID = INVALID_UTID
    Policies = {"LE"}
    BaseStall = 1
    MAX_EXP_BACKOFF = 1
    NoAccess = NoAccess
SPECIFICATION Spec
INVARIANTS
    TypeOK
    NoLiveConflict
    OwnershipConsistent
    AbortAttribution
PROPERTY
    ImplementsAtomic
SYMMETRY MCSymmetry
