CONSTANTS
    p1 = p1
    p2 = p2
    l1 = l1
    l2 = l2
    Pids <- MCPids
    Lines <- MCLines
    AbortArgs <- MCAbortArgs
    numLines = 1
    MaxTxns = 4
    NoPid = NoPid
    NoAddr = NoAddr
    INVALID_UTID = INVALID_UTID
    Policies = {"LE"}
    BaseStall = 1
    MAX_EXP_BACKOFF = 1
    NoAccess = NoAccess
SPECIFICATION TSpec
INVARIANTS
    NoThreadFatal
    LayersAgree
SYMMETRY MCSymmetry
