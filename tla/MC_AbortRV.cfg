CONSTANTS
    ArgValues <- NarrowArgs
    PidValues <- MCPidValues
SPECIFICATION Spec
INVARIANTS
    AbortRVDecodes
