CONSTANTS
    ArgValues <- WideArgs
    PidValues <- MCPidValues
SPECIFICATION Spec
INVARIANTS
    AbortRVDecodes
