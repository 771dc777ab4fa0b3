CONSTANTS
    Size = 3
    StartPids = {0, 1, 2, 3}
    SkipCount = 3
    Chunk = 2
    MaxCalls = 3
SPECIFICATION SSpec
PROPERTIES
    SkipReturns
