CONSTANTS
    PageSize = 16
    MaxAddr = 17
    MaxLen = 20
    StrBytes = 4
    MaxStrSize = 3
SPECIFICATION Spec
INVARIANTS
    RawAccessSafe
    TypeOK
    CopiesExactly
    StringReadCorrect
PROPERTY
    CallsReturn
