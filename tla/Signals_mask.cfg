CONSTANTS
    SignalIDs = {s1, s2}
    MaxSends = 3
SPECIFICATION Spec
INVARIANT
    MaskRespected
