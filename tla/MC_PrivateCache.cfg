CONSTANTS
    a1 = a1
    a2 = a2
    a3 = a3
    a4 = a4
    Addrs <- MCAddrs
    Assoc = 3
    NoTag = NoTag
SYMMETRY MCSymmetry
SPECIFICATION Spec
INVARIANTS
    TypeOK
    NoFatal
    UniqueTags
    WriteSetResident
