SPECIFICATION KeySpec
CONSTANTS
    p1 = p1
    p2 = p2
    p3 = p3
    k1 = k1
    k2 = k2
    k3 = k3
    Programs <- MCPrograms
    Keys <- MCKeys
    EnvKey = EnvKey
    NoKey = NoKey
    Cut = Cut
    Absent = Absent
    Empty = Empty
SYMMETRY MCSymmetry
INVARIANTS
    SealedOpens
PROPERTIES
    KeyStays
