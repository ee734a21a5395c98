\* The hosts on which every promise of the store holds.
SPECIFICATION Spec
CONSTANTS
    c1 = c1
    c2 = c2
    k1 = k1
    k2 = k2
    Clients = {k1, k2}
    Callers = {c1, c2}
    Hosts <- SoundHosts
    MayBreak = TRUE
    MaxSaves = 3
SYMMETRY Symmetry
INVARIANTS
    StoreInv
    TypeOK
    LoadReturnsLatest
    NoPlaintextOnDarwin
PROPERTIES
    DeleteForgets
    ImplementsTokenCell
