\* Linux, a logout while the keyring refuses.
SPECIFICATION Spec
CONSTANTS
    c1 = c1
    c2 = c2
    k1 = k1
    k2 = k2
    Clients = {k1, k2}
    Callers = {c1}
    Hosts <- Refusing
    MayBreak = FALSE
    MaxSaves = 2
PROPERTY
    DeleteForgets
