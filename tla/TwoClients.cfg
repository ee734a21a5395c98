\* No keyring, two client ids in one token.json.
SPECIFICATION Spec
CONSTANTS
    c1 = c1
    c2 = c2
    k1 = k1
    k2 = k2
    Clients = {k1, k2}
    Callers = {c1, c2}
    Hosts <- SharedFile
    MayBreak = FALSE
    MaxSaves = 2
INVARIANT
    LoadReturnsLatest
