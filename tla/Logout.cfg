\* A logout while a process with the token in memory refreshes it.
SPECIFICATION Spec
CONSTANTS
    p1 = p1
    p2 = p2
    a1 = a1
    a2 = a2
    b1 = b1
    NoOne = NoOne
    Procs <- MCProcs
    Workers = {a1}
    ProcOf <- OnlyOne
    Unlockable = {}
    Wedged = {}
    MaxGrants = 1
    MaxSeq = 1
PROPERTY
    LogoutSticks
\* Every command may have finished and no login be left within MaxGrants.
CHECK_DEADLOCK FALSE
