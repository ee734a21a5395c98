\* Process p2 may freeze at any step, with or without the lock.
SPECIFICATION FairSpec
CONSTANTS
    p1 = p1
    p2 = p2
    a1 = a1
    a2 = a2
    b1 = b1
    NoOne = NoOne
    Procs <- MCProcs
    Workers = {a1, a2, b1}
    ProcOf <- TwoAndOne
    Unlockable = {}
    Wedged = {p2}
    MaxGrants = 1
    MaxSeq = 1
PROPERTY
    CallReturns
\* Every command may have finished and no login be left within MaxGrants.
CHECK_DEADLOCK FALSE
