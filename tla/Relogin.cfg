\* A second login while two goroutines refresh the first.
SPECIFICATION Spec
CONSTANTS
    p1 = p1
    p2 = p2
    a1 = a1
    a2 = a2
    b1 = b1
    NoOne = NoOne
    Procs <- MCProcs
    Workers = {a1, a2}
    ProcOf <- BothInOne
    Unlockable = {}
    Wedged = {}
    MaxGrants = 2
    MaxSeq = 1
INVARIANT
    IInv
PROPERTY
    ImplementsSession
\* Every command may have finished and no login be left within MaxGrants.
CHECK_DEADLOCK FALSE
