\* Two goroutines in one process, one in another, two rotations of one grant.
SPECIFICATION Spec
CONSTANTS
    p1 = p1
    p2 = p2
    a1 = a1
    a2 = a2
    b1 = b1
    NoOne = NoOne
    Procs <- MCProcs
    Workers = {a1, a2, b1}
    ProcOf <- TwoAndOne
    Unlockable = {}
    Wedged = {}
    MaxGrants = 1
    MaxSeq = 2
INVARIANTS
    TypeOK
    NoReplayUnlessSlipped
    StoreKeepsTheLiveToken
    NoEarlyRotation
    RejectedTokenIsTheMachines
    OutageIsNoRejection
PROPERTY
    ImplementsSession
\* Every command may have finished and no login be left within MaxGrants.
CHECK_DEADLOCK FALSE
