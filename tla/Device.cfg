\* A login of at most 75 seconds whose provider asks for polls every five seconds.
SPECIFICATION Spec
CONSTANTS
    Interval = 1
    Ends = {4, 15}
    RequestTimeout = 3
    None = None
INVARIANTS
    LoginInv
    TypeOK
    EndsOnlyOnVerdict
    ApprovalFetched
PROPERTIES
    BacksOff
    LoginReturns
\* A login that returned is over.
CHECK_DEADLOCK FALSE
