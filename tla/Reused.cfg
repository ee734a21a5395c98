\* Steps of ten seconds; the longest expires_in is no time.Duration.
SPECIFICATION Spec
CONSTANTS
    g1 = g1
    g2 = g2
    Goroutines = {g1, g2}
    NoOne = NoOne
    Lifetimes <- MCLifetimes
    Never = 6
    expiryDelta = 1
    RequestTimeout = 3
    MaxDuration = 3
INVARIANTS
    SourceInv
    TypeOK
PROPERTIES
    ReusedTokenIsLive
    ReusedWhileItLasts
    CallsReturn
