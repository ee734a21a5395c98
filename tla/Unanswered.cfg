\* A request may go unanswered for thirty seconds of a login of one minute.
SPECIFICATION Spec
CONSTANTS
    Interval = 1
    Ends = {12}
    RequestTimeout = 6
    None = None
INVARIANT WaitsAsLongAsItsContext
\* A login that returned is over.
CHECK_DEADLOCK FALSE
