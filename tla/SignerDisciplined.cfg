\* A call is posted again only when no goroutine is on it.
SPECIFICATION Spec
CONSTANTS
    c1 = c1
    c2 = c2
    i1 = i1
    i2 = i2
    i3 = i3
    w1 = w1
    w2 = w2
    None = None
    Calls = {c1, c2}
    Ids = {i1, i2}
    Workers = {w1, w2}
    Processes <- OneProcess
    FirstNonce = 1
    MaxPosts = 4
    Overlap = FALSE
    Faults = {"crash", "shutdown", "rpc", "db", "revert", "drop"}
SYMMETRY Symmetry
INVARIANT LedgerSound
INVARIANT AtMostOnce
INVARIANT FailedMeansNotExecuted
PROPERTY MinedIsFinal
PROPERTY ImplementsService
\* The clients stop after MaxPosts requests, so the system may stop.
CHECK_DEADLOCK FALSE
