\* RPC errors and reverts only; the goroutines and the chain are fair.
SPECIFICATION FairSpec
CONSTANTS
    c1 = c1
    c2 = c2
    i1 = i1
    i2 = i2
    i3 = i3
    w1 = w1
    w2 = w2
    None = None
    Calls = {c1, c2}
    Ids = {i1, i2}
    Workers = {w1, w2}
    Processes <- OneProcess
    FirstNonce = 1
    MaxPosts = 3
    Overlap = TRUE
    Faults = {"rpc", "revert"}
INVARIANT NoOrphanReservation
PROPERTY Settles
PROPERTY NonceLineMoves
\* The clients stop after MaxPosts requests, so the system may stop.
CHECK_DEADLOCK FALSE
