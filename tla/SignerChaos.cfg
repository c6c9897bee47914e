\* Everything may fail, clients post as they like.
SPECIFICATION Spec
CONSTANTS
    c1 = c1
    c2 = c2
    i1 = i1
    i2 = i2
    i3 = i3
    w1 = w1
    w2 = w2
    None = None
    Calls = {c1, c2}
    Ids = {i1, i2, i3}
    Workers = {w1, w2}
    Processes <- TwoProcesses
    FirstNonce = 1
    MaxPosts = 3
    Overlap = TRUE
    Faults = {"crash", "shutdown", "rpc", "ambiguous", "db", "revert", "drop"}
SYMMETRY Symmetry
INVARIANT TypeOK
INVARIANT MinedIsTrue
INVARIANT SubmittedIsReserved
INVARIANT CallsDeduplicated
\* The clients stop after MaxPosts requests, so the system may stop.
CHECK_DEADLOCK FALSE
