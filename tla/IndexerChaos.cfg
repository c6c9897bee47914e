\* Two tasks at a time, and everything that may fail.
SPECIFICATION Spec
CONSTANTS
    b1 = b1
    b2 = b2
    t1 = t1
    t2 = t2
    a1 = a1
    a2 = a2
    w1 = w1
    w2 = w2
    None = None
    Books = {b1}
    Tokens = {t1, t2}
    Accounts = {a1}
    Acquirers = {w1}
    Workers = {w1, w2}
    MaxBlocks = 2
    Operators = {}
    MaxQueue = 1
    Faults = {"rpc", "db", "redis", "crash"}
SYMMETRY Symmetry
INVARIANT TypeOK
 
INVARIANT WholeStreams
INVARIANT ProcessedIsApplied
\* Blocks run out, so the system may stop.
CHECK_DEADLOCK FALSE
