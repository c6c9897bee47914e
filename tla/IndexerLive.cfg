\* One task at a time, as the worker is configured, and nothing fails.
SPECIFICATION FairSpec
CONSTANTS
    b1 = b1
    b2 = b2
    t1 = t1
    t2 = t2
    a1 = a1
    a2 = a2
    w1 = w1
    w2 = w2
    None = None
    Books = {b1}
    Tokens = {t1}
    Accounts = {a1}
    Acquirers = {w1}
    Workers = {w1}
    MaxBlocks = 3
    Operators = {w1}
    MaxQueue = 2
    Faults = {}
INVARIANT ClassIsCurrent
INVARIANT NoneStranded
 
\* Blocks run out, so the system may stop.
CHECK_DEADLOCK FALSE
