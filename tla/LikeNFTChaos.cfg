\* Two tasks at a time, a crash, and statements and enqueuing that fail.
SPECIFICATION Spec
CONSTANTS
    c1 = c1
    u1 = u1
    u2 = u2
    p1 = p1
    w1 = w1
    w2 = w2
    Migrations = {u1}
    Classes = {c1}
    Assets <- Reader
    Plain = {p1}
    Operator = Operator
    None = None
    MaxSupply = 3
    Workers = {w1, w2}
    Operators = {w2}
    MaxBooks = 2
    MaxRetries = 1
    Faults = {"crash", "redis", "db", "remove"}
INVARIANT TypeOK
INVARIANT CompletedIsDelivered
INVARIANT CompletedIsWhole
INVARIANT TokensGoHome
INVARIANT OneBook
 
\* Migrations end, so the system may stop.
CHECK_DEADLOCK FALSE
