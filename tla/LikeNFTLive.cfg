\* One task at a time, as the worker is configured; queries fail, and the signer errs.
SPECIFICATION FairSpec
CONSTANTS
    c1 = c1
    u1 = u1
    u2 = u2
    p1 = p1
    w1 = w1
    w2 = w2
    Migrations = {u1, u2}
    Classes = {c1}
    Assets <- AuthorAndReader
    Plain = {p1}
    Operator = Operator
    None = None
    MaxSupply = 3
    Workers = {w1}
    Operators = {}
    MaxBooks = 2
    MaxRetries = 1
    Faults = {"rpc", "signer"}
INVARIANT CompletedIsDelivered
INVARIANT TokensGoHome
PROPERTY MigrationEnds
\* Migrations end, so the system may stop.
CHECK_DEADLOCK FALSE
