\* Handlers and tasks overlap on a migration, and anything may happen to them.
SPECIFICATION Spec
CONSTANTS
    u1 = u1
    u2 = u2
    e1 = e1
    e2 = e2
    a1 = a1
    a2 = a2
    b1 = b1
    b2 = b2
    h1 = h1
    h2 = h2
    w1 = w1
    w2 = w2
    None = None
    Users = {u1}
    Recipients = {e1, e2}
    Amounts = {a1}
    Burns = {b1, b2}
    Memo <- MemoOfEach
    Handlers = {h1, h2}
    Workers = {w1, w2}
    MaxRows = 1
    Careful = FALSE
    Faults = {"crash", "redis", "rpc", "timeout", "db", "signer", "remove", "cli"}
SYMMETRY Symmetry
INVARIANT TypeOK
INVARIANT CompletedWasPaid
INVARIANT MintedWasVerified
\* The users stop after MaxRows migrations, so the system may stop.
CHECK_DEADLOCK FALSE
