\* Careful users; tasks and enqueuing may die.
SPECIFICATION Spec
CONSTANTS
    u1 = u1
    u2 = u2
    e1 = e1
    e2 = e2
    a1 = a1
    a2 = a2
    b1 = b1
    b2 = b2
    h1 = h1
    h2 = h2
    w1 = w1
    w2 = w2
    None = None
    Users = {u1, u2}
    Recipients = {e1, e2}
    Amounts = {a1, a2}
    Burns = {b1, b2}
    Memo <- MemoOfEach
    Handlers = {h1, h2}
    Workers = {w1, w2}
    MaxRows = 3
    Careful = TRUE
    Faults = {"crash", "redis"}
SYMMETRY Symmetry
INVARIANT FailedWasNotPaid
PROPERTY PostsInTurn
PROPERTY CompletedIsFinal
\* The users stop after MaxRows migrations, so the system may stop.
CHECK_DEADLOCK FALSE
