\* A book of two accounts, which issues up to three ids.
SPECIFICATION Spec
CONSTANTS
    s1 = s1
    x1 = x1
    x2 = x2
    a1 = a1
    a2 = a2
    v1 = v1
    v2 = v2
    None = None
    Accounts = {a1, a2}
    Symbols = {s1}
    Texts = {x1, x2}
    Implementations = {v1}
    Msgs <- SomeMsgs
    Configs <- SomeConfigs
    MaxBooks = 1
    MaxTokens = 3
    MaxBatch = 2
SYMMETRY Symmetry
INVARIANT TypeOK
INVARIANT SupplyBounded
PROPERTY ImplementsCollections
\* Books and ids run out, so the system may stop.
CHECK_DEADLOCK FALSE
