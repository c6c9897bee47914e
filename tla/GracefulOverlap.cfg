\* Three consumers and a shutdown in any interleaving.
SPECIFICATION FairSpec
CONSTANTS
    c1 = c1
    c2 = c2
    c3 = c3
    None = None
    Consumers = {c1, c2, c3}
INVARIANT TypeOK
 
\* Every consumer enrols once and the process exits, so the system stops.
CHECK_DEADLOCK FALSE
