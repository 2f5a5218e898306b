SPECIFICATION KSpec
CONSTANTS
    Reqs = {r1, r2}
    Chains = {c1}
    Blocks = {b1, b2, b3, b4, b5}
    b1 = b1
    b2 = b2
    b3 = b3
    b4 = b4
    b5 = b5
    r1 = r1
    r2 = r2
    c1 = c1
    G = 2
    Budget = 3
    Spec = 1
    Drafts = 0
    PoolSlots = 6
    MaxLen = 6
    MaxAdmits = 2
    HitsUnsettled = TRUE
SYMMETRY Symmetry
VIEW View
INVARIANTS
    ReadsRight
CHECK_DEADLOCK FALSE
