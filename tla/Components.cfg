SPECIFICATION Spec
CONSTANTS
    Reqs = {r1, r2}
    Chains = {c1}
    Blocks = {b1, b2, b3, b4, b5}
    MoeLayers = {l1}
    r1 = r1
    r2 = r2
    c1 = c1
    b1 = b1
    b2 = b2
    b3 = b3
    b4 = b4
    b5 = b5
    l1 = l1
SYMMETRY Symmetry
VIEW View
INVARIANTS
    TypeOK
    ReadsRight
    PoolNeverExhausted
    LiveSinkKept
    SlotsAccounted
    AttendsOnce
    EachExpertOnce
    SlotsMatchMap
    RightWeights
    CaptureJoined
    RightOperands
    EveryPartLoaded
    KeysPooledRight
    EachGroupOnce
    SelectsOnce
    InputsRight
    GraphFits
    RowsRight
CHECK_DEADLOCK FALSE
