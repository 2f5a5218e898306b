SPECIFICATION Spec
CONSTANTS
    NumTables = 1
    Shards = {s1, s2}
    Checkpoints <- TwoCheckpoints
    ShapeOf <- ShapesDiffer
    SizeOf <- OneSize
    FlushMayFail = FALSE
    MaxBoots = 2
INVARIANTS
    BootsComeUp
