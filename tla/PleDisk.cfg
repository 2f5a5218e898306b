SPECIFICATION Spec
CONSTANTS
    NumTables = 2
    Shards = {s1, s2}
    Checkpoints <- TwoCheckpoints
    ShapeOf <- ShapesDiffer
    SizeOf <- OneSize
    FlushMayFail = FALSE
    MaxBoots = 3
INVARIANTS
    TypeOK
    ServedTableWhole
    MarkerMeansDurable
PROPERTIES
    MarkedFilesStay
