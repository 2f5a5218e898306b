SPECIFICATION Spec
CONSTANTS
    DPs = {d1}
    TPSize = 1
    NumLayers = 2
    Depth = 2
    MaxPasses = 3
INVARIANTS
    OnePendingSuffices
