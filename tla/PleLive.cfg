SPECIFICATION Spec
CONSTANTS
    DPs = {d1, d2}
    TPSize = 1
    NumLayers = 2
    Depth = 1
    MaxPasses = 2
PROPERTIES
    ForwardsFinish
