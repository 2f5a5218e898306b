SPECIFICATION Spec
CONSTANTS
    NumLayers = 3
    PrefetchStep = 2
    MaxPasses = 2
INVARIANTS
    NoOverwriteWhileRead
