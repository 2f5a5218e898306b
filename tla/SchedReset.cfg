SPECIFICATION Spec
CONSTANTS
    r1 = r1
    r2 = r2
    r3 = r3
    Req = {r1, r2}
    Blocks = {b1, b2, b3}
    PromptLen <- PromptTwo
    MaxTokens <- OutputTwo
    Priority <- Ranks
    BlockSize = 2
    MaxModelLen = 6
    MaxRunningReqs = 2
    MaxScheduledTokens = 4
    LongPrefill = 0
    NumSpec = 0
    Policy = "fcfs"
    AsyncScheduling = TRUE
    MaxBatches = 2
    KVConsumer = TRUE
    RequiresKVDelivery = FALSE
    ReserveFullISL = TRUE
    ExtHits <- NoHits
    MaxResets = 1
SYMMETRY BlockSymmetry
INVARIANTS
    ResetFreesBlocks
