SPECIFICATION Spec
CONSTANTS
    r1 = r1
    r2 = r2
    r3 = r3
    Req = {r1, r2}
    Blocks = {b1, b2, b3}
    PromptLen <- PromptTwo
    MaxTokens <- OutputThree
    Priority <- Ranks
    BlockSize = 3
    MaxModelLen = 6
    MaxRunningReqs = 2
    MaxScheduledTokens = 3
    LongPrefill = 0
    NumSpec = 1
    Policy = "fcfs"
    AsyncScheduling = TRUE
    MaxBatches = 3
    KVConsumer = FALSE
    RequiresKVDelivery = FALSE
    ReserveFullISL = FALSE
    ExtHits <- NoHits
    MaxResets = 2
SYMMETRY BlockSymmetry
INVARIANTS
    TypeOK
    OutputInOrder
    StaleNamesOldSteps
    CountersAgree
