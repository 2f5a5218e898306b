SPECIFICATION Spec
CONSTANTS
    r1 = r1
    r2 = r2
    r3 = r3
    Req = {r1, r2, r3}
    Blocks = {b1, b2, b3, b4}
    PromptLen <- PromptMixed
    MaxTokens <- OutputThree
    Priority <- Ranks
    BlockSize = 2
    MaxModelLen = 7
    MaxRunningReqs = 2
    MaxScheduledTokens = 4
    LongPrefill = 0
    NumSpec = 1
    Policy = "priority"
    AsyncScheduling = FALSE
    MaxBatches = 1
    KVConsumer = FALSE
    RequiresKVDelivery = FALSE
    ReserveFullISL = FALSE
    ExtHits <- NoHits
    MaxResets = 0
SYMMETRY BlockSymmetry
INVARIANTS
    BudgetKept
    WorkerRows
