SPECIFICATION Spec
CONSTANTS
    DPs = {d1}
    TPSize = 2
    NumLayers = 2
    Depth = 2
    MaxPasses = 4
INVARIANTS
    TypeOK
    OwnOutput
    NoDuplicateRequest
    DummiesLeaveResults
PROPERTIES
    MailboxSpec
