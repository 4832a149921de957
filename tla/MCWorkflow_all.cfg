SPECIFICATION Spec
CONSTANTS
    Modes = {"ask"}
    OtherIds = {2, 3}
    OfferAfter = 3
    MaxTurns = 8
    MaxQuestions = 1
    MaxFaults = 1
INVARIANTS
    TypeOK
    ImplementedAsApproved
    LedgerHonest
PROPERTIES
    Proceeds
CHECK_DEADLOCK FALSE
