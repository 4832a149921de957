SPECIFICATION Spec
CONSTANTS
    Modes = {"ask"}
    OtherIds = {2}
    OfferAfter = 3
    MaxTurns = 8
    MaxQuestions = 1
    MaxFaults = 1
PROPERTIES
    ImplementedOnce
CHECK_DEADLOCK FALSE
