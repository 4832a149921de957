SPECIFICATION FairSpec
CONSTANTS
    Settings <- BothSettings
    S = 2
    Wake = 2
    MaxEdits = 1
    MaxErrors = 1
    MaxCrashes = 1
    MaxTroubles = 2
INVARIANTS
    TypeOK
    RestartedAtMostOnce
    ReportedIsReal
PROPERTIES
    ForeignValueKept
    ActivationConcludes
CHECK_DEADLOCK FALSE
