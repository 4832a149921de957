SPECIFICATION FairSpec
CONSTANTS
    Kinds <- AllKinds
    P = 3
    MaxPlans = 3
    MaxEdits = 1
    MaxErrors = 1
    MaxCrashes = 1
    MaxCancels = 1
INVARIANTS
    TypeOK
    PartsOnceInOrder
    ReportedTruthfully
PROPERTIES
    WrittenAsConfirmed
    DoubtSettles
CHECK_DEADLOCK FALSE
