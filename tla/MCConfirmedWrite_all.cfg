SPECIFICATION FairSpec
CONSTANTS
    Kinds <- AllKinds
    MaxEdits = 1
    MaxErrors = 3
    MaxCrashes = 2
    MaxCancels = 1
INVARIANTS
    TypeOK
    AtMostOneWrite
    ReportedTruthfully
PROPERTIES
    WrittenAsConfirmed
    SubmittedSettles
CHECK_DEADLOCK FALSE
