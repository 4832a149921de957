CONSTANTS
    Sources = {"fork", "clone", "pull", "issue", "follow"}
    Roles = 2
    MaxPlans = 3
    FailedMax = 1
    UncertainMax = 2
    MaxErrors = 1
    MaxCrashes = 1
    MaxUser = 1
SPECIFICATION Spec
INVARIANTS
    TypeOK
    AskedOnce
    SingleAgent
    ReleasedIsClosed
PROPERTIES
    UserSessionUntouched
    Concludes
