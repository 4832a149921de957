CONSTANTS
    Sources = {"pull"}
    Roles = 1
    MaxPlans = 2
    FailedMax = 1
    UncertainMax = 2
    MaxErrors = 0
    MaxCrashes = 1
    MaxUser = 0
SPECIFICATION Spec
INVARIANT RecoveredNotFailed
