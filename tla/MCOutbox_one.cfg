SPECIFICATION FairSpec
CONSTANTS
    j1 = j1
    x1 = x1
    x2 = x2
    Jobs = {j1}
    MaxEffects = 2
    Executors = {x1, x2}
    MaxAttempts = 2
    ConsumeRetries = 1
    MaxRev = 5
    MaxCrashes = 1
INVARIANTS
    TypeOK
    AppliedAtMostOnce
PROPERTIES
    EveryEffectConsumed
    ImplementsContract
CHECK_DEADLOCK FALSE
