SPECIFICATION FairSpec
CONSTANTS
    j1 = j1
    p1 = p1
    p2 = p2
    Jobs = {j1}
    Speakers = {p1, p2}
    Daemons = {p1}
    BatchLimit = 2
    Tokens = {1, 2, 3, 4, 5}
    NoToken = 0
    MaxGen = 2
    MaxFaults = 1
INVARIANTS
    TypeOK
    AcknowledgedTruthfully
PROPERTIES
    NoSilentLoss
CHECK_DEADLOCK FALSE
