SPECIFICATION FairSpeech
CONSTANTS
    N = 2
    Chunks = 2
    PrefetchLimit = 1
    Window = 2
    MaxFailures = 2
INVARIANTS
    SpeechOK
    PlayedIsHeard
    TurnLeavesNothing
PROPERTIES
    TurnEnds
CHECK_DEADLOCK FALSE
