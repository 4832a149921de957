SPECIFICATION FairSpec
CONSTANTS
    v1 = v1
    v2 = v2
    d1 = d1
    None = None
    Voice <- TwoVoices
    Dictated <- OneDictated
    MaxRetained = 2
    MaxRecorded = 2
    MaxFaults = 2
INVARIANT TypeOK
INVARIANT ActedAtMostOnce
INVARIANT AudioNeverLost
PROPERTY VoiceConcludes
CHECK_DEADLOCK FALSE
