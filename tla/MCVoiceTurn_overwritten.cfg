SPECIFICATION Spec
CONSTANTS
    v1 = v1
    v2 = v2
    d1 = d1
    None = None
    Voice <- OneVoice
    Dictated <- NoDictated
    MaxRetained = 2
    MaxRecorded = 2
    MaxFaults = 1
PROPERTY TerminalStays
CHECK_DEADLOCK FALSE
