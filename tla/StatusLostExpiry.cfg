\* Timeout mode: an expiry during a restart.
SPECIFICATION FairSpec
CONSTANTS
    Modes <- Timeout
    Flows <- OneFlow
    Handlers <- NoProcs
    FaultyModes <- Timeout
    MaxMsgs = 1
PROPERTY NoFalseOnline
CHECK_DEADLOCK FALSE
