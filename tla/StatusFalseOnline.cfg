\* Timeout mode: a stale copy hides the expiry.
SPECIFICATION FairSpec
CONSTANTS
    Modes <- Timeout
    Flows <- OneFlow
    Handlers <- OneHandler
    FaultyModes <- NoProcs
    MaxMsgs = 3
PROPERTY NoFalseOnline
CHECK_DEADLOCK FALSE
