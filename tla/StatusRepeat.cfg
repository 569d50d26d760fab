\* Heartbeat mode: two business flows at once.
SPECIFICATION Spec
CONSTANTS
    Modes <- Heartbeat
    Flows <- TwoFlows
    Handlers <- NoProcs
    FaultyModes <- NoProcs
    MaxMsgs = 2
INVARIANT NoRepeatedNotice
CHECK_DEADLOCK FALSE
