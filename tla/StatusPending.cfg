\* Heartbeat mode: pending commands of a device that comes online.
SPECIFICATION Spec
CONSTANTS
    Modes <- Heartbeat
    Flows <- OneFlow
    Handlers <- NoProcs
    FaultyModes <- NoProcs
    MaxMsgs = 1
INVARIANT OnlineRunsPending
CHECK_DEADLOCK FALSE
