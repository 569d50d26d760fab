\* Heartbeat mode: a configuration that cannot be read.
SPECIFICATION Spec
CONSTANTS
    Modes <- Heartbeat
    Flows <- OneFlow
    Handlers <- OneHandler
    FaultyModes <- Heartbeat
    MaxMsgs = 2
INVARIANT OfflineOnlyByMonitor
CHECK_DEADLOCK FALSE
