\* Every mode: two business flows and an adapter goroutine; with heartbeats the
\* database may fail and the process be restarted at any step.
SPECIFICATION FairSpec
CONSTANTS
    Modes <- AllModes
    FaultyModes <- Heartbeat
    Flows <- TwoFlows
    Handlers <- OneHandler
    MaxMsgs = 3
INVARIANTS TypeOK OnlineIsWatched OfflineNeedsExpiry NoticesMatchWrites LastStatusWins
PROPERTY SilentGoesOffline
CHECK_DEADLOCK FALSE
