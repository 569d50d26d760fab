\* Every path: both flushers, database faults, Stop with timeouts.
SPECIFICATION Spec
CONSTANTS
    Series <- MCSeries
    Shapes <- MCShapes
    BatchSize = 2
    ChannelBufferSize = 2
    FlushTimer = TRUE
    InsertMayFail = TRUE
    StopMayTimeOut = TRUE
    MaxTime = 2
    MaxMsgs = 3
INVARIANTS TypeOK Accounting KeysUnique WrittenIsStored StopQuiesces
PROPERTY HistoryImmutable
CHECK_DEADLOCK FALSE
