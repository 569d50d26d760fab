\* A failed batch with two timestamps of one series.
SPECIFICATION Spec
CONSTANTS
    Series <- MCSeries
    Shapes <- MCShapes
    BatchSize = 2
    ChannelBufferSize = 2
    FlushTimer = FALSE
    InsertMayFail = TRUE
    StopMayTimeOut = FALSE
    MaxTime = 2
    MaxMsgs = 2
INVARIANT FallbackSurvives
CHECK_DEADLOCK FALSE
