\* One task over two devices, two requests, faults and a restart.
SPECIFICATION FairSpec
CONSTANTS
    t1 = t1
    t2 = t2
    d1 = d1
    d2 = d2
    r1 = r1
    r2 = r2
    NoDetail = NoDetail
    Tasks = {t1}
    Devices = {d1, d2}
    Foreign = {d2}
    Requests = {r1, r2}
    MaxRestarts = 1
    Faults = TRUE
INVARIANT TypeOK
PROPERTY WaitingIsDecided
PROPERTY OnlyFailedIsRetried
PROPERTY DeletedIsNotSent
CHECK_DEADLOCK FALSE
