\* The only upgrade of an online device.
SPECIFICATION Spec
CONSTANTS
    t1 = t1
    t2 = t2
    d1 = d1
    d2 = d2
    r1 = r1
    r2 = r2
    NoDetail = NoDetail
    Tasks = {t1, t2}
    Devices = {d1}
    Foreign = {}
    Requests = {r1}
    MaxRestarts = 0
    Faults = FALSE
PROPERTY RefusedForOthers
CHECK_DEADLOCK FALSE
