\* The entry keeps the device that came first.
SPECIFICATION Spec
CONSTANTS
    d1 = d1
    d2 = d2
    Devices = {d1, d2}
    Conds <- TwoConds
    Named <- NamesOne
    OfConfig <- ConfigOnly
    Alarm = Alarm
    Missing = Missing
    MaxUpdates = 0
    Budgets <- Quiet
INVARIANT ReporterIsNamed
CHECK_DEADLOCK FALSE
