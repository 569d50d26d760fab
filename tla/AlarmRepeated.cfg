\* A marked group is raised again.
SPECIFICATION Spec
CONSTANTS
    d1 = d1
    d2 = d2
    Devices = {d1, d2}
    Conds <- TwoConds
    Named <- NamesOne
    OfConfig <- ConfigOnly
    Alarm = Alarm
    Missing = Missing
    MaxUpdates = 0
    Budgets <- Quiet
PROPERTY MarkedIsNotRaised
CHECK_DEADLOCK FALSE
