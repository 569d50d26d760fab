\* Reports, a timer, a save and a fault.
SPECIFICATION Spec
CONSTANTS
    d1 = d1
    d2 = d2
    Devices = {d1}
    Conds <- TwoConds
    Named <- NamesOne
    OfConfig <- ConfigOnly
    Alarm = Alarm
    Missing = Missing
    MaxUpdates = 1
    Budgets <- SaveOrThree
INVARIANTS TypeOK RecoveriesAreFounded RaisedGroupsHeld
CHECK_DEADLOCK FALSE
