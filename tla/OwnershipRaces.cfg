\* Two transactions at a time, three in all.
SPECIFICATION Spec
CONSTANTS
    x1 = x1
    x2 = x2
    x3 = x3
    d1 = d1
    d2 = d2
    u1 = u1
    u2 = u2
    o1 = o1
    o2 = o2
    dealer1 = dealer1
    dealer2 = dealer2
    None = None
    NoRow = NoRow
    Txs = {x1, x2}
    MaxBegun = 3
    Devices = {d1, d2}
    Users = {u1, u2}
    Orgs = {o1, o2}
    UserOrg <- OrgOfUser
    Above <- OrgClosure
    Dealers = {dealer1, dealer2}
SYMMETRY Symmetric
VIEW View
INVARIANT TypeOK
INVARIANT OneOwner
INVARIANT ActiveIffBound
PROPERTY OrgIsKept
PROPERTY LogTellsThePast
CHECK_DEADLOCK FALSE
