SPECIFICATION BothSpec
CONSTANTS
    Procs = {p1, p2}
    r1 = r1
    Requests = {r1, r2}
    LeaseTtl = 1
    GraceWindow = 1
    MaxTime = 1
    Owners = {n1, n2}
    NoOwner = none
    Version = 0
    MaxFaults = 0
SYMMETRY Symmetry
INVARIANTS TypeOK OneSuccessor LiveLeaseIsExclusive RevocationSticks LateRequestRefused FreshBeforeChange
PROPERTIES ImplementsLease
CHECK_DEADLOCK FALSE
