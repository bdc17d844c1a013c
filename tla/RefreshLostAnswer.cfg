SPECIFICATION HonestSpec
CONSTANTS
    Procs = {p1}
    Requests = {r1}
    Owners = {n1, n2}
    NoOwner = none
    Version = 0
    LeaseTtl = 3
    GraceWindow = 1
    MaxTime = 4
    MaxFaults = 1
INVARIANTS HonestClientKeepsFamily
CHECK_DEADLOCK FALSE
