SPECIFICATION AllSpec
CONSTANTS
    r1 = r1
    r2 = r2
    r3 = r3
    p1 = p1
    p2 = p2
    a1 = a1
    Requests = {r1, r2, r3, r4}
    BadClient = {r4}
    BadProof = {r3}
    NoOne = none
    HasSession = TRUE
    Flavors = {"plain", "workload", "rar"}
    MaxFaults = 1
    NotUsed = NotUsed
INVARIANTS SingleIssue ReplayRevokes NoStrandedAuthority 
PROPERTIES ImplementsLease
CHECK_DEADLOCK FALSE
