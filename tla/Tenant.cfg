SPECIFICATION AllSpec
CONSTANTS
    o1 = o1
    o2 = o2
    w1 = w1
    w2 = w2
    w3 = w3
    r1 = r1
    r2 = r2
    a1 = a1
    a2 = a2
    Requests = {q1, q2}
    Starters = {o1, o2}
    Lease = 6
    Renew = 1
    Stall = 1
    CallBound = 1
    Skew = 1
    None = none
    NotUsed = NotUsed
SYMMETRY Symmetry
INVARIANTS SignaturesVerify PhaseIsEarned GateCountsPermits
PROPERTIES KnownBeforeSigning  FrozenIsFinal
CHECK_DEADLOCK FALSE
