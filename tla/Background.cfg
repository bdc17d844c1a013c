SPECIFICATION AllSpec
CONSTANTS
    g = g
    reading = reading
    writing = writing
    rar = rar
    v = v
    w1 = w1
    w2 = w2
    w3 = w3
    c1 = c1
    c2 = c2
    c3 = c3
    f1 = f1
    f2 = f2
    p1 = p1
    p2 = p2
    a1 = a1
    e1 = e1
    r1 = r1
    r2 = r2
    m1 = m1
    m2 = m2
    Broken = Broken
    NoValue = NoValue
    NotUsed = NotUsed
    Events = {e1}
    Workers = {w1, w2}
    MaxRev = 2
    MaxCycle = 2
    MaxTotal = 3
    MaxRedrives = 1
    MaxCrashes = 0
    Timely = FALSE
    MayAge = FALSE
SYMMETRY Symmetry
INVARIANTS AuthorityFollowsPolicy ReclaimIsSafe DeliveryIsSound LimitsSuffice
PROPERTIES LeaseIsKept NothingIsRevived
CHECK_DEADLOCK FALSE
