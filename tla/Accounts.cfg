SPECIFICATION AllSpec
CONSTANTS
    s1 = s1
    s2 = s2
    s3 = s3
    k1 = k1
    k2 = k2
    k3 = k3
    t1 = t1
    t2 = t2
    t3 = t3
    a1 = a1
    a2 = a2
    a3 = a3
    l1 = l1
    l2 = l2
    l3 = l3
    None = None
    Sessions = {s1, s2, s3}
    Keys = {k1, k2, k3}
    Changes = {t1, t2, t3}
    Admins = {a1, a2, a3}
    Lifecycle = {l1, l2, l3}
    Enrolled = {0, 1}
    MaxCodes = 1
    MaxEpoch = 3
    Slots = {1, 2}
    HotAttempts = 1
    EnqueueAttempts = 1
    IngressAttempts = 2
    HistoryLimit = 64
    ArchiveAttempts = 2
    CasAttempts = 2
    StreamTries = 2
    NoteReceives = 2
    Start = "stored"
    AmbiguousEnqueue = FALSE
    MaxFaults = 1
    MaxCrashes = 1
    MaxAttempts = 12
SYMMETRY Symmetry
INVARIANTS RestsOnCredential EventIsKept
PROPERTIES FactorRemains ObjectNeverRegresses
CHECK_DEADLOCK FALSE
