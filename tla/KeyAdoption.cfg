SPECIFICATION Spec
CONSTANTS
    o1 = o1
    w1 = w1
    w2 = w2
    NumAlgs = 2
    Keys <- ThreeKeys
    NoKey = 0
    Ops = {o1}
    NoOp = NoOp
    OnboardOp = o1
    Workers = {w1, w2}
    Commands <- OnboardOnly
    PublishAhead = 2
    PublishingTimeout = 3
    Overlap = 2
    WorkerTimeout = 1
    CommitDelay = 1
    TokenLife = 1
    JwksMaxAge = 2
    MaxTime = 1
SYMMETRY Symmetry
INVARIANTS ActiveKeysAlive
CHECK_DEADLOCK FALSE
