SPECIFICATION AllSpec
CONSTANTS
    i1 = i1
    i2 = i2
    i3 = i3
    i4 = i4
    Intents = {i1, i2, i3, i4}
    Orders = {o1}
    Procs = {p1, p2}
    Workers = {}
    None = none
    Window = 1
    Retention = 2
    CallLatency = 1
    CasAttempts = 2
    Limit = 1
    InitialStates = {"pending", "succeeded", "declined"}
    Honest = {i1, i2, i4}
    MaxTime = 3
    MaxVersion = 2
    MaxCallbacks = 1
    MaxFaults = 1
SYMMETRY Symmetry
INVARIANTS OneChargePerOrder AcceptedOwnsOrder ChargeWasAccepted SettlesTruthfully ContradictionIsFlagged
PROPERTIES RecordOnlyGrows
CHECK_DEADLOCK FALSE
