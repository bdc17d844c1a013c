SPECIFICATION AllSpec
CONSTANTS
    Primary = east
    Standby = west
    p1 = p1
    s1 = s1
    o1 = o1
    o2 = o2
    o3 = o3
    Instances = {p1, s1}
    Home <- ServerHome
    Workers = {p1}
    Operators = {o3}
    Quiescence = 3
    ApiLimit = 1
    WorkerLimit = 2
    Lifetime = 0
    Skew = 0
    ClockError = 0
    Follow = {}
    LateCalls = TRUE
    MaxRev = 5
    MaxFaults = 1
    None = none
SYMMETRY Symmetry
INVARIANTS WritersAreCurrent NothingCarriesOver ProofOnce
CHECK_DEADLOCK FALSE
