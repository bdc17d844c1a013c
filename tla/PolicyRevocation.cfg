SPECIFICATION Spec
CONSTANTS
    g1 = g1
    r = r
    w = w
    Grants = {g1}
    Rar = rar
    Consent <- WideConsent
    Policies <- Texts
    Broken = Broken
    None = None
    Workers = {w1}
    Revokers = {r1}
    Fenced = FALSE
    Issuing = FALSE
    MaxPv = 1
    MaxRev = 3
    MaxDeploys = 0
    MaxFaults = 0
PROPERTIES RevocationStands
CHECK_DEADLOCK FALSE
