SPECIFICATION Spec
CONSTANTS
    r1 = r1
    r2 = r2
    Reqs <- MCReqs
    Traffic <- MCTraffic
    IPs = {"ip"}
    Principals <- MCPrincipals
    Scale <- MCScale
    Enabled = TRUE
    BurstWindow = 1
    BurstTtl = 2
    SustainedWindow = 2
    SustainedTtl = 3
    Horizon = 3
SYMMETRY Symmetry
CHECK_DEADLOCK FALSE
INVARIANTS
    WindowBound
    ClosedIsCounted
