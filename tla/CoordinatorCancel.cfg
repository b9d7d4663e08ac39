SPECIFICATION CoordinatorSpec
CONSTANTS
    c1 = c1
    m1 = m1
    m2 = m2
    k1 = k1
    Calls <- OneCall
    Materials <- TwoMaterials
    Checks <- OneCheck
    MaxClock = 2
    Requests <- EveryRequest
    TTL = 2
    AllowDestructive = TRUE
    None = None
INVARIANT TelemetryLossIsReported
SYMMETRY Interchangeable
CHECK_DEADLOCK FALSE
