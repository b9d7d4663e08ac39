SPECIFICATION MCSpec
CONSTANTS
    c1 = c1
    m1 = m1
    m2 = m2
    k1 = k1
    Calls <- OneCall
    Materials <- TwoMaterials
    Checks <- OneCheck
    MaxClock = 2
    Requests <- EveryRequest
    TTL = 2
    AllowDestructive = TRUE
    None = None
    inspect = inspect
    gate = gate
    Nil = Nil
    Stage <- MCStage
    Workflows <- MCWorkflows
    StagesOf <- MCStagesOf
    Deps <- MCDeps
    Human <- MCHuman
    Steps <- MCSteps
    Declared <- MCRank
    ByName <- MCRank
    MaxSessions = 3
    MaxRevision = 1
    MaxLineage = 32
    MaxDispatches = 0
    MaxReserved = 2
    Kinds = {"budgeted"}
    RepeatStop = TRUE
INVARIANTS CoordinatorInv RefusedNeverRan SuccessIsAccounted NeverForked
PROPERTIES LaunchIsBound PreparedLaunchIsCurrent
SYMMETRY Interchangeable
CHECK_DEADLOCK FALSE
