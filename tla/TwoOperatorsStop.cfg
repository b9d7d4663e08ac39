SPECIFICATION Spec
CONSTANTS
    inspect = inspect
    gate = gate
    Nil = Nil
    Stage <- MCStage
    Workflows <- MCWorkflows
    StagesOf <- MCGated
    Deps <- MCDeps
    Human <- MCHuman
    Steps <- MCSteps
    Declared <- MCRank
    ByName <- MCRank
    MaxSessions = 1
    MaxRevision = 4
    MaxLineage = 32
    MaxDispatches = 2
    MaxReserved = 2
    Kinds = {"budgeted"}
    RepeatStop = TRUE
PROPERTIES StopSurvives
CHECK_DEADLOCK FALSE
