SPECIFICATION Spec
CONSTANTS
    inspect = inspect
    gate = gate
    finish = finish
    Nil = Nil
    Stage <- MCStage
    Workflows <- MCOneStage
    StagesOf <- MCStagesOf
    Deps <- MCDeps
    Human <- MCHuman
    Steps <- MCSteps
    Declared <- MCDeclared
    ByName <- MCByName
    MaxSessions = 3
    MaxRevision = 7
    MaxLineage = 1
    MaxDispatches = 2
    MaxReserved = 5
    Kinds = {"budgeted"}
    RepeatStop = FALSE
PROPERTIES LoadableForever
CHECK_DEADLOCK FALSE
