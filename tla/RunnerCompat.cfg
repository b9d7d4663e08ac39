SPECIFICATION FairSpec
CONSTANTS
    inspect = inspect
    gate = gate
    finish = finish
    Nil = Nil
    Stage <- MCStage
    Workflows <- MCWorkflows
    StagesOf <- MCStagesOf
    Deps <- MCDeps
    Human <- MCHuman
    Steps <- MCSteps
    Declared <- MCDeclared
    ByName <- MCByName
    MaxSessions = 1
    MaxRevision = 8
    MaxLineage = 32
    MaxDispatches = 2
    MaxReserved = 5
    Kinds = {"core", "plain"}
    RepeatStop = TRUE
INVARIANTS NoReplay CompletionIsHonest
PROPERTIES StepsAreLegal CallsReturn
CHECK_DEADLOCK FALSE
