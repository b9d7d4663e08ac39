SPECIFICATION Spec
CONSTANTS
    inspect = inspect
    gate = gate
    finish = finish
    Nil = Nil
    Stage <- MCStage
    Workflows <- MCWorkflows
    StagesOf <- MCStagesOf
    Deps <- MCDeps
    Human <- MCHuman
    Steps <- MCSteps
    Declared <- MCDeclared
    ByName <- MCByName
    MaxSessions = 2
    MaxRevision = 8
    MaxLineage = 32
    MaxDispatches = 2
    MaxReserved = 5
    Kinds = {"budgeted"}
    RepeatStop = TRUE
INVARIANTS RunnerInv BudgetHonoured SingleLiveSession
PROPERTIES DispatchIsUnambiguous ImplementsLedger
CHECK_DEADLOCK FALSE
