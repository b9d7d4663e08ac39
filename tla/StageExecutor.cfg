SPECIFICATION StageSpec
CONSTANTS
    g1 = g1
    g2 = g2
    Goals <- OneGoal
    SessionGoal = g1
    Stage = TRUE
    MaxSteps = 4
    MaxReplans = 1
    MinSuccess = 2
    RequireEvidence = TRUE
    Reviewed = TRUE
    MaxRuns = 1
    Nil = Nil
    MaxAttempts = 2
    MaxCalls = 2
INVARIANTS FinalPassesGate StageStopsBlocked OwnModeRestored StageIsProven
PROPERTIES LaunchedAsBound
CHECK_DEADLOCK FALSE
