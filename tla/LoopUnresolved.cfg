SPECIFICATION Spec
CONSTANTS
    g1 = g1
    g2 = g2
    Goals <- OneGoal
    SessionGoal = g1
    Stage = FALSE
    MaxSteps = 2
    MaxReplans = 1
    MinSuccess = 0
    RequireEvidence = FALSE
    Reviewed = FALSE
    MaxRuns = 3
    Nil = Nil
PROPERTIES UnresolvedIsKept
