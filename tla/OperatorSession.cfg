SPECIFICATION MCSpec
CONSTANTS
    g1 = g1
    g2 = g2
    c1 = c1
    c2 = c2
    p1 = p1
    p2 = p2
    n1 = n1
    n2 = n2
    Goals <- TwoGoals
    SessionGoal = g1
    Stage = FALSE
    MaxSteps = 3
    MaxReplans = 1
    MinSuccess = 0
    RequireEvidence = FALSE
    Reviewed = TRUE
    MaxRuns = 3
    Nil = Nil
    Clients <- TwoClients
    Projects <- TwoProjects
    Global = Global
    NoProject = NoProject
    Absent = Absent
    MaxArtifacts = 2
    MaxNodes = 2
    MaxEdges = 1
    MaxWork = 3
    Procs <- TwoClients
    PlanNodes <- TwoNodes
    Materials = {"m1", "m2"}
    Findings = {"f1"}
    Payloads = {"d1", "d2"}
    IdsPerProc = 1
    MaxAttempts = 2
    MaxTasks = 4
    Missing = Missing
    Models <- FourModels
    Info <- ModelInfo
    NoModel = "none"
    MaxRetries = 2
    MaxHealth = 1
    Terminals <- TwoClients
    Hosts = {"h1", "h2"}
    Placeholder = "example"
    NoHost = ""
    Roots = {"r1", "r2"}
    MaxSessions = 3
    MaxInputs = 5
INVARIANTS LoopInv RecordedBeforeInvoked AskedOnlyWhenSettled EndIsSaved NoRevisionLost ShownIsPermitted DeletionIsClean StatusFitsMaterial EvidenceVerifies DataStaysWhereItMay InterfaceKnowsModels SessionIsOwn OperatorChoiceHolds
 
CHECK_DEADLOCK FALSE
