SPECIFICATION Spec
CONSTANTS
    s1 = s1
    s2 = s2
    t1 = t1
    t2 = t2
    d1 = d1
    d2 = d2
    p1 = p1
    p2 = p2
    Unmapped = Unmapped
    Slots <- TwoSlots
    Dirs <- TwoDirs
    Scopes <- SomeScopes
    Mappings <- SomeMappings
    Home = d1
    MaxCalls = 2
    MaxChanges = 1
    Tasks <- TwoTasks
    Kinds = {"local", "docker", "mcp"}
    CommandLimit = 1
    MaxStarts = 1
    Commands <- SomeCommands
    Permitted = {"rm", "cp", "touch", "curl", "wget", "nmap", "bash"}
    Provided <- AtProvider
INVARIANTS CurrentIsOpen AnsweredIsOver PolicySeesThrough
PROPERTIES LaunchIsAuthorised ExecuteReturns
CHECK_DEADLOCK FALSE
