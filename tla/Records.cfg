SPECIFICATION RecordsSpec
CONSTANTS
    Convs = {1, 2}
    Loops = {1, 2}
    LoopKinds = {"chat", "sub"}
    HistoryTurns = 2
    KeepTail = 2
    Budget = 5
    MaxTurns = 2
    MaxSteps = 1
    MaxConvOps = 2
    Paths = {1, 2}
    Tasks = {1, 2}
    MaxFiles = 2
    MaxVersion = 2
    MaxProposals = 2
    MaxCheckpoints = 1
    MaxJobs = 3
    Requests = {r1, r2}
    WriteScopes = {"global"}
    Contents <- SomeContents
    ScopeCap = 1
    SearchLimit = 2
    MaxMemories = 3
    MaxMemOps = 3
    MaxMemCrashes = 1
    t1 = t1
    s1 = s1
    s2 = s2
    Threads = {t1}
    Sessions = {s1, s2}
    Ops = {"emit", "ephemeral", "latest", "truncate", "before", "rewind", "purge", "fork"}
    Bounded = TRUE
    Cap = 2
    TornWrites = FALSE
    MaxOps = 4
    FlushOnExit = FALSE
    MaxCrashes = 1
    d1 = d1
    d2 = d2
    r1 = r1
    r2 = r2
    Drivers = {d1, d2}
    Runs = {r1}
    MaxTodos = 2
    PlanTodos = 1
    ExploreLeads = TRUE
    ParallelLimit = 2
    EditParallel = 1
    RetryLimit = 0
    PlanOps = {"add", "patch", "rename", "requeue", "rerun", "update", "cancel", "abandon", "restart", "panic"}
    MaxPlanOps = 2
VIEW Moving
INVARIANTS
    HistorySound
    EditsExact
    MemoriesKept
    BusTypeOK
    RingAndLogAgree
    PlanTypeOK
CHECK_DEADLOCK FALSE
