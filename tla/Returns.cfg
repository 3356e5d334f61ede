SPECIFICATION ReturnsSpec
CONSTANTS
    Calls = {1}
    GateRuns = {1}
    Inputs <- SomeInputs
    RuleLists <- SomeRules
    MaxChanges = 1
    MaxDepth = 1
    NumChannels = 1
    Buffered = {}
    NumEnv = 0
    ExecIds = {"x1"}
    Admins = {"a1"}
    MaxRetries = 1
    Threshold = 2
    MaxExecs = 2
    MaxEdits = 1
    MaxPieces = 1
    Servers = {"m"}
    CallIds = {"k1", "k2"}
    Reloaders = {"r1"}
    MaxConns = 2
    d1 = d1
    r1 = r1
    Drivers = {d1}
    Runs = {r1}
    MaxTodos = 3
    PlanTodos = 3
    ExploreLeads = TRUE
    ParallelLimit = 2
    EditParallel = 1
    RetryLimit = 1
    PlanOps = {"cancel", "panic"}
    MaxPlanOps = 2
INVARIANTS
    NoOrphanRunning
    EditsBounded
    CompletedMeansDone
PROPERTIES
    CallsReturn
    StartsWhenReady
    Terminates
    ImplementsBoard
CHECK_DEADLOCK FALSE
