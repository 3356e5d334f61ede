SPECIFICATION ReturnsSpec
CONSTANTS
    Calls = {1}
    GateRuns = {1}
    Inputs <- SomeInputs
    RuleLists <- SomeRules
    MaxChanges = 1
    MaxDepth = 1
    NumChannels = 1
    Buffered = {}
    NumEnv = 0
    ExecIds = {"x1"}
    Admins = {"a1"}
    MaxRetries = 1
    Threshold = 2
    MaxExecs = 2
    MaxEdits = 1
    MaxPieces = 1
    Servers = {"m"}
    CallIds = {"k1", "k2"}
    Reloaders = {"r1"}
    MaxConns = 2
    d1 = d1
    r1 = r1
    Drivers = {d1}
    Runs = {r1}
    MaxTodos = 1
    PlanTodos = 1
    ExploreLeads = TRUE
    ParallelLimit = 1
    EditParallel = 1
    RetryLimit = 0
    PlanOps = {}
    MaxPlanOps = 0
INVARIANT ApprovalCounts
CHECK_DEADLOCK FALSE
