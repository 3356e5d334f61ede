\* One chat and its subagents, one at a time; it is paused, resumed, steered,
\* cancelled or dropped.
SPECIFICATION TurnFairSpec
CONSTANTS
    r1 = r1
    Requests = {r1}
    MaxSubs = 1
    MaxSteps = 2
    SubSteps = 1
    RepeatLimit = 1
    EmptyLimit = 1
    ParallelLimit = 1
    Kinds = {"again", "task"}
    MaxBatch = 2
    Ops = {"pause", "resume", "steer", "cancel", "shutdown", "abandon"}
    MaxOps = 2
    MaxMarks = 1
INVARIANTS
    TurnTypeOK
    SteersInOrder
    WireShape
PROPERTY TurnEnds
CHECK_DEADLOCK FALSE
