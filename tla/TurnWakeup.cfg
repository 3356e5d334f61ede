\* A paused run is cancelled by the shutdown.
SPECIFICATION TurnFairSpec
CONSTANTS
    r1 = r1
    Requests = {r1}
    MaxSubs = 0
    MaxSteps = 2
    SubSteps = 1
    RepeatLimit = 1
    EmptyLimit = 1
    ParallelLimit = 1
    Kinds = {"again"}
    MaxBatch = 2
    Ops = {"pause", "shutdown"}
    MaxOps = 2
    MaxMarks = 0
PROPERTY CancelEnds
CHECK_DEADLOCK FALSE
