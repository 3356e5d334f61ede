\* One loop at a time, no crash: a chat and then a loop with a transcript of its
\* own, which alone is long enough to be compacted before it ends.
SPECIFICATION ConvSpec
CONSTANTS
    Convs = {1}
    Loops = {1}
    LoopKinds = {"chat", "sub"}
    HistoryTurns = 2
    KeepTail = 2
    Budget = 6
    MaxTurns = 2
    MaxSteps = 2
    MaxConvOps = 0
INVARIANT NothingForgotten
CHECK_DEADLOCK FALSE
