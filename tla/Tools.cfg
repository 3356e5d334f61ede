SPECIFICATION ToolsSpec
CONSTANTS
    Calls = {1, 2}
    GateRuns = {1}
    Inputs <- SomeInputs
    RuleLists <- SomeRules
    MaxChanges = 1
    MaxDepth = 1
    NumChannels = 1
    Buffered = {}
    NumEnv = 0
    ExecIds = {"x1", "x2"}
    Admins = {"a1"}
    MaxRetries = 1
    Threshold = 2
    MaxExecs = 2
    MaxEdits = 1
    MaxPieces = 1
    Histories <- SomeHistories
    Answers <- SomeAnswers
    Wide = {"wide"}
    Servers = {"m"}
    CallIds = {"k1", "k2"}
    Reloaders = {"r1"}
    MaxConns = 2
    JobIds = {1, 2}
    ShellNames = {"s"}
    Dirs = {"d0", "d1"}
    Root = "d0"
    InlineOutput = 1
    MaxOutput = 1
    Peers = {p1, p2}
    RoomCapacity = 1
    MaxPeerEdits = 2
VIEW Moving
INVARIANTS
    GateSound
    ChainSound
    WireFaithful
    McpSound
    ShellKeeps
    RoomSound
PROPERTY NoAttemptAfterCancel
CHECK_DEADLOCK FALSE
