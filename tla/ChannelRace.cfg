SPECIFICATION ChSpec
CONSTANTS
    ChModelIds = {"a"}
    MaxChOps = 4
    MaxChRows = 1
    MaxChannels = 1
    MaxChFails = 0
    EnvSearchKey = TRUE
PROPERTY EmptyKeepsKey
CHECK_DEADLOCK FALSE
