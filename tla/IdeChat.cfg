CONSTANTS
    Sessions = {1, 2}
    Texts = {0}
    Scripts = {"plain", "cards"}
    MaxOps = 2
    MaxCardOps = 1
    MaxQueue = 1
    MaxFails = 1
SPECIFICATION Spec
INVARIANTS
    WindowSound
    CaughtUp
CHECK_DEADLOCK FALSE
