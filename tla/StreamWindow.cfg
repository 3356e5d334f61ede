\* One emitter, one SSE client that connects once, no crash, no lag.
SPECIFICATION Spec
CONSTANTS
    t1 = t1
    s1 = s1
    c1 = c1
    Threads = {t1}
    Sessions = {s1}
    Clients = {c1}
    Followed = {s1}
    Transports = {"sse"}
    Ops = {"emit", "latest"}
    Bounded = TRUE
    Cap = 3
    LagCap = 3
    TornWrites = FALSE
    MaxOps = 2
    FlushOnExit = FALSE
    MaxCrashes = 0
    MaxConnects = 1
INVARIANT NoSilentMiss
CHECK_DEADLOCK FALSE
