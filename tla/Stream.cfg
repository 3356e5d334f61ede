\* One emitter on two sessions, one client over either transport, a channel of
\* one event so that a slow client lags.
SPECIFICATION FairSpec
CONSTANTS
    t1 = t1
    s1 = s1
    s2 = s2
    c1 = c1
    Threads = {t1}
    Sessions = {s1, s2}
    Clients = {c1}
    Followed = {s1}
    Transports = {"sse", "ws"}
    Ops = {"emit", "latest"}
    Bounded = TRUE
    Cap = 2
    LagCap = 1
    TornWrites = TRUE
    MaxOps = 3
    FlushOnExit = FALSE
    MaxCrashes = 1
    MaxConnects = 2
INVARIANTS
    SeqIdentifiesEvent
    ReplayComplete
    StreamTypeOK
    LiveComplete
PROPERTY CatchesUp
CHECK_DEADLOCK FALSE
