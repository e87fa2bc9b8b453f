\* The same system with a thread calling stop(): the loop exits, drains and
\* unloads every nanoapp.  Safety only: the run ends in the exited loop (or,
\* see the StopHang run, blocked in pop()), hence no deadlock check.
CONSTANTS
    a1 = a1
    a2 = a2
    p1 = p1
    AppIds <- MCAppIds
    Posters <- MCPosters
    EventTypes = {1}
    MaxEvents = 4
    PoolSize = 3
    MaxStarts = 2
    WithStop = TRUE
    StartMayPost = FALSE
SPECIFICATION Spec
INVARIANT EventAccounting
INVARIANT NoDanglingSenderEvents
PROPERTY DeliveredInPostOrder
CHECK_DEADLOCK FALSE
