\* Event distribution, delivery and nanoapp unload while the loop runs; no
\* stop().  The loop thread blocking in mEvents.pop() once every bounded
\* input is used up is the normal idle state, hence no deadlock check.
CONSTANTS
    a1 = a1
    a2 = a2
    p1 = p1
    AppIds <- MCAppIds
    Posters <- MCPosters
    EventTypes = {1}
    MaxEvents = 3
    PoolSize = 3
    MaxStarts = 3
    WithStop = FALSE
    StartMayPost = FALSE
SPECIFICATION Spec
INVARIANT TypeOK
INVARIANT EventAccounting
INVARIANT NoDanglingSenderEvents
PROPERTY EveryAcceptedEventFreed
PROPERTY DeliveredInPostOrder
CHECK_DEADLOCK FALSE
