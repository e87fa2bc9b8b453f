\* A poster that read mRunning as true before stop() pushes its event after
\* the shutdown drain has emptied mEvents.  Expected: EveryAcceptedEventFreed
\* violated (the event's free callback never runs).
CONSTANTS
    a1 = a1
    a2 = a2
    p1 = p1
    AppIds <- MCAppIds
    Posters <- MCPosters
    EventTypes = {1}
    MaxEvents = 3
    PoolSize = 3
    MaxStarts = 1
    WithStop = TRUE
    StartMayPost = FALSE
SPECIFICATION Spec
PROPERTY EveryAcceptedEventFreed
CHECK_DEADLOCK FALSE
