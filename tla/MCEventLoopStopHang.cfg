\* stop() posts its sentinel before it clears mRunning: the loop can consume
\* the sentinel, see mRunning still true and block in mEvents.pop() forever.
\* Expected: LoopExitsAfterStop violated.  The blocked loop is the very
\* state looked for, so deadlock is not reported separately.
CONSTANTS
    a1 = a1
    a2 = a2
    p1 = p1
    AppIds <- MCAppIds
    Posters = {}
    EventTypes = {1}
    MaxEvents = 2
    PoolSize = 2
    MaxStarts = 1
    WithStop = TRUE
    StartMayPost = FALSE
SPECIFICATION Spec
PROPERTY LoopExitsAfterStop
CHECK_DEADLOCK FALSE
