\* Whether the platform scan monitor follows mScanMonitorNanoapps once every
\* transition is answered.  No deadlock check: the model stops when the
\* bounded configure calls are used up.
CONSTANTS
    Nanoapps <- MCNanoapps
    MaxRequests = 3
    QueueCapacity = 2
    AllocMayFail = FALSE
SPECIFICATION Spec
INVARIANT ScanMonitorFollowsRequests
CHECK_DEADLOCK FALSE
