\* Scan-monitor requests from two nanoapps, a queue of two, a platform that
\* may refuse or fail any call.  Once the bounded configure calls are used
\* up and every answer is handled the system is idle, hence no deadlock
\* check.
CONSTANTS
    Nanoapps <- MCNanoapps
    MaxRequests = 6
    QueueCapacity = 2
    AllocMayFail = FALSE
SPECIFICATION Spec
INVARIANT TypeOK
INVARIANT SingleTransitionInFlight
INVARIANT AtMostOneResult
INVARIANT ResultsInRequestOrder
PROPERTY EveryAcceptedRequestAnswered
CHECK_DEADLOCK FALSE
