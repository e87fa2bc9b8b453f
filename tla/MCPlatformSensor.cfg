\* Discovery, requests on every sensor found, indications for the active
\* reports, and a pool of two events.  The model stops once its bounded
\* calls and indications are used up, hence no deadlock check.
CONSTANTS
    SmgrList <- MCSmgrList
    PoolSize = 2
    MaxSetRequests = 3
    MaxIndications = 3
    TickBits = 1
    SecondNanos = 1000000000
    TickFreqHz = 32768
SPECIFICATION Spec
INVARIANT TypeOK
INVARIANT SampleMatchesSensor
INVARIANT NoAssertFires
CHECK_DEADLOCK FALSE
