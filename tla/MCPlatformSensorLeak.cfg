\* A sample event posted while the pool is full.  Expected:
\* NoLeakedSampleBuffer violated.
CONSTANTS
    SmgrList <- MCSmgrList
    PoolSize = 1
    MaxSetRequests = 2
    MaxIndications = 2
    TickBits = 1
    SecondNanos = 1000000000
    TickFreqHz = 32768
SPECIFICATION Spec
INVARIANT NoLeakedSampleBuffer
CHECK_DEADLOCK FALSE
