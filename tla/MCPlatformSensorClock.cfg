\* SMGR's tick counter wraps between two samples of one sensor.  The
\* counter is one bit wide here so that the wrap comes after two ticks; in
\* the code it is 32 bits at 32768 Hz and wraps after about 36.4 hours.
\* Expected: SampleTimestampsNonDecreasing violated.
CONSTANTS
    SmgrList <- MCSmgrList
    PoolSize = 2
    MaxSetRequests = 1
    MaxIndications = 2
    TickBits = 1
    SecondNanos = 1000000000
    TickFreqHz = 32768
SPECIFICATION Spec
PROPERTY SampleTimestampsNonDecreasing
CHECK_DEADLOCK FALSE
