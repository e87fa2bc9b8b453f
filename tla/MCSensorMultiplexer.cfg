\* Up to three requests of any mode with two intervals and two latencies,
\* added, removed and replaced in any order.
CONSTANTS
    Intervals <- MCIntervals
    Latencies <- MCLatencies
    MaxRequests = 3
SPECIFICATION Spec
INVARIANT MaximalModeIsHighestPriority
PROPERTY ImplementsAbstractMultiplexer
