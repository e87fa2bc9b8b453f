--------------------------- MODULE SensorMultiplexer ---------------------------
(***************************************************************************)
(* One sensor's RequestMultiplexer<SensorRequest>, as the sensor request   *)
(* manager of spec 4.4 keeps it: the generic multiplexer with the merge,   *)
(* equivalence and default of src/core/sensors.cc.                         *)
(***************************************************************************)
EXTENDS Integers, FiniteSetsExt, SensorRequest

CONSTANTS
    Intervals,    \* sampling intervals clients ask for (ns, > 0)
    Latencies,    \* batching latencies clients ask for (ns, > 0)
    MaxRequests   \* bound: requests held at once

VARIABLES requests, maximal, changed

\* The requests a nanoapp can submit: any mode but Off with one of the
\* intervals and latencies.
ClientRequests ==
    {MakeRequest(m, i, l) : m \in Modes \ {"Off"}, i \in Intervals, l \in Latencies}

Mux == INSTANCE RequestMultiplexer
           WITH Requests <- ClientRequests, Merge <- GenerateIntersectionOf,
                Equivalent <- IsEquivalentTo,
                DefaultRequest <- DefaultSensorRequest

Spec == Mux!Spec

\* The priority order of spec 4.4 and of the tests in sensors_test.cc:
\* Off < PassiveOneShot < PassiveContinuous < ActiveOneShot <
\* ActiveContinuous.
Priority == [m \in Modes |->
               CASE m = "Off" -> 0 [] m = "PassiveOneShot" -> 1
                 [] m = "PassiveContinuous" -> 2 [] m = "ActiveOneShot" -> 3
                 [] m = "ActiveContinuous" -> 4]

Requested == {requests[i] : i \in DOMAIN requests}

\* The sensor runs in the highest-priority mode any client requested, and
\* is off when there is no request: the if-chain of
\* generateIntersectionOf() folded over the list picks the maximum of the
\* priority order.
MaximalModeIsHighestPriority ==
    Priority[maximal.mode] =
        IF Requested = {} THEN 0
        ELSE Max({Priority[r.mode] : r \in Requested})

\* The sensor's list of requests implements the abstract, order-free
\* multiplexer of spec 4.3 (see AbstractMultiplexer).
ImplementsAbstractMultiplexer == Mux!ImplementsAbstractMultiplexer

\* With at least one request, the sensor samples at the shortest interval
\* and batches with the shortest latency that some client asked for
\* (scenario S3 of the spec: {ACS, 10, 100} merged with {POS, 20, 50} gives
\* {ACS, 10, 50}).
MaximalRateIsFastestRequested ==
    Requested # {} =>
        /\ maximal.interval = Min({r.interval : r \in Requested})
        /\ maximal.latency = Min({r.latency : r \in Requested})

=============================================================================
