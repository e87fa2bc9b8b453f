------------------------- MODULE MCSensorMultiplexer -------------------------
(* SensorMultiplexer with two intervals and two latencies (in ms, as       *)
(* nanosecond values scaled down) and up to three requests.                 *)
EXTENDS SensorMultiplexer

MCIntervals == {10, 20}
MCLatencies == {50, 100}
=============================================================================
