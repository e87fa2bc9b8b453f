---------------------------- MODULE SensorRequest ----------------------------
(***************************************************************************)
(* The SensorRequest value type of src/core/sensors.cc: a mode, a sampling *)
(* interval and a batching latency, and the merge of two requests,         *)
(* generateIntersectionOf(), which the request multiplexer folds over all  *)
(* of a sensor's requests.                                                 *)
(***************************************************************************)
EXTENDS Integers

\* SensorMode values.
Modes == {"Off", "PassiveOneShot", "PassiveContinuous", "ActiveOneShot",
          "ActiveContinuous"}

\* SensorRequest(mode, interval, latency); durations are in nanoseconds.
MakeRequest(mode, interval, latency) ==
    [mode |-> mode, interval |-> interval, latency |-> latency]

\* SensorRequest(): the default request (Off, 0 ns, 0 ns).
DefaultSensorRequest == MakeRequest("Off", 0, 0)

\* isEquivalentTo(): all three fields are equal.
IsEquivalentTo(a, b) ==
    a.mode = b.mode /\ a.interval = b.interval /\ a.latency = b.latency

MinOf(x, y) == IF x <= y THEN x ELSE y

\* Mutant of MaximalMode: passive continuous is tested before active
\* one-shot.
MaximalModePassiveFirst(m1, m2) ==
    CASE "ActiveContinuous" \in {m1, m2}  -> "ActiveContinuous"
      [] "PassiveContinuous" \in {m1, m2} -> "PassiveContinuous"
      [] "ActiveOneShot" \in {m1, m2}     -> "ActiveOneShot"
      [] "PassiveOneShot" \in {m1, m2}    -> "PassiveOneShot"
      [] OTHER                            -> "Off"

\* The mode that wins the merge of modes m1 and m2, in the order the code
\* tests them.
MaximalMode(m1, m2) ==
    CASE "ActiveContinuous" \in {m1, m2}  -> "ActiveContinuous"
      [] "ActiveOneShot" \in {m1, m2}     -> "ActiveOneShot"
      [] "PassiveContinuous" \in {m1, m2} -> "PassiveContinuous"
      [] "PassiveOneShot" \in {m1, m2}    -> "PassiveOneShot"
      [] OTHER                            -> "Off"

\* Mutant of GenerateIntersectionOf: the other request's interval is taken
\* instead of the smaller one.
IntersectionOtherInterval(a, b) ==
    MakeRequest(MaximalMode(a.mode, b.mode), b.interval,
                MinOf(a.latency, b.latency))

\* generateIntersectionOf(): the higher-priority mode, the smaller interval
\* and the smaller latency.
GenerateIntersectionOf(a, b) ==
    MakeRequest(MaximalMode(a.mode, b.mode),
                MinOf(a.interval, b.interval), MinOf(a.latency, b.latency))

=============================================================================
