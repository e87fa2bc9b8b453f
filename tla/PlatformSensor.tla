---------------------------- MODULE PlatformSensor ----------------------------
(***************************************************************************)
(* The SLPI platform sensor (src/platform/slpi/platform_sensor.cc).        *)
(*                                                                         *)
(* init() opens the QMI client; getSensors() asks SMGR for its sensor list *)
(* and each sensor's data types; setRequest() sends one SMGR buffering     *)
(* request per sensor, keyed by a report ID derived from the sensor type;  *)
(* SMGR answers active reports with buffering indications that the QMI     *)
(* callback decodes into one global message, turns into a sample event    *)
(* and posts to the event loop, whose pool is bounded.                     *)
(*                                                                         *)
(* An SMGR sensor ID is abstracted to the ID range it falls in (the code   *)
(* compares it against the SNS_SMGR_ID_*_V01 bounds); a report ID is the   *)
(* SensorType it is cast from.  Rates and readings are left out; of the    *)
(* timestamps only the base timestamp is kept, converted from SMGR's       *)
(* tick counter of width TickBits.                                         *)
(***************************************************************************)
EXTENDS Integers, Sequences, SequencesExt

CONSTANTS
    SmgrList,        \* SMGR's sensor list: a sequence of [id, range, dataTypes]
    PoolSize,        \* capacity of the event loop's pool
    MaxSetRequests,  \* bound: setRequest() calls
    MaxIndications,  \* bound: indications SMGR sends
    TickBits,        \* width of SMGR's tick counter (32 in the code)
    SecondNanos,     \* Seconds(1).toRawNanoseconds()
    TickFreqHz       \* TIMETICK_NOMINAL_FREQ_HZ

Ranges == {"accel", "gyro", "mag", "pressure", "proxLight", "humidity", "uv",
           "objTemp"}
DataTypes == {"primary", "secondary"}
CalTypes == {"full", "factory"}
Modes == {"Off", "PassiveOneShot", "PassiveContinuous", "ActiveOneShot",
          "ActiveContinuous"}

ASSUME /\ \A i \in DOMAIN SmgrList : SmgrList[i].range \in Ranges
       /\ PoolSize \in Nat /\ MaxSetRequests \in Nat /\ MaxIndications \in Nat

-----------------------------------------------------------------------------
(* Sensor types and report IDs                                             *)

\* A calibrated type for the full-calibration selector, its uncalibrated
\* twin for the factory one.
CalVariant(calType, calibrated, uncalibrated) ==
    CASE calType = "full"    -> calibrated
      [] calType = "factory" -> uncalibrated
      [] OTHER               -> "Unknown"

\* getSensorTypeFromSensorId(): the code's if-chains over the ID ranges.
GetSensorTypeFromSensorId(range, dataType, calType) ==
    IF dataType = "primary"
    THEN CASE range = "accel" ->
                CalVariant(calType, "Accelerometer", "UncalibratedAccelerometer")
           [] range = "gyro" ->
                CalVariant(calType, "Gyroscope", "UncalibratedGyroscope")
           [] range = "mag" ->
                CalVariant(calType, "GeomagneticField",
                           "UncalibratedGeomagneticField")
           [] range = "pressure"  -> "Pressure"
           [] range = "proxLight" -> "Proximity"
           [] OTHER               -> "Unknown"
    ELSE CASE range = "accel"              -> "AccelerometerTemperature"
           [] range = "gyro"               -> "GyroscopeTemperature"
           [] range \in {"proxLight", "uv"} -> "Light"
           [] OTHER                        -> "Unknown"

\* Every type the mapping yields; SensorType::SENSOR_TYPE_COUNT bounds them.
SensorTypes ==
    {GetSensorTypeFromSensorId(r, d, c) : r \in Ranges, d \in DataTypes,
                                          c \in CalTypes} \ {"Unknown"}

\* getSensorTypeFromReportId(): a report ID below SENSOR_TYPE_COUNT is cast
\* back to its type.
GetSensorTypeFromReportId(reportId) ==
    IF reportId \in SensorTypes THEN reportId ELSE "Unknown"

\* getReportId(): the type's value; its CHRE_ASSERT_LOG is on Unknown.
GetReportId(s) == GetSensorTypeFromSensorId(s.range, s.dataType, s.calType)

\* PlatformSensor::getSensorType().
GetSensorType(s) == GetSensorTypeFromSensorId(s.range, s.dataType, s.calType)

IsSecondaryTemperature(reportId) ==
    GetSensorTypeFromReportId(reportId)
        \in {"AccelerometerTemperature", "GyroscopeTemperature"}

\* isValidIndicesLength() on the decoded gSmgrBufferingIndMsg.
IsValidIndicesLength(ind) ==
    \/ Len(ind.indices) = 1 /\ ~IsSecondaryTemperature(ind.reportId)
    \/ Len(ind.indices) = 2 /\ IsSecondaryTemperature(ind.reportId)

\* sensorModeIsActive(): the active modes turn the sensor on.
SensorModeIsActive(mode) == mode \in {"ActiveOneShot", "ActiveContinuous"}

-----------------------------------------------------------------------------
(* Discovery                                                               *)

MakeSensor(entry, dataType, calType) ==
    [id |-> entry.id, range |-> entry.range, dataType |-> dataType,
     calType |-> calType]

\* getSensorsForSensorId(), its success branch: for each data type with a
\* known calibrated type, addPlatformSensor() for it, and for its
\* uncalibrated twin when that type differs.
SensorsForDataType(entry, dataType) ==
    LET type == GetSensorTypeFromSensorId(entry.range, dataType, "full")
        uncal == GetSensorTypeFromSensorId(entry.range, dataType, "factory")
    IN IF type = "Unknown" THEN <<>>
       ELSE IF type # uncal
            THEN <<MakeSensor(entry, dataType, "full"),
                   MakeSensor(entry, dataType, "factory")>>
            ELSE <<MakeSensor(entry, dataType, "full")>>

SensorsForSensorId(entry) ==
    FoldLeft(LAMBDA acc, d : acc \o SensorsForDataType(entry, d), <<>>,
             entry.dataTypes)

\* getSensors(): the list request, then getSensorsForSensorId() for each
\* listed sensor in order.  failAt chooses the first QMI call that fails
\* (0: the list request, k: the k-th per-sensor request, past the end:
\* none); the sensors added before it stay in the vector.
SensorsUpTo(failAt) ==
    FoldLeft(LAMBDA acc, e : acc \o SensorsForSensorId(e), <<>>,
             SubSeq(SmgrList, 1, IF failAt = 0 THEN 0 ELSE failAt - 1))

-----------------------------------------------------------------------------
(* Requests                                                                *)

\* populateSensorRequest() without the dummy primary item.
PopulateSensorRequestNoDummy(mode, s) ==
    [reportId |-> GetReportId(s),
     action |-> IF SensorModeIsActive(mode) THEN "add" ELSE "delete",
     items |-> <<s.dataType>>]

\* populateSensorRequest(): one item for the sensor, and a dummy primary
\* item beside a secondary temperature sensor, as SMGR requires.
PopulateSensorRequest(mode, s) ==
    LET reportId == GetReportId(s) IN
    [reportId |-> reportId,
     action |-> IF SensorModeIsActive(mode) THEN "add" ELSE "delete",
     items |-> IF IsSecondaryTemperature(reportId)
               THEN <<s.dataType, "primary">> ELSE <<s.dataType>>]

NoReport == [active |-> FALSE, items |-> <<>>]

\* SMGR on an acknowledged buffering request: an add for a report ID in use
\* replaces that report, a delete removes it.
ApplyRequest(smgrReports, msg) ==
    [smgrReports EXCEPT ![msg.reportId] =
        IF msg.action = "add" THEN [active |-> TRUE, items |-> msg.items]
        ELSE NoReport]

\* The index of the sample data in the indication: 0 except for a secondary
\* temperature sensor, whose entry is the one with the secondary data type
\* (1-based here).
SampleIndexSwapped(ind) ==
    IF IsSecondaryTemperature(ind.reportId)
    THEN IF ind.indices[1] = "secondary" THEN 2 ELSE 1
    ELSE 1

SampleIndex(ind) ==
    IF IsSecondaryTemperature(ind.reportId)
    THEN IF ind.indices[1] = "secondary" THEN 1 ELSE 2
    ELSE 1

-----------------------------------------------------------------------------
VARIABLES
    phase,          \* "uninit", "ready", "fatal" (FATAL_ERROR), "deinit"
    sensors,        \* the DynamicVector<PlatformSensor> getSensors() filled
    listed,         \* getSensors() has run
    setCalls,       \* setRequest() calls made
    smgr,           \* SMGR's buffering reports, by report ID
    indQ,           \* indications SMGR has sent and QMI not yet delivered
    indications,    \* indications SMGR has sent
    events,         \* sample events queued in the event loop's pool
    live,           \* sample buffers allocated and not yet freed
    nextBuf,        \* the next sample buffer's identity
    asserts,        \* the CHRE_ASSERTs that fired
    smgrTicks,      \* SMGR's tick counter
    lastStamp       \* per sensor type, the base timestamp of its last sample

vars == <<phase, sensors, listed, setCalls, smgr, indQ, indications, events,
          live, nextBuf, asserts, smgrTicks, lastStamp>>

Init ==
    /\ phase = "uninit"
    /\ sensors = <<>>
    /\ listed = FALSE
    /\ setCalls = 0
    /\ smgr = [t \in SensorTypes |-> NoReport]
    /\ indQ = <<>>
    /\ indications = 0
    /\ events = <<>>
    /\ live = {}
    /\ nextBuf = 1
    /\ asserts = {}
    /\ smgrTicks = 0
    /\ lastStamp = [t \in SensorTypes |-> 0]

\* PlatformSensor::init(): qmi_client_init_instance() with the indication
\* callback; a failure is FATAL_ERROR.
PlatformSensorInit ==
    /\ phase = "uninit"
    /\ \E ok \in BOOLEAN : phase' = IF ok THEN "ready" ELSE "fatal"
    /\ UNCHANGED <<sensors, listed, setCalls, smgr, indQ, indications, events,
                   live, nextBuf, asserts, smgrTicks, lastStamp>>

\* PlatformSensor::deinit(): qmi_client_release(); no indication is
\* delivered after it.
PlatformSensorDeinit ==
    /\ phase = "ready"
    /\ phase' = "deinit"
    /\ indQ' = <<>>
    /\ UNCHANGED <<sensors, listed, setCalls, smgr, indications, events, live,
                   nextBuf, asserts, smgrTicks, lastStamp>>

GetSensors ==
    /\ phase = "ready" /\ ~listed
    /\ \E failAt \in 0..Len(SmgrList) + 1 :
         sensors' = sensors \o SensorsUpTo(failAt)
    /\ listed' = TRUE
    /\ UNCHANGED <<phase, setCalls, smgr, indQ, indications, events, live,
                   nextBuf, asserts, smgrTicks, lastStamp>>

\* PlatformSensor::setRequest(): allocate the request and response (either
\* may fail), populate, qmi_client_send_msg_sync(); SMGR applies the request
\* when it acknowledges it.  After deinit() the handle is null and the call
\* fails.
SetRequest(i, mode) ==
    /\ phase \in {"ready", "deinit"} /\ setCalls < MaxSetRequests
    /\ setCalls' = setCalls + 1
    /\ LET msg == PopulateSensorRequest(mode, sensors[i]) IN
       \E outcome \in IF phase = "ready" THEN {"noMem", "qmiErr", "nak", "ack"}
                                         ELSE {"noMem", "qmiErr"} :
         /\ smgr' = IF outcome = "ack" THEN ApplyRequest(smgr, msg) ELSE smgr
         /\ asserts' = IF outcome # "noMem" /\ msg.reportId = "Unknown"
                       THEN asserts \cup {"reportId"} ELSE asserts
    /\ UNCHANGED <<phase, sensors, listed, indQ, indications, events, live,
                   nextBuf, smgrTicks, lastStamp>>

\* SMGR sends a buffering indication for an active report, one index per
\* requested item, in either order.
SmgrIndicate ==
    /\ phase = "ready" /\ indications < MaxIndications
    /\ \E reportId \in SensorTypes :
         /\ smgr[reportId].active
         /\ \E order \in {smgr[reportId].items, Reverse(smgr[reportId].items)} :
              indQ' = Append(indQ, [reportId |-> reportId, indices |-> order,
                                    ticks |-> smgrTicks])
    /\ indications' = indications + 1
    /\ UNCHANGED <<phase, sensors, listed, setCalls, smgr, events, live,
                   nextBuf, asserts, smgrTicks, lastStamp>>

\* SMGR's clock advances one tick; the counter is TickBits wide and wraps.
SmgrTick ==
    /\ smgrTicks' = (smgrTicks + 1) % (2 ^ TickBits)
    /\ UNCHANGED <<phase, sensors, listed, setCalls, smgr, indQ, indications,
                   events, live, nextBuf, asserts, lastStamp>>

\* getNanosecondsFromSmgrTicks(): the tick count, widened to 64 bits only
\* after it was read as a 32-bit value, scaled to nanoseconds.
GetNanosecondsFromSmgrTicks(ticks) == (ticks * SecondNanos) \div TickFreqHz

\* EventLoop::postEvent() without the pool's bound.
PostEventUnbounded(queue, e) == Append(queue, e)

\* EventLoop::postEvent(): mEventPool.allocate() fails when the pool is
\* full, and the event is then not queued.
PostEvent(queue, e) == IF Len(queue) < PoolSize THEN Append(queue, e) ELSE queue

\* handleSensorDataIndication(), called from the QMI indication callback:
\* decode into gSmgrBufferingIndMsg (which may fail), assert the indices
\* length, pick the sample index, map the report ID to a type, allocate and
\* populate the event (which may fail), and post it.  postEvent() fails when
\* the pool is full; EventLoopManager::postEvent() discards that result and
\* nothing frees the buffer.
HandleIndication ==
    /\ indQ # <<>>
    /\ indQ' = Tail(indQ)
    /\ LET ind == Head(indQ)
           type == GetSensorTypeFromReportId(ind.reportId)
       IN \E decodeOk \in BOOLEAN, allocOk \in BOOLEAN :
          IF decodeOk /\ ~IsValidIndicesLength(ind)
          THEN /\ asserts' = asserts \cup {"indices"}
               /\ UNCHANGED <<events, live, nextBuf>>
          ELSE IF decodeOk /\ type # "Unknown" /\ allocOk
          THEN /\ live' = live \cup {nextBuf}
               /\ nextBuf' = nextBuf + 1
               /\ events' =
                    PostEvent(events, [type |-> type, buf |-> nextBuf,
                                       dataType |-> ind.indices[SampleIndex(ind)],
                                       stamp |-> GetNanosecondsFromSmgrTicks(ind.ticks)])
               /\ UNCHANGED asserts
          ELSE UNCHANGED <<events, live, nextBuf, asserts>>
    /\ UNCHANGED <<phase, sensors, listed, setCalls, smgr, indications,
                   smgrTicks, lastStamp>>

\* The event loop delivers the oldest sample event and frees it:
\* smgrSensorDataEventFree() calls memoryFree() on the buffer.
DeliverSample ==
    /\ events # <<>>
    /\ live' = live \ {Head(events).buf}
    /\ events' = Tail(events)
    /\ lastStamp' = [lastStamp EXCEPT ![Head(events).type] = Head(events).stamp]
    /\ UNCHANGED <<phase, sensors, listed, setCalls, smgr, indQ, indications,
                   nextBuf, asserts, smgrTicks>>

Next ==
    \/ PlatformSensorInit \/ PlatformSensorDeinit \/ GetSensors
    \/ \E i \in DOMAIN sensors, mode \in Modes : SetRequest(i, mode)
    \/ SmgrIndicate \/ SmgrTick \/ HandleIndication \/ DeliverSample

\* The properties checked of this module are safety properties, so no
\* fairness is assumed.
Spec == Init /\ [][Next]_vars

-----------------------------------------------------------------------------
(* Properties                                                              *)

TypeOK ==
    /\ phase \in {"uninit", "ready", "fatal", "deinit"}
    /\ smgr \in [SensorTypes -> [active : BOOLEAN, items : Seq(DataTypes)]]
    /\ Len(events) <= PoolSize
    /\ live \subseteq 1..MaxIndications
    /\ asserts \subseteq {"reportId", "indices"}
    /\ smgrTicks \in 0..(2 ^ TickBits - 1)

\* Every queued sample event carries the type and the data of a sensor
\* getSensors() found: getReportId(), SMGR's report, getSensorTypeFromReportId()
\* and the sample index chosen in handleSensorDataIndication() agree, also
\* for a secondary temperature sensor, whose indication carries a dummy
\* primary entry in either order.
SampleMatchesSensor ==
    \A e \in Range(events) :
        \E s \in Range(sensors) :
            GetSensorType(s) = e.type /\ s.dataType = e.dataType

\* No CHRE_ASSERT fires: every sensor getSensors() adds has a known report
\* ID, and every indication has the indices length isValidIndicesLength()
\* expects, because populateSensorRequest() adds the dummy primary item
\* exactly for secondary temperature reports.
NoAssertFires == asserts = {}

\* The base timestamps of one sensor's samples, as the nanoapps receive
\* them, never go back in time: chreSensorDataHeader.baseTimestamp is in
\* the time base of chreGetTime(), the monotonic clock of spec section 2,
\* while getNanosecondsFromSmgrTicks() converts SMGR's wrapping 32-bit
\* tick count.
SampleTimestampsNonDecreasing ==
    [][\A t \in SensorTypes : lastStamp'[t] >= lastStamp[t]]_vars

\* Every allocated sample buffer is still held by a queued event until the
\* event loop frees it.
NoLeakedSampleBuffer ==
    \A b \in live : \E e \in Range(events) : e.buf = b

====
