# TLA+ models of the CHRE runtime

This directory holds TLA+ models of the CHRE (Context Hub Runtime Environment) code under `src/`. TLC checks them. Each module is translated from the C++ source, and `PROJECT.json` maps every definition to the lines it models.

## The system and its parts

| Part | Source | State | Operations | Interacts with |
|---|---|---|---|---|
| Event loop | `core/event_loop.cc`, `core/include/chre/core/event.h` | `mNanoapps` (each with its own event queue), the inbound queue `mEvents`, the event pool, `mRunning`, `mStoppingNanoapp`, `mCurrentApp` | `postEvent` (any thread), `stop` (any thread), `run` (loop thread), `startNanoapp`, `unloadNanoapp`, `distributeEvent`, `deliverEvents`, `freeEvent` | every other part posts events into it |
| Event loop manager | `core/event_loop_manager.cc` | the list of event loops (one) | `createEventLoop`, `postEvent` fan-out | the event loop |
| Wifi request manager (scan monitor) | `core/wifi_request_manager.cc` | `mScanMonitorNanoapps`, `mScanMonitorStateTransitions` | `configureScanMonitor`, `handleScanMonitorStateChange` (platform thread), `handleScanMonitorStateChangeSync` (loop thread) | the platform wifi driver; the event loop, for deferral and result events |
| SensorRequest | `core/sensors.cc` | value type (mode, interval, latency) | `generateIntersectionOf`, `isEquivalentTo` | the sensor request multiplexer; its code is not in `src/` |
| SLPI platform sensor | `platform/slpi/platform_sensor.cc` | the QMI client, the sensors `getSensors()` found, SMGR's buffering reports | `PlatformSensor::init`/`deinit`, `getSensors`, `setRequest`, the QMI indication callback, `smgrSensorDataEventFree` | SMGR over QMI; the event loop, through posted sample events |
| Host socket client | `host/common/socket_client.cc` | the socket fd, the RX thread, `mGracefulShutdown` | `connect`, `disconnect`, `sendMessage`, `receiveThread`, `reconnect` | the host daemon |

Parts with no model:

- the socket server: only a header is present.
- the flatbuffers host protocol codec: pure encoding.
- the test client.
- `init.cc`: start-up glue.
- the demo and calibration nanoapps: their business logic is out of scope.
- `Optional`.
- the sensor type tables.

### Hard behaviours

- **Event loop.**
  - Several threads post, and one thread consumes.
  - `stop()` races `run()` and any poster.
  - Events are reference counted across a fan-out to several nanoapps, and the last release must run the free callback exactly once.
  - An unload must drain in a fixed order before a nanoapp's memory goes away.
- **Wifi.**
  - Requests are coalesced in a queue, and only one platform call may be in flight.
  - The platform answers asynchronously, on its own thread.
  - The answer is deferred through the event loop.
- **Socket client.** Its RX thread closes and reconnects the socket while other threads send on it or disconnect.

## Modules

| Module | Models | Instantiated by |
|---|---|---|
| `EventLoop` | the event loop, its posting threads and `stop()` | `MCEventLoop` |
| `WifiRequestManager` | the scan-monitor state machine and the platform | `MCWifiRequestManager` |
| `SensorRequest` | `SensorRequest`'s value and `generateIntersectionOf()`, as operators | used by `SensorMultiplexer` |
| `RequestMultiplexer` | a list of requests and its maximal request, generic in the merge operator | instantiated by `SensorMultiplexer` |
| `AbstractMultiplexer` | what a multiplexer promises: a multiset of requests whose maximal is their merge | checked as a refinement by `RequestMultiplexer` |
| `SensorMultiplexer` | the multiplexer over `SensorRequest`, through `INSTANCE RequestMultiplexer WITH` | `MCSensorMultiplexer` |
| `PlatformSensor` | the SLPI platform sensor: discovery, SMGR requests, the indication callback and the sample events it posts | `MCPlatformSensor` |
| `SocketClient` | the host socket client's control, sender and receive threads, and the kernel's descriptor table | `MCSocketClient` |

### EventLoop

The variables mirror the members:

| Variable | Stands for |
|---|---|
| `nanoapps` | `mNanoapps`, each entry with its own event queue |
| `inbound` | `mEvents` |
| `ev` | the events of the pool, by allocation order; each has type, sender, target, reference count, status and the number of times its free callback ran |
| `running` | `mRunning` |
| `stopping` | `mStoppingNanoapp` |

The loop thread's control point is `loopPc`, along with the locals of `run()` and `deliverEvents()`: `havePending`, `rr`, `roundPending` and `roundCaller`.

Each poster thread and the `stop()` caller has a program counter. A post is split into two steps:

1. `PostBegin`: the `mRunning` check and the allocation.
2. `PostEnd`: the push onto `mEvents`.

`stop()` is split into three steps: `StopBegin`, `StopPush` and `StopClear`. These are the points where the code has no lock between them.

On the loop thread:

- `LoopTop` and `LoopPop` are the body of `run()`.
- `DeliverSkip` and `DeliverNext` are one nanoapp's turn in a round-robin round. `DeliverNext` includes the nanoapp's `handleEvent`, which may post one event.
- `RunRoundEnd` and `FlushRoundEnd` end a round for `run()` and for `flushNanoappEventQueues()` respectively.
- `StartNanoapp` is the whole of `startNanoapp()`, including a `start()` that may fail.
- The unload drain is five steps, in the code's order: `UnloadNanoapp`, `UnloadFlushInbound`, `UnloadMarkStopping`, the flush rounds, and `UnloadEnd`.
- `Purge`, `PurgeDone`, `UnloadLast` and `LoopExit` are the shutdown drain after the loop exits.

Start and unload requests reach the loop between events.

### WifiRequestManager

| Variable | Stands for |
|---|---|
| `transitions` | `mScanMonitorStateTransitions` |
| `monitoring` | `mScanMonitorNanoapps` |
| `drvEnabled`, `drvCalls` | the platform: its state and the calls it has accepted but not answered |
| `deferred` | answers deferred to the loop |

The actions:

- `Configure` is the whole of `configureScanMonitor()`, with its three branches and its assertion.
- `DriverAnswer` is the platform answering, plus `handleScanMonitorStateChange()`, whose allocation may fail.
- `SyncHead` and `SyncStep` are `handleScanMonitorStateChangeSync()`. `SyncHead` answers the head; `SyncStep` is one pass of its `while` loop. Both run on the loop thread, so `Configure` waits while `syncPc = "loop"`.

The helper operators keep the code's own logic, including `nanoappHasScanMonitorRequest()`'s `index == size()`.

Three quantities are kept only for the properties:

- `results[r]`: the result events posted for request `r`, where a request's id stands for its cookie.
- `accepted`: the calls that returned true.
- `resultOrder`: the requests whose result events were posted, in posting order.
- `driverFailed`: the requests the platform refused or failed.

### SensorRequest, RequestMultiplexer and SensorMultiplexer

`SensorRequest` translates `sensors.cc`:

- `DefaultSensorRequest` is the default constructor, `(Off, 0, 0)`.
- `IsEquivalentTo` compares all three fields.
- `MaximalMode` is the `if` chain of `getMaximalMode()`, in the code's order.
- `GenerateIntersectionOf` takes the maximal mode and the minimum interval and latency.

`RequestMultiplexer`'s code is not in `src/`, so it is modelled from spec 4.3 and the multiplexer tests. It holds a list of requests, and the maximal request is the fold of `Merge` over the list, starting from the default request. Its actions are add (up to `MaxRequests`), remove and update. Each one recomputes the maximal request and records whether it changed.

`SensorMultiplexer` instantiates it with `GenerateIntersectionOf`, `IsEquivalentTo` and `DefaultSensorRequest`. Client requests are any request whose mode is not Off.

`AbstractMultiplexer` is the multiplexer's promise with the order taken out: a bag of requests, and a maximal equivalent to `FoldBag` of the merge over the bag. Its edits are add, remove and replace. `RequestMultiplexer` instantiates it with `bag <- ToBag(requests)` and checks `Abs!Spec` as a temporal property. This refinement replaces the earlier invariant that folded over every permutation of the list: it also checks the `changed` flag and that every edit is one bag edit.

### PlatformSensor

| Variable | Stands for |
|---|---|
| `phase` | before `init()`, after it, after a `FATAL_ERROR` in it, after `deinit()` |
| `sensors`, `listed` | the `DynamicVector<PlatformSensor>` that `getSensors()` filled, and whether it ran |
| `setCalls` | `setRequest()` calls made (bounded by `MaxSetRequests`) |
| `smgr` | SMGR's buffering reports, by report ID: active or not, and the items of the last add |
| `indQ`, `indications` | indications SMGR sent and QMI has not delivered; how many were sent |
| `events`, `live`, `nextBuf` | sample events in the event loop's queue; sample buffers allocated and not freed; the next buffer's identity |
| `asserts` | the `CHRE_ASSERT`s that fired |
| `smgrTicks` | SMGR's tick counter, `TickBits` wide (32 in the code) |
| `lastStamp` | per sensor type, the base timestamp of the last sample the event loop delivered |

The actions:

- `PlatformSensorInit` and `PlatformSensorDeinit` are `PlatformSensor::init()` (QMI client init, success or `FATAL_ERROR`) and `deinit()`.
- `GetSensors` is `getSensors()`: it walks the SMGR sensor list through `getSensorsForSensorId()`, and a QMI error on any entry ends discovery there with the sensors found so far.
- `SetRequest(i, mode)` is `setRequest()` on sensor `i`: `populateSensorRequest()` builds the buffering request (an add with one or two items, or a delete), then the QMI call returns no memory, a transport error, a NAK or an ACK. Only an ACK changes SMGR.
- `SmgrIndicate` is SMGR sending an indication for an active report. Its items come in either order, since SMGR does not promise one.
- `HandleIndication` is `platformSensorServiceQmiIndicationCallback()` with `handleSensorDataIndication()`: decode, the `isValidIndicesLength()` assert, allocation of the sample buffer, and `postEvent()` of one sample event. The item picked for the sample is the one `handleSensorDataIndication()` picks, and the event's type comes from the report ID.
- `SmgrTick` is SMGR's tick counter advancing, modulo `2^TickBits`.
- `DeliverSample` is the event loop delivering the head event and calling `smgrSensorDataEventFree()`.

`GetNanosecondsFromSmgrTicks(ticks)` is `getNanosecondsFromSmgrTicks()`: ticks times 10^9, divided by the 32768 Hz tick frequency. Each indication carries the counter at the time SMGR sent it, and `HandleIndication` stamps the sample with this conversion, as `handleSensorDataIndication()` does for `baseTimestamp`.

`PostEvent` is `EventLoop::postEvent()` seen from here: it returns false, and frees nothing, when the pool is full. Readings and the sample layout are left out: a sample is its type, its data type, its buffer and its base timestamp.

### SocketClient

| Variable | Stands for |
|---|---|
| `sockFd` | `mSockFd` (an atomic; every use is a fresh read) |
| `graceful`, `reconnectAuto` | `mGracefulShutdown`, `mReconnectAutomatically` |
| `rxJoinable`, `rxPc`, `retry` | `mRxThread`, where `receiveThread()` is, and `reconnect()`'s `retryLimit` |
| `ctlPc`, `connectAfter` | where the `connect()` / `disconnect()` caller is |
| `sendPc` | where each `sendMessage()` caller is |
| `owner`, `conn` | the kernel: who holds each descriptor number, and the state of the client's connection |

The kernel hands out the lowest free descriptor number, and other code of the process may open and close descriptors (`OtherOpen`, `OtherClose`). The daemon may send, close, or fail the connection (`RemoteSend`, `RemoteClose`).

A step is cut wherever the code reads or writes `mSockFd` without a lock:

- `disconnect()` is `DisconnectFlag`, `DisconnectCheck`, `DisconnectShutdown` and `DisconnectJoin`.
- `sendMessage()` is `SendCheck` and `SendData`.
- `receiveThread()` is `RxTop`, `RxRecv`, `RxClose`, `RxInvalidate`, `RxLoopCond` and `RxExit`.
- `reconnect()` is `RxRetryDec`, `RxWait` and `RxTry`.

`connect()` is `Connect`, which may first run the implicit disconnect, followed by `ConnectBody`. Four ghost variables record the following:

- a callback after `disconnect()` returned;
- a `shutdown()` on a descriptor the client does not own;
- a `send()` on a descriptor the client does not own;
- whether `disconnect()` has returned.

## Runs

| Run | Expect | What it shows |
|---|---|---|
| `eventloop_running` | pass | With a poster, nanoapps posting while handling, starts and unloads, three things hold: every reference count equals the number of queues holding the event, and the free callback runs exactly once (`EventAccounting`); no live event's sender is unloaded (`NoDanglingSenderEvents`); every accepted event is eventually freed (`EveryAcceptedEventFreed`). Events from one sender to one nanoapp are delivered in the order they were posted (`DeliveredInPostOrder`, spec section 5), whether `run()` or the unload drain pops them from `mEvents`. |
| `eventloop_shutdown` | pass | The same two safety properties hold with `stop()` racing the loop, through the flush, purge and unload-all drain; `DeliveredInPostOrder` holds there too. |
| `eventloop_stop_hang` | violation | `stop()` posts before it clears `mRunning`. The loop takes the sentinel, loops again and blocks in `pop()` forever. |
| `eventloop_post_during_shutdown` | violation | A poster that passed the `mRunning` check pushes after the purge, and its event's free callback never runs. |
| `wifi_scan_monitor` | pass | At most one platform call is in flight, and it belongs to the head of the queue. Each request gets at most one result, and only accepted ones. Result events are posted in the order of the configure calls, across nanoapps (`ResultsInRequestOrder`). Every accepted request is answered. |
| `wifi_monitor_stays_on` | violation | After a successful enable, `mScanMonitorNanoapps` stays empty while the platform is on, and no disable ever reaches the platform. |
| `sensor_multiplexer` | pass | Through any sequence of adds, removes and updates, the maximal request's mode is the highest-priority mode requested (`MaximalModeIsHighestPriority`). The list-based multiplexer implements the order-free abstract multiplexer of `AbstractMultiplexer` (`ImplementsAbstractMultiplexer`, a refinement through `INSTANCE ... WITH bag <- ToBag(requests)`): every edit of the list is an edit of the multiset, and the cached maximal is the merge of the multiset in any order. |
| `socket_client` | pass | Across connect, reconnect and disconnect cycles, with a sender and other code opening descriptors, three things hold. The client holds only the descriptor in `mSockFd`, and only while its receive thread runs (`ClientOwnsOnlySockFd`). No callback runs after `disconnect()` returns (`NoCallbackAfterDisconnect`). `disconnect()` returns even when the daemon stays silent (`DisconnectReturns`). |
| `platform_sensor` | pass | With an accelerometer (primary and temperature) and a barometer, discovery, requests and indications in any order: every sample event's type and data type belong to a discovered sensor (`SampleMatchesSensor`), the pool bound holds (`TypeOK`), and no `CHRE_ASSERT` fires (`NoAssertFires`), including for the temperature sensor whose request carries a dummy primary item. |
| `platform_sensor_leak` | violation | When the pool is full, `postEvent()` returns false and `handleSensorDataIndication()` ignores it, so the sample buffer it allocated is never freed. |
| `platform_sensor_clock` | violation | SMGR's 32-bit tick counter wraps about every 36.4 hours. `getNanosecondsFromSmgrTicks()` converts the wrapped count, so a sample's base timestamp is earlier than the previous sample's of the same sensor (`SampleTimestampsNonDecreasing`). |
| `socket_foreign_descriptor` | violation | The receive thread closes the socket and only then stores `INVALID_SOCKET`. In that window, other code is given the same descriptor number, and `disconnect()`'s `shutdown()` or `sendMessage()`'s `send()` acts on it. |

The findings in `PROJECT.json` give the code lines and the counterexample each violation shows.

Six more defects are stated as properties but are not kept as runs:

- `MaximalRateIsFastestRequested`: folding from the default `(Off, 0, 0)` makes the maximal interval and latency 0 whatever is requested. The default is not the identity of the merge that spec property 4 requires. It fails under the `sensor_multiplexer` bounds, and a unit test of the merge reaches it.
- `EndAfterTargetedEvents`: spec section 5 says a nanoapp's `end()` comes after every event targeted at it was delivered or dropped. During the unload drain, another nanoapp may post to the stopping one after `mEvents` was flushed, and the event is still queued when `end()` runs. It fails under the `eventloop_running` bounds. The event is freed later with no taker, so nothing dangles.
- `FailureOnlyFromDriver`: a request queued behind a failed head is answered with failure, although it is already in its requested state. It fails under the `wifi_scan_monitor` bounds.
- `EveryAcceptedRequestAnswered` with `AllocMayFail = TRUE`: a failed allocation in `handleScanMonitorStateChange()` drops the answer, and the queue never drains.
- The Wifi inverted lookup also makes a disable call `erase(size())`. `NoEraseOutOfRange` states this, and it fails under the `wifi_monitor_stays_on` bounds.
- A nanoapp that posts in `start()` and then fails is popped while its event is queued. This is the TODO at `event_loop.cc:156`. With `StartMayPost = TRUE`, `NoDanglingSenderEvents` fails.

Replacing the Wifi lookup by the intended `find() != size()` makes both `ScanMonitorFollowsRequests` and `NoEraseOutOfRange` hold under the same bounds. That confirms `wifi_request_manager.cc:113` as the single cause of both failures.

One observation about the event loop: each `pop()` is followed by a full round. Each round delivers one event to every nanoapp that has one. So, while the loop runs, nanoapp queues hold at most one event at the top of the loop, and `havePendingEvents` is false there. Queues grow only inside the unload drain's `flushInboundEventQueue()`. That is where the round's pending flag matters, and its mutant is caught there.

Each property of a passing run has a mutant in `PROJECT.json`: a plausible bug in a mapped definition that TLC shows breaks the property.

## Bounds

**EventLoop** runs use two app ids, one poster thread, and one event type.

- `MaxEvents` is 3 while running and 4 with stop. It is enough for a poster event, a nanoapp's post while handling, and the stop sentinel to coexist.
- `PoolSize` is 3. This lets the pool fill.
- `MaxStarts` is 3 while running and 2 with stop. This allows a restart of an unloaded app id.

**Wifi** runs use two nanoapps, a queue of capacity 2 (so it fills), and six configure calls in the passing run (41,561 distinct states). Six calls are enough for a failed head followed by coalesced enables and disables from both nanoapps, with the queue full behind a transition in flight.

**SensorMultiplexer** uses up to three requests, two intervals and two latencies. That is enough for requests that disagree on every field, and for every permutation of a full list.

**PlatformSensor** uses an SMGR list of an accelerometer with a primary and a secondary (temperature) data type, and a barometer with a primary only. That covers one- and two-item requests and both sample-index branches. `MaxSetRequests` is 3 and `MaxIndications` is 3, which is enough to activate a report, deactivate it and have indications queued across that. `PoolSize` is 2 in the passing run, so the pool fills, and 1 in the leak run. The tick counter is one bit wide (`TickBits = 1`), with the code's 10^9 and 32768 Hz. A wrap needs only one tick, and TLC's integers hold ticks times 10^9. The 32-bit counter of the code wraps the same way, only after 2^32 ticks.

**SocketClient** uses two descriptor numbers, so that a number the client closed is the next one given to other code. The other bounds are:

- `RetryLimit` is 3, which gives two attempts. The code's 40 changes only how many times the same steps repeat.
- `MaxConnects` is 2: a reconnect cycle with its implicit disconnect.
- There is one sender with one send, and one message from the daemon.

The reconnect delays (500 ms doubling to 5 minutes) only decide when the timed wait ends, so the model leaves their values out.

## Fairness

- **EventLoop.** The loop thread is a dedicated thread and gets weak fairness. A poster that has allocated goes on to push, and `stop()`, once entered, returns. New posts, starts, unloads and `stop()` calls are never forced.
- **Wifi.** The platform answers every call it accepted, as its contract in spec 4.5 says. The loop runs the deferred callback and the loop it starts. Configure calls are not forced.

- **SocketClient.** The receive thread, a `connect()` or `disconnect()` in progress, and a send that passed its check all get weak fairness. The receive thread's waits in `reconnect()` are timed, so they always end. A `recv()` ends only when the daemon sends or closes, or when `disconnect()` shuts the socket down. The daemon and other code are never forced, so `DisconnectReturns` covers a daemon that stays silent.
- **PlatformSensor** has no fairness. Its properties are safety properties. The event loop is abstracted here to a FIFO pop that always frees the buffer, so a liveness claim about freeing would hold by that abstraction alone. The free-callback accounting is checked in EventLoop (`EventAccounting`), and the leak on a failed post by the `platform_sensor_leak` run.
- **SensorMultiplexer** has no fairness. Its properties are invariants.

Deadlock checking is off in every run except the sensor runs, for these reasons:

- The event loop blocks in `pop()` when there is nothing to do, which is its normal idle state.
- The Wifi model stops once the bounded calls are used up.
- The socket client stops once its bounded calls are used up.
- The platform sensor model stops once its requests and indications are used up.

## Not modelled, and why

- **Host messages.** `flushMessagesSentByNanoapp()` and the host comms manager are not in `src/`.
- **Posting from the Wifi code.** Result events posting into the event loop are taken to succeed. A full pool there ends in `FATAL_ERROR`, which is not modelled.
- **Timer pool.** Its code is not in `src/`.
- **Locks.** The `mNanoappsLock` readers only read.
- **Sensor samples.** Readings, the per-reading timestamp deltas, and the layout of the sample structs are left out. Two secondary sensors share the light report ID (`platform_sensor.cc:557`). This is listed as a hazard in `PROJECT.json`, and the SMGR list modelled has no such pair.
- **SLPI headers.** `PlatformSensorBase` has no `calType` member in `src/`, although `platform_sensor.cc` uses `this->calType`. The model gives each sensor the calibration type that `getSensorsForSensorId()` passes.
- **Nano calibration** (`nano_calibration.cc`). The calibration algorithms are external libraries, and spec section 1 puts them out of scope. What the file does around them has no ordering or concurrency to check:
  - it sets a ready flag when a library reports a new estimate, and a getter clears it;
  - it rate-limits the OTC offset check.

  Its real risks are in float arithmetic: a zero `readingCount` in the temperature mean (line 185), and 64-bit timestamps rounded through `float` for the magnetometer (line 359). They are listed as hazards without a property.

## Plan

Done: EventLoop, WifiRequestManager, SensorRequest with the multiplexer and its refinement of `AbstractMultiplexer`, SocketClient, and the SLPI PlatformSensor.

Still to add: the composition of WifiRequestManager with EventLoop, so that the deferred callback and the result events go through the modelled loop and its pool. It would check that a full pool during the Wifi answer loses no result.
