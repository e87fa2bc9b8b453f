-------------------------- MODULE WifiRequestManager --------------------------
(***************************************************************************)
(* The scan-monitor state machine of WifiRequestManager                   *)
(* (src/core/wifi_request_manager.cc).                                     *)
(*                                                                         *)
(* Nanoapps call configureScanMonitor(enable) on the event-loop thread.    *)
(* A request that needs the driver is queued in                            *)
(* mScanMonitorStateTransitions and the platform's configureScanMonitor()  *)
(* is called; the platform answers later on its own thread through         *)
(* handleScanMonitorStateChange(), which defers the answer to the event    *)
(* loop, where handleScanMonitorStateChangeSync() answers the head of the  *)
(* queue and then works through the requests queued behind it.             *)
(* mScanMonitorNanoapps is the list of nanoapps with an active request.    *)
(*                                                                         *)
(* A request is identified by the order of the configure calls             *)
(* (1..MaxRequests); that id stands for the cookie, which is what the      *)
(* result event carries back to the nanoapp.  A result event is recorded   *)
(* as its success flag in results[request].                                *)
(***************************************************************************)
EXTENDS Integers, Sequences, FiniteSets, SequencesExt

CONSTANTS
    Nanoapps,        \* instance ids of the requesting nanoapps (integers > 0)
    MaxRequests,     \* bound: configureScanMonitor() calls in a behaviour
    QueueCapacity,   \* capacity of mScanMonitorStateTransitions
    AllocMayFail     \* whether memoryAlloc()/deferCallback() may fail

ASSUME /\ Nanoapps \subseteq Nat \ {0}
       /\ MaxRequests \in Nat /\ QueueCapacity \in Nat \ {0}
       /\ AllocMayFail \in BOOLEAN

ReqIds == 1..MaxRequests
\* CHRE_ERROR_NONE and any other error code.
ErrorCodes == {"none", "error"}

VARIABLES
    transitions,   \* mScanMonitorStateTransitions: Seq of [iid, enable, req]
    monitoring,    \* mScanMonitorNanoapps: Seq of instance ids
    drvEnabled,    \* the platform's scan monitor state
    drvCalls,      \* platform configureScanMonitor() calls not yet answered
    deferred,      \* answers deferred to the event loop, not yet handled
    syncPc,        \* "idle", or "loop" inside handleScanMonitorStateChangeSync
    syncSuccess,   \* handleScanMonitorStateChangeSync(): local success
    nextReq,       \* id of the next configureScanMonitor() call
    accepted,      \* requests whose configureScanMonitor() returned true
    results,       \* result events posted: [ReqIds -> Seq(BOOLEAN)]
    resultOrder,   \* the requests whose result events were posted, in order
    driverFailed,  \* requests the platform refused or answered with failure
    asserts,       \* CHRE_ASSERTs that fired
    fatal          \* FATAL_ERROR() was reached

drvVars == <<drvEnabled, drvCalls, deferred>>
ghostVars == <<driverFailed, asserts>>
resVars == <<results, resultOrder>>
vars == <<transitions, monitoring, drvVars, syncPc, syncSuccess, nextReq,
          accepted, resVars, ghostVars, fatal>>

-----------------------------------------------------------------------------
(* Helpers: the private predicates of WifiRequestManager                   *)

\* scanMonitorIsEnabled(): the list of monitoring nanoapps is not empty.
ScanMonitorIsEnabled(list) == list # <<>>

\* DynamicVector::find(): the 0-based index of iid, or size() if absent.
Find(list, iid) ==
    IF \E i \in DOMAIN list : list[i] = iid
    THEN CHOOSE i \in 0..Len(list) - 1 : list[i + 1] = iid
    ELSE Len(list)

\* nanoappHasScanMonitorRequest(): as written, the result is
\* index == size(), i.e. true when iid is NOT in the list; the index it
\* hands back is then size().
NanoappHasScanMonitorRequest(list, iid) == Find(list, iid) = Len(list)

\* scanMonitorIsInRequestedState(requestedState, nanoappHasRequest).
InRequestedState(enable, hasReq, list) ==
    \/ enable = ScanMonitorIsEnabled(list)
    \/ ~enable /\ (~hasReq \/ Len(list) > 1)

\* scanMonitorStateTransitionIsRequired(requestedState, nanoappHasRequest).
TransitionRequired(enable, hasReq, list) ==
    \/ enable /\ list = <<>>
    \/ ~enable /\ hasReq /\ Len(list) = 1

\* DynamicVector::erase(index): an index past the end asserts and leaves
\* the vector as it was.
Erase(list, index) ==
    IF index < Len(list)
    THEN [ok |-> TRUE,
          list |-> SubSeq(list, 1, index) \o SubSeq(list, index + 2, Len(list))]
    ELSE [ok |-> FALSE, list |-> list]

\* updateNanoappScanMonitoringList(enable, instanceId): the new list, the
\* result, and whether erase() was called out of range.
UpdateList(list, enable, iid) ==
    LET has   == NanoappHasScanMonitorRequest(list, iid)
        index == Find(list, iid)
        er    == Erase(list, index)
    IN CASE enable /\ ~has -> [ok |-> TRUE, list |-> Append(list, iid), oob |-> FALSE]
         [] enable         -> [ok |-> TRUE, list |-> list, oob |-> FALSE]
         [] ~has           -> [ok |-> FALSE, list |-> list, oob |-> FALSE]
         [] OTHER          -> [ok |-> TRUE, list |-> er.list, oob |-> ~er.ok]

\* postScanMonitorAsyncResultEvent(iid, success, enable, ..., cookie r):
\* a successful result first updates the list; the event is posted unless
\* that update failed.  Posting to the event loop is taken to succeed.
PostResult(iid, success, enable, r) ==
    LET u == UpdateList(monitoring, enable, iid)
        posted  == ~success \/ u.ok
    IN [posted  |-> posted,
        list    |-> IF success THEN u.list ELSE monitoring,
        results |-> IF posted THEN [results EXCEPT ![r] = Append(@, success)]
                    ELSE results,
        order   |-> IF posted THEN Append(resultOrder, r) ELSE resultOrder,
        asserts |-> IF success /\ u.oob THEN asserts \cup {"erase"} ELSE asserts]

\* Applies a PostResult p to the state; postScanMonitorAsyncResultEventFatal()
\* ends in FATAL_ERROR() when nothing was posted.
ApplyPostFatal(p) ==
    /\ monitoring' = p.list
    /\ results' = p.results
    /\ resultOrder' = p.order
    /\ asserts' = p.asserts
    /\ fatal' = ~p.posted

\* Mutant of AddToQueue: the capacity of the queue is not checked.
AddToQueueUnbounded(q, iid, enable, r) ==
    [ok |-> TRUE, q |-> Append(q, [iid |-> iid, enable |-> enable, req |-> r])]

\* Mutant of AddToQueue: the request is pushed at the front of the queue.
AddToQueueFront(q, iid, enable, r) ==
    IF Len(q) < QueueCapacity
    THEN [ok |-> TRUE, q |-> <<[iid |-> iid, enable |-> enable, req |-> r]>> \o q]
    ELSE [ok |-> FALSE, q |-> q]

\* addScanMonitorRequestToQueue(): push onto the fixed-capacity queue.
AddToQueue(q, iid, enable, r) ==
    IF Len(q) < QueueCapacity
    THEN [ok |-> TRUE, q |-> Append(q, [iid |-> iid, enable |-> enable, req |-> r])]
    ELSE [ok |-> FALSE, q |-> q]

\* Mutant of RemoveLast: the refused transition is left in the queue.
KeepLast(q) == q

\* Mutant of PopFront: the answered head is not popped.
KeepFront(q) == q

\* handleScanMonitorStateChangeSync(): mScanMonitorStateTransitions.pop()
\* of the head it has just answered.
PopFront(q) == Tail(q)

\* mScanMonitorStateTransitions.remove(size() - 1).
RemoveLast(q) == SubSeq(q, 1, Len(q) - 1)

\* Mutant of TransitionPending: configureScanMonitor() does not look at
\* the queue first.
TransitionPendingIgnored(q) == FALSE

\* configureScanMonitor(): !mScanMonitorStateTransitions.empty().
TransitionPending(q) == q # <<>>

\* mPlatformWifi.configureScanMonitor(enable) accepted: the call is in
\* flight at the platform.
CallDriver(enable, r) ==
    drvCalls' = Append(drvCalls, [enable |-> enable, req |-> r])

-----------------------------------------------------------------------------
(* configureScanMonitor(nanoapp, enable, cookie) on the event-loop thread   *)

\* The instance id is passed where scanMonitorIsInRequestedState() and
\* scanMonitorStateTransitionIsRequired() expect nanoappHasRequest; a
\* nonzero id converts to true.
HasRequestArg(iid) == iid # 0

\* The whole call: (a) queue behind a pending transition, (b) answer at
\* once when already in the requested state, (c) queue and call the
\* platform, removing the entry again if the platform refuses, else an
\* assertion.  The request is accepted when the call returns true.
Configure(iid, enable) ==
    LET r   == nextReq
        has == HasRequestArg(iid)
        add == AddToQueue(transitions, iid, enable, r)
    IN
    /\ ~fatal /\ syncPc = "idle"
    /\ nextReq <= MaxRequests
    /\ nextReq' = nextReq + 1
    /\ CASE TransitionPending(transitions) ->
              /\ transitions' = add.q
              /\ accepted' = IF add.ok THEN accepted \cup {r} ELSE accepted
              /\ UNCHANGED <<monitoring, drvVars, resVars, ghostVars, fatal>>
         [] InRequestedState(enable, has, monitoring) ->
              LET p == PostResult(iid, TRUE, enable, r)
              IN /\ monitoring' = p.list
                 /\ results' = p.results
                 /\ resultOrder' = p.order
                 /\ asserts' = p.asserts
                 /\ accepted' = IF p.posted THEN accepted \cup {r} ELSE accepted
                 /\ UNCHANGED <<transitions, drvVars, driverFailed, fatal>>
         [] TransitionRequired(enable, has, monitoring) ->
              \/ /\ ~add.ok
                 /\ UNCHANGED <<transitions, accepted, driverFailed>>
                 /\ UNCHANGED <<monitoring, drvVars, resVars, asserts, fatal>>
              \/ /\ add.ok
                 /\ \E driverAccepts \in BOOLEAN :
                      IF driverAccepts
                      THEN /\ transitions' = add.q
                           /\ CallDriver(enable, r)
                           /\ accepted' = accepted \cup {r}
                           /\ UNCHANGED <<drvEnabled, deferred, driverFailed>>
                      ELSE /\ transitions' = RemoveLast(add.q)
                           /\ driverFailed' = driverFailed \cup {r}
                           /\ UNCHANGED <<accepted, drvVars>>
                 /\ UNCHANGED <<monitoring, resVars, asserts, fatal>>
         [] OTHER ->
              /\ asserts' = asserts \cup {"invalid_configuration"}
              /\ UNCHANGED <<transitions, monitoring, drvVars, accepted,
                             resVars, driverFailed, fatal>>
    /\ UNCHANGED <<syncPc, syncSuccess>>

-----------------------------------------------------------------------------
(* The platform and handleScanMonitorStateChange() on its thread            *)

\* The platform answers its oldest call: either it reaches the requested
\* state with CHRE_ERROR_NONE, or it fails and reports the state it is in
\* with an error.  handleScanMonitorStateChange() allocates the callback
\* state and defers it to the event loop; if the allocation fails the
\* answer is logged and dropped.
DriverAnswer ==
    /\ ~fatal
    /\ drvCalls # <<>>
    /\ LET c == Head(drvCalls) IN
       \E ok \in BOOLEAN, allocOk \in IF AllocMayFail THEN BOOLEAN ELSE {TRUE} :
         LET enabled == IF ok THEN c.enable ELSE drvEnabled
             answer  == [enabled |-> enabled,
                         error |-> IF ok THEN "none" ELSE "error"]
         IN /\ drvEnabled' = enabled
            /\ drvCalls' = Tail(drvCalls)
            /\ deferred' = IF allocOk THEN Append(deferred, answer) ELSE deferred
    /\ UNCHANGED <<transitions, monitoring, syncPc, syncSuccess, nextReq,
                   accepted, resVars, ghostVars, fatal>>

-----------------------------------------------------------------------------
(* handleScanMonitorStateChangeSync(enabled, errorCode) on the loop thread  *)

\* The deferred callback runs: the head of the queue is answered with
\* success = (errorCode == NONE) && (head.enable == enabled) and popped
\* (an empty queue asserts and skips this); then the loop over the rest.
SyncHead ==
    /\ ~fatal /\ syncPc = "idle"
    /\ deferred # <<>>
    /\ LET a       == Head(deferred)
           success == a.error = "none"
       IN IF transitions = <<>>
          THEN /\ asserts' = asserts \cup {"no_transitions"}
               /\ syncSuccess' = success
               /\ UNCHANGED <<transitions, monitoring, resVars, driverFailed, fatal>>
          ELSE LET h  == Head(transitions)
                   ok == success /\ h.enable = a.enabled
               IN /\ ApplyPostFatal(PostResult(h.iid, ok, h.enable, h.req))
                  /\ transitions' = PopFront(transitions)
                  /\ syncSuccess' = ok
                  /\ driverFailed' = IF ok THEN driverFailed
                                     ELSE driverFailed \cup {h.req}
    /\ deferred' = Tail(deferred)
    /\ syncPc' = "loop"
    /\ UNCHANGED <<drvEnabled, drvCalls, nextReq, accepted>>

\* One pass of while (!mScanMonitorStateTransitions.empty()): a request
\* already in the requested state gets the loop's success value and is
\* popped; one that needs a transition calls the platform and the loop
\* breaks if it accepts, else it is answered with failure and popped;
\* otherwise the loop asserts and breaks.  An empty queue ends the loop.
SyncStep ==
    /\ ~fatal /\ syncPc = "loop"
    /\ IF transitions = <<>>
       THEN /\ syncPc' = "idle"
            /\ UNCHANGED <<transitions, monitoring, drvCalls, resVars,
                           ghostVars, fatal>>
       ELSE LET h   == Head(transitions)
                has == NanoappHasScanMonitorRequest(monitoring, h.iid)
            IN CASE InRequestedState(h.enable, has, monitoring) ->
                      /\ ApplyPostFatal(PostResult(h.iid, syncSuccess, h.enable, h.req))
                      /\ transitions' = Tail(transitions)
                      /\ UNCHANGED <<syncPc, drvCalls, driverFailed>>
                 [] TransitionRequired(h.enable, has, monitoring) ->
                      \/ /\ CallDriver(h.enable, h.req)
                         /\ syncPc' = "idle"
                         /\ UNCHANGED <<transitions, monitoring, resVars,
                                        ghostVars, fatal>>
                      \/ /\ ApplyPostFatal(PostResult(h.iid, FALSE, h.enable, h.req))
                         /\ transitions' = Tail(transitions)
                         /\ driverFailed' = driverFailed \cup {h.req}
                         /\ UNCHANGED <<syncPc, drvCalls>>
                 [] OTHER ->
                      /\ asserts' = asserts \cup {"invalid_state"}
                      /\ syncPc' = "idle"
                      /\ UNCHANGED <<transitions, monitoring, drvCalls, resVars,
                                     driverFailed, fatal>>
    /\ UNCHANGED <<drvEnabled, deferred, syncSuccess, nextReq, accepted>>

-----------------------------------------------------------------------------
(* The specification                                                       *)

Init ==
    /\ transitions = <<>>
    /\ monitoring = <<>>
    /\ drvEnabled = FALSE
    /\ drvCalls = <<>>
    /\ deferred = <<>>
    /\ syncPc = "idle"
    /\ syncSuccess = FALSE
    /\ nextReq = 1
    /\ accepted = {}
    /\ results = [r \in ReqIds |-> <<>>]
    /\ resultOrder = <<>>
    /\ driverFailed = {}
    /\ asserts = {}
    /\ fatal = FALSE

Next ==
    \/ \E iid \in Nanoapps, enable \in BOOLEAN : Configure(iid, enable)
    \/ DriverAnswer
    \/ SyncHead
    \/ SyncStep

\* The platform answers every call it accepted, and the event loop runs
\* the deferred callback and the loop it starts.  Nanoapps are not forced
\* to configure anything.
Fairness == WF_vars(DriverAnswer) /\ WF_vars(SyncHead) /\ WF_vars(SyncStep)

Spec == Init /\ [][Next]_vars /\ Fairness

-----------------------------------------------------------------------------
(* Properties                                                              *)

TypeOK ==
    /\ transitions \in Seq([iid : Nanoapps, enable : BOOLEAN, req : ReqIds])
    /\ Len(transitions) <= QueueCapacity
    /\ monitoring \in Seq(Nanoapps)
    /\ drvEnabled \in BOOLEAN
    /\ drvCalls \in Seq([enable : BOOLEAN, req : ReqIds])
    /\ deferred \in Seq([enabled : BOOLEAN, error : ErrorCodes])
    /\ syncPc \in {"idle", "loop"} /\ syncSuccess \in BOOLEAN
    /\ nextReq \in 1..MaxRequests + 1
    /\ accepted \subseteq ReqIds
    /\ results \in [ReqIds -> Seq(BOOLEAN)]
    /\ resultOrder \in Seq(ReqIds)
    /\ driverFailed \subseteq ReqIds
    /\ asserts \subseteq {"erase", "invalid_configuration", "invalid_state",
                          "no_transitions"}
    /\ fatal \in BOOLEAN

\* At most one transition is in flight against the platform, whether still
\* at the platform or as a deferred answer, and it belongs to the request
\* at the head of mScanMonitorStateTransitions: configureScanMonitor()
\* only calls the platform with an empty queue, and the completion loop
\* only for the head after the previous answer was consumed.
SingleTransitionInFlight ==
    /\ Len(drvCalls) + Len(deferred) <= 1
    /\ drvCalls # <<>> => /\ transitions # <<>>
                          /\ Head(drvCalls).req = Head(transitions).req
    /\ deferred # <<>> => transitions # <<>>

\* Every configure call gets at most one async-result event, and only a
\* call that returned true gets one: no request is answered twice by the
\* completion loop, and a request the platform refused synchronously
\* (configureScanMonitor() returned false) is not answered later.
AtMostOneResult ==
    \A r \in ReqIds :
        /\ Len(results[r]) <= 1
        /\ results[r] # <<>> => r \in accepted

\* Result events are posted in the order of the configure calls, across
\* nanoapps: a call answered at once never overtakes one still queued,
\* and the completion loop answers the queue front to back, so a nanoapp
\* that enables and then disables sees the two results in that order.
ResultsInRequestOrder ==
    \A i, j \in DOMAIN resultOrder : i < j => resultOrder[i] < resultOrder[j]

\* Every configure call that returned true eventually gets its
\* async-result event: the queue of transitions always drains, as long as
\* the platform answers every call it accepted.
EveryAcceptedRequestAnswered ==
    \A r \in ReqIds : r \in accepted ~> results[r] # <<>>

\* When nothing is pending, the platform's scan monitor is enabled exactly
\* when mScanMonitorNanoapps says some nanoapp wants it: a successful
\* enable is recorded in the list, and disabling the last request turns
\* the platform off.
ScanMonitorFollowsRequests ==
    (transitions = <<>> /\ drvCalls = <<>> /\ deferred = <<>> /\ syncPc = "idle")
        => drvEnabled = ScanMonitorIsEnabled(monitoring)

\* updateNanoappScanMonitoringList() never erases an index past the end of
\* mScanMonitorNanoapps.
NoEraseOutOfRange == "erase" \notin asserts

\* A request is answered with failure only when the platform refused it
\* or failed it: a request coalesced behind another one and already in
\* the requested state is answered with success.
FailureOnlyFromDriver ==
    \A r \in ReqIds : (\E i \in DOMAIN results[r] : ~results[r][i]) => r \in driverFailed

=============================================================================
