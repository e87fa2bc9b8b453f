------------------------------ MODULE EventLoop ------------------------------
(***************************************************************************)
(* The CHRE event loop (src/core/event_loop.cc).                           *)
(*                                                                         *)
(* One dedicated thread runs EventLoop::run(): it pops events from the     *)
(* inbound queue mEvents, distributes each to the per-nanoapp queues, and  *)
(* delivers one event per nanoapp per round-robin round.  Other threads    *)
(* (sensor indications, host, timers) call postEvent(), which reads        *)
(* mRunning, allocates from the event pool and pushes onto mEvents, and    *)
(* stop(), which posts a sentinel and then clears mRunning.  Starting and  *)
(* unloading nanoapps happen on the loop thread; unloading runs the        *)
(* ordered drain of unloadNanoapp().  After the loop exits, the shutdown   *)
(* drain flushes the nanoapp queues, frees what is left in mEvents and     *)
(* unloads every nanoapp.                                                  *)
(*                                                                         *)
(* Events are identified by the order of their allocation (1..MaxEvents);  *)
(* a payload is abstracted to the event's type, sender and target, and a   *)
(* free callback to the sender that owns its code.                         *)
(***************************************************************************)
EXTENDS Integers, Sequences, FiniteSets, SequencesExt

CONSTANTS
    AppIds,        \* app ids of the nanoapps that may be loaded (model values)
    EventTypes,    \* event types nanoapps subscribe to and post (integers > 0)
    Posters,       \* threads other than the loop thread that call postEvent()
    MaxEvents,     \* bound: events allocated over the whole behaviour
    PoolSize,      \* capacity of mEventPool (kMaxEventCount)
    MaxStarts,     \* bound: startNanoapp() calls, i.e. instance ids handed out
    WithStop,      \* whether a thread calls EventLoop::stop()
    StartMayPost   \* whether a nanoapp's start() may post an event

ASSUME /\ EventTypes \subseteq Nat \ {0}
       /\ MaxEvents \in Nat /\ PoolSize \in Nat \ {0} /\ MaxStarts \in Nat
       /\ WithStop \in BOOLEAN /\ StartMayPost \in BOOLEAN

\* src/core/include/chre/core/event.h: reserved instance ids.  The broadcast
\* id is UINT32_MAX in the code; it is only ever compared for equality.
kSystemInstanceId    == 0
kBroadcastInstanceId == -1
\* Instance id value meaning "no nanoapp" for mStoppingNanoapp == nullptr.
NoApp == 0
\* The event type of the sentinel posted by stop().
StopEventType == 0

EvIds == 1..MaxEvents
InstanceIds == 1..MaxStarts
EvStatus == {"unused", "alloc", "inbound", "dist", "freed"}

VARIABLES
    nanoapps,     \* mNanoapps: sequence of [appId, iid, subs, queue]
    inbound,      \* mEvents: sequence of event ids
    ev,           \* the Event objects: [EvIds -> record]
    nextEv,       \* next event id to allocate
    nextIid,      \* EventLoopManager::getNextInstanceId()
    running,      \* mRunning
    stopping,     \* mStoppingNanoapp (instance id, NoApp for nullptr)
    loopPc,       \* where the loop thread is
    havePending,  \* run(): local havePendingEvents
    rr,           \* deliverEvents(): round-robin cursor into mNanoapps
    roundPending, \* deliverEvents(): local havePendingEvents
    roundCaller,  \* who called deliverEvents(): "run", "unload", "shutdown"
    unloadIid,    \* unloadNanoapp(): instance id being unloaded
    posterPc,     \* postEvent() progress of each poster thread
    posterEv,     \* event allocated by each poster thread
    stopPc,       \* progress of the thread calling stop()
    stopEv        \* the sentinel event allocated by stop()

roundVars == <<rr, roundPending, roundCaller>>
threadVars == <<posterPc, posterEv, stopPc, stopEv>>
vars == <<nanoapps, inbound, ev, nextEv, nextIid, running, stopping, loopPc,
          havePending, roundVars, unloadIid, threadVars>>

-----------------------------------------------------------------------------
(* Helpers                                                                 *)

Loaded == {nanoapps[i].iid : i \in DOMAIN nanoapps}
LoadedAppIds == {nanoapps[i].appId : i \in DOMAIN nanoapps}
Live(e) == ev[e].status \notin {"unused", "freed"}
PoolInUse == Cardinality({e \in EvIds : Live(e)})
CanAllocate == nextEv <= MaxEvents /\ PoolInUse < PoolSize

\* mEventPool.allocate(...) of event nextEv with the given status.
Allocate(type, sender, target, status) ==
    [ev EXCEPT ![nextEv] = [type |-> type, sender |-> sender,
                            target |-> target, ref |-> 0,
                            status |-> status, frees |-> 0]]

\* Mutant of CanPost: only mRunning is checked, as if the
\* mCurrentApp == mStoppingNanoapp test were missing.
CanPostRunningOnly(iid) == running

\* currentNanoappIsStopping(), negated, for the nanoapp currently running:
\* posting is refused while the nanoapp is being unloaded or the loop stops.
CanPost(iid) == ~(iid = stopping \/ ~running)

\* distributeEvent(): whether nanoapp app takes event record r.
Wants(app, r) ==
    \/ r.target = kBroadcastInstanceId /\ r.type \in app.subs
    \/ r.target = app.iid

\* Mutant of Freed: the slot returns to the pool without the free callback.
FreedNoCallback(r) == [r EXCEPT !.status = "freed"]

\* freeEvent() applied to record r: the free callback runs, the slot returns
\* to the pool.
Freed(r) == [r EXCEPT !.status = "freed", !.frees = @ + 1]

\* distributeEvent(event e): append e to every interested nanoapp's queue,
\* then free it if nobody took it.
Distribute(e) ==
    LET takers == {i \in DOMAIN nanoapps : Wants(nanoapps[i], ev[e])}
    IN /\ nanoapps' = [i \in DOMAIN nanoapps |->
                         IF i \in takers
                         THEN [nanoapps[i] EXCEPT !.queue = Append(@, e)]
                         ELSE nanoapps[i]]
       /\ ev' = [ev EXCEPT ![e] =
                   IF takers = {} THEN Freed(ev[e])
                   ELSE [@ EXCEPT !.ref = Cardinality(takers),
                                  !.status = "dist"]]

\* Mutant of ProcessNextEvent: the head event is read but not popped.
PeekNextEvent(app) == app

\* Nanoapp::processNextEvent(): the head of the nanoapp's queue is removed
\* (the reference it held is dropped by the caller).
ProcessNextEvent(app) == [app EXCEPT !.queue = Tail(@)]

\* Mutant of RoundPending: the result of the last delivery overwrites the
\* round's flag (= instead of |=).
RoundPendingLast(acc, app) == Len(app.queue) > 1

\* deliverEvents(): havePendingEvents |= deliverNextEvent(app), where
\* deliverNextEvent() returns app->hasPendingEvent() after the pop.
RoundPending(acc, app) == acc \/ Len(app.queue) > 1

\* What a nanoapp's code may post while it runs (its handleEvent or start):
\* nothing, or one event of a type to the broadcast id or a loaded nanoapp,
\* through chrePostEvent -> postEvent().
PostChoices == {<<>>} \cup
    {<<t, g>> : t \in EventTypes, g \in {kBroadcastInstanceId} \cup Loaded}

\* The events posted by nanoapp iid for choice c, as the new ev and inbound.
NanoappPost(iid, c, evIn, inbIn) ==
    IF c # <<>> /\ CanPost(iid) /\ CanAllocate
    THEN [ev  |-> [evIn EXCEPT ![nextEv] =
                      [type |-> c[1], sender |-> iid, target |-> c[2],
                       ref |-> 0, status |-> "inbound", frees |-> 0]],
          inb |-> Append(inbIn, nextEv), n |-> nextEv + 1]
    ELSE [ev |-> evIn, inb |-> inbIn, n |-> nextEv]

-----------------------------------------------------------------------------
(* Other threads: postEvent() and stop()                                   *)

\* postEvent(), first half: mRunning is read and an event is allocated.
PostBegin(t) ==
    /\ posterPc[t] = "idle"
    /\ running
    /\ CanAllocate
    /\ \E type \in EventTypes :
         ev' = Allocate(type, kSystemInstanceId, kBroadcastInstanceId, "alloc")
    /\ posterEv' = [posterEv EXCEPT ![t] = nextEv]
    /\ nextEv' = nextEv + 1
    /\ posterPc' = [posterPc EXCEPT ![t] = "alloc"]
    /\ UNCHANGED <<nanoapps, inbound, nextIid, running, stopping, loopPc,
                   havePending, rr, roundPending, roundCaller, unloadIid,
                   stopPc, stopEv>>

\* postEvent(), second half: mEvents.push(event).
PostEnd(t) ==
    /\ posterPc[t] = "alloc"
    /\ inbound' = Append(inbound, posterEv[t])
    /\ ev' = [ev EXCEPT ![posterEv[t]].status = "inbound"]
    /\ posterPc' = [posterPc EXCEPT ![t] = "idle"]
    /\ UNCHANGED <<nanoapps, nextEv, nextIid, running, stopping, loopPc,
                   havePending, rr, roundPending, roundCaller, unloadIid,
                   posterEv, stopPc, stopEv>>

\* stop(): postEvent(0, nullptr, nullptr, kSystemInstanceId,
\* kSystemInstanceId), first half.  If mRunning is already false or the pool
\* is exhausted the post fails and stop() goes on to clear mRunning.
StopBegin ==
    /\ stopPc = "idle"
    /\ IF running /\ CanAllocate
       THEN /\ ev' = Allocate(StopEventType, kSystemInstanceId,
                              kSystemInstanceId, "alloc")
            /\ nextEv' = nextEv + 1
            /\ stopEv' = nextEv
            /\ stopPc' = "alloc"
       ELSE /\ stopPc' = "posted"
            /\ UNCHANGED <<ev, nextEv, stopEv>>
    /\ UNCHANGED <<nanoapps, inbound, nextIid, running, stopping, loopPc,
                   havePending, rr, roundPending, roundCaller, unloadIid,
                   posterPc, posterEv>>

\* stop(): the sentinel is pushed onto mEvents.
StopPush ==
    /\ stopPc = "alloc"
    /\ inbound' = Append(inbound, stopEv)
    /\ ev' = [ev EXCEPT ![stopEv].status = "inbound"]
    /\ stopPc' = "posted"
    /\ UNCHANGED <<nanoapps, nextEv, nextIid, running, stopping, loopPc,
                   havePending, rr, roundPending, roundCaller, unloadIid,
                   posterPc, posterEv, stopEv>>

\* stop(): mRunning = false.
StopClear ==
    /\ stopPc = "posted"
    /\ running' = FALSE
    /\ stopPc' = "done"
    /\ UNCHANGED <<nanoapps, inbound, ev, nextEv, nextIid, stopping, loopPc,
                   havePending, rr, roundPending, roundCaller, unloadIid,
                   posterPc, posterEv, stopEv>>

-----------------------------------------------------------------------------
(* The loop thread                                                         *)

\* deliverEvents() begins a round-robin round for its caller.
StartRound(caller) ==
    /\ loopPc' = "deliver"
    /\ rr' = 1
    /\ roundPending' = FALSE
    /\ roundCaller' = caller

\* run(): the test of while (mRunning) and of
\* if (!havePendingEvents || !mEvents.empty()).  When mRunning is false the
\* loop exits and the shutdown drain begins with flushNanoappEventQueues().
LoopTop ==
    /\ loopPc = "top"
    /\ IF running
       THEN IF ~havePending \/ inbound # <<>>
            THEN /\ loopPc' = "pop"
                 /\ UNCHANGED roundVars
            ELSE StartRound("run")
       ELSE StartRound("shutdown")
    /\ UNCHANGED <<nanoapps, inbound, ev, nextEv, nextIid, running, stopping,
                   havePending, unloadIid, threadVars>>

\* Mutant of LoopPop: the newest event of mEvents is taken instead of the
\* oldest.
LoopPopLast ==
    /\ loopPc = "pop"
    /\ inbound # <<>>
    /\ inbound' = Front(inbound)
    /\ Distribute(Last(inbound))
    /\ StartRound("run")
    /\ UNCHANGED <<nextEv, nextIid, running, stopping, havePending, unloadIid,
                   threadVars>>

\* run(): distributeEvent(mEvents.pop()); pop() blocks while mEvents is
\* empty, so this step is enabled only when there is an event.  Then
\* deliverEvents().
LoopPop ==
    /\ loopPc = "pop"
    /\ inbound # <<>>
    /\ inbound' = Tail(inbound)
    /\ Distribute(Head(inbound))
    /\ StartRound("run")
    /\ UNCHANGED <<nextEv, nextIid, running, stopping, havePending, unloadIid,
                   threadVars>>

\* deliverEvents(): nanoapp rr has no pending event and is skipped.
DeliverSkip ==
    /\ loopPc = "deliver"
    /\ rr <= Len(nanoapps)
    /\ nanoapps[rr].queue = <<>>
    /\ rr' = rr + 1
    /\ UNCHANGED <<nanoapps, inbound, ev, nextEv, nextIid, running, stopping,
                   loopPc, havePending, roundPending, roundCaller, unloadIid,
                   threadVars>>

\* deliverNextEvent(app): with mCurrentApp = app, processNextEvent() pops
\* the head of the nanoapp's queue and runs its handleEvent, which may post
\* an event; the reference is dropped and the event is freed once nobody
\* references it.  The round notes whether the nanoapp still has an event.
DeliverNext ==
    /\ loopPc = "deliver"
    /\ rr <= Len(nanoapps)
    /\ nanoapps[rr].queue # <<>>
    /\ \E c \in PostChoices :
         LET app  == nanoapps[rr]
             e    == Head(app.queue)
             post == NanoappPost(app.iid, c, ev, inbound)
             r    == [ev[e] EXCEPT !.ref = @ - 1]
         IN /\ nanoapps' = [nanoapps EXCEPT ![rr] = ProcessNextEvent(app)]
            /\ ev' = [post.ev EXCEPT ![e] = IF r.ref = 0 THEN Freed(r) ELSE r]
            /\ inbound' = post.inb
            /\ nextEv' = post.n
            /\ roundPending' = RoundPending(roundPending, app)
    /\ rr' = rr + 1
    /\ UNCHANGED <<nextIid, running, stopping, loopPc, havePending,
                   roundCaller, unloadIid, threadVars>>

\* run(): havePendingEvents = deliverEvents() when the round is over.
RunRoundEnd ==
    /\ loopPc = "deliver"
    /\ rr > Len(nanoapps)
    /\ roundCaller = "run"
    /\ havePending' = roundPending
    /\ loopPc' = "top"
    /\ UNCHANGED <<nanoapps, inbound, ev, nextEv, nextIid, running, stopping,
                   roundVars, unloadIid, threadVars>>

\* flushNanoappEventQueues(): while (deliverEvents()); for unloadNanoapp()
\* it continues with the unload, for the shutdown drain with the purge.
FlushRoundEnd ==
    /\ loopPc = "deliver"
    /\ rr > Len(nanoapps)
    /\ roundCaller \in {"unload", "shutdown"}
    /\ IF roundPending
       THEN StartRound(roundCaller)
       ELSE /\ loopPc' = IF roundCaller = "unload" THEN "u_end" ELSE "purge"
            /\ UNCHANGED roundVars
    /\ UNCHANGED <<nanoapps, inbound, ev, nextEv, nextIid, running, stopping,
                   havePending, unloadIid, threadVars>>

-----------------------------------------------------------------------------
(* Nanoapp lifecycle on the loop thread.  A load or unload request reaches *)
(* the loop as a deferred callback run while it distributes an event; the  *)
(* model takes it while the loop is between events (at "top" or waiting in *)
(* pop()) and returns to the top of the loop afterwards.                   *)

Between == loopPc \in {"top", "pop"} /\ running

\* startNanoapp(): a nanoapp whose app id is not loaded gets the next
\* instance id and is pushed onto mNanoapps; start() runs with
\* mCurrentApp set to it and may post; if start() returns false the nanoapp
\* is popped again without end() and whatever it posted stays queued.
StartNanoapp ==
    /\ Between
    /\ nextIid <= MaxStarts
    /\ \E appId \in AppIds \ LoadedAppIds, subs \in SUBSET EventTypes,
          ok \in BOOLEAN,
          c \in IF StartMayPost THEN PostChoices ELSE {<<>>} :
         LET post == NanoappPost(nextIid, c, ev, inbound)
         IN /\ nanoapps' = IF ok
                          THEN Append(nanoapps, [appId |-> appId,
                                  iid |-> nextIid, subs |-> subs,
                                  queue |-> <<>>])
                          ELSE nanoapps
            /\ ev' = post.ev
            /\ inbound' = post.inb
            /\ nextEv' = post.n
    /\ nextIid' = nextIid + 1
    /\ loopPc' = "top"
    /\ UNCHANGED <<running, stopping, havePending, roundVars, unloadIid,
                   threadVars>>

\* unloadNanoapp(instanceId, allowSystemNanoappUnload): the nanoapp is found
\* in mNanoapps (a system nanoapp is refused unless allowed, which changes
\* nothing).  flushMessagesSentByNanoapp() is left to the host bridge model;
\* the drain continues with flushInboundEventQueue().
UnloadNanoapp ==
    /\ Between
    /\ \E i \in DOMAIN nanoapps : unloadIid' = nanoapps[i].iid
    /\ loopPc' = "u_inbound"
    /\ UNCHANGED <<nanoapps, inbound, ev, nextEv, nextIid, running, stopping,
                   havePending, roundVars, threadVars>>

\* flushInboundEventQueue(): distributeEvent(mEvents.pop()) while mEvents
\* is not empty.
UnloadFlushInbound ==
    /\ loopPc = "u_inbound"
    /\ inbound # <<>>
    /\ inbound' = Tail(inbound)
    /\ Distribute(Head(inbound))
    /\ UNCHANGED <<nextEv, nextIid, running, stopping, loopPc, havePending,
                   roundVars, unloadIid, threadVars>>

\* Mutant of UnloadMarkStopping: flushNanoappEventQueues() is left out and
\* the nanoapp is erased with events still queued.
UnloadMarkStoppingNoFlush ==
    /\ loopPc = "u_inbound"
    /\ inbound = <<>>
    /\ stopping' = unloadIid
    /\ loopPc' = "u_end"
    /\ UNCHANGED <<nanoapps, inbound, ev, nextEv, nextIid, running,
                   havePending, roundVars, unloadIid, threadVars>>

\* mStoppingNanoapp = mNanoapps[i].get(); then flushNanoappEventQueues().
UnloadMarkStopping ==
    /\ loopPc = "u_inbound"
    /\ inbound = <<>>
    /\ stopping' = unloadIid
    /\ StartRound("unload")
    /\ UNCHANGED <<nanoapps, inbound, ev, nextEv, nextIid, running,
                   havePending, unloadIid, threadVars>>

\* unloadNanoappAtIndex(i): end() runs with mCurrentApp set (it cannot
\* post: the nanoapp is stopping), the nanoapp is erased from mNanoapps;
\* then mStoppingNanoapp = nullptr.
UnloadEnd ==
    /\ loopPc = "u_end"
    /\ nanoapps' = SelectSeq(nanoapps, LAMBDA a : a.iid # unloadIid)
    /\ stopping' = NoApp
    /\ unloadIid' = NoApp
    /\ loopPc' = "top"
    /\ UNCHANGED <<inbound, ev, nextEv, nextIid, running, havePending,
                   roundVars, threadVars>>

-----------------------------------------------------------------------------
(* The shutdown drain after the loop exits                                 *)

\* while (!mEvents.empty()) freeEvent(mEvents.pop());
Purge ==
    /\ loopPc = "purge"
    /\ inbound # <<>>
    /\ inbound' = Tail(inbound)
    /\ ev' = [ev EXCEPT ![Head(inbound)] = Freed(@)]
    /\ UNCHANGED <<nanoapps, nextEv, nextIid, running, stopping, loopPc,
                   havePending, roundVars, unloadIid, threadVars>>

\* Mutant of PurgeDone: the purge loop is missing and the drain goes on to
\* unload every nanoapp with events still in mEvents.
PurgeSkipped ==
    /\ loopPc = "purge"
    /\ loopPc' = "unloadAll"
    /\ UNCHANGED <<nanoapps, inbound, ev, nextEv, nextIid, running, stopping,
                   havePending, roundVars, unloadIid, threadVars>>

\* The purge is over once mEvents is empty.
PurgeDone ==
    /\ loopPc = "purge"
    /\ inbound = <<>>
    /\ loopPc' = "unloadAll"
    /\ UNCHANGED <<nanoapps, inbound, ev, nextEv, nextIid, running, stopping,
                   havePending, roundVars, unloadIid, threadVars>>

\* while (!mNanoapps.empty()) unloadNanoappAtIndex(mNanoapps.size() - 1);
UnloadLast ==
    /\ loopPc = "unloadAll"
    /\ nanoapps # <<>>
    /\ nanoapps' = Front(nanoapps)
    /\ UNCHANGED <<inbound, ev, nextEv, nextIid, running, stopping, loopPc,
                   havePending, roundVars, unloadIid, threadVars>>

LoopExit ==
    /\ loopPc = "unloadAll"
    /\ nanoapps = <<>>
    /\ loopPc' = "exited"
    /\ UNCHANGED <<nanoapps, inbound, ev, nextEv, nextIid, running, stopping,
                   havePending, roundVars, unloadIid, threadVars>>

-----------------------------------------------------------------------------
(* The specification                                                       *)

Init ==
    /\ nanoapps = <<>>
    /\ inbound = <<>>
    /\ ev = [e \in EvIds |-> [type |-> 0, sender |-> kSystemInstanceId,
                              target |-> kSystemInstanceId, ref |-> 0,
                              status |-> "unused", frees |-> 0]]
    /\ nextEv = 1
    /\ nextIid = 1
    /\ running = TRUE
    /\ stopping = NoApp
    /\ loopPc = "top"
    /\ havePending = FALSE
    /\ rr = 1
    /\ roundPending = FALSE
    /\ roundCaller = "run"
    /\ unloadIid = NoApp
    /\ posterPc = [t \in Posters |-> "idle"]
    /\ posterEv = [t \in Posters |-> 0]
    /\ stopPc = IF WithStop THEN "idle" ELSE "none"
    /\ stopEv = 0

\* The steps of the loop thread that follow from where it is.
LoopThread ==
    \/ LoopTop \/ LoopPop \/ DeliverSkip \/ DeliverNext
    \/ RunRoundEnd \/ FlushRoundEnd
    \/ UnloadFlushInbound \/ UnloadMarkStopping \/ UnloadEnd
    \/ Purge \/ PurgeDone \/ UnloadLast \/ LoopExit

Next ==
    \/ LoopThread
    \/ StartNanoapp \/ UnloadNanoapp
    \/ \E t \in Posters : PostBegin(t) \/ PostEnd(t)
    \/ StopBegin \/ StopPush \/ StopClear

\* The loop thread is a dedicated thread that always runs when it can; a
\* poster that has allocated its event goes on to push it, and stop(), once
\* called, returns.  Requests (postEvent, stop, load, unload) are not forced.
Fairness ==
    /\ WF_vars(LoopThread)
    /\ \A t \in Posters : WF_vars(PostEnd(t))
    /\ WF_vars(StopPush)
    /\ WF_vars(StopClear)

Spec == Init /\ [][Next]_vars /\ Fairness

-----------------------------------------------------------------------------
(* Properties                                                              *)

IidValues == {kSystemInstanceId, kBroadcastInstanceId} \cup InstanceIds

TypeOK ==
    /\ nanoapps \in Seq([appId : AppIds, iid : InstanceIds,
                         subs : SUBSET EventTypes, queue : Seq(EvIds)])
    /\ inbound \in Seq(EvIds)
    /\ ev \in [EvIds -> [type : EventTypes \cup {StopEventType},
                          sender : IidValues, target : IidValues,
                          ref : 0..Cardinality(AppIds), status : EvStatus,
                          frees : Nat]]
    /\ nextEv \in 1..MaxEvents + 1
    /\ nextIid \in 1..MaxStarts + 1
    /\ running \in BOOLEAN
    /\ stopping \in {NoApp} \cup InstanceIds
    /\ loopPc \in {"top", "pop", "deliver", "u_inbound", "u_end", "purge",
                   "unloadAll", "exited"}
    /\ havePending \in BOOLEAN /\ roundPending \in BOOLEAN
    /\ rr \in 1..Cardinality(AppIds) + 1
    /\ roundCaller \in {"run", "unload", "shutdown"}
    /\ posterPc \in [Posters -> {"idle", "alloc"}]
    /\ stopPc \in {"none", "idle", "alloc", "posted", "done"}

\* The reference count of every event equals the number of nanoapp queues
\* holding it; an event is in a queue only while distributed, and its free
\* callback has run exactly once once it is freed, never before.  Breaks
\* when a nanoapp is erased with events still queued (unloadNanoapp()
\* without its flush), when a delivery forgets to drop its reference, or
\* when freeEvent() runs twice.
EventAccounting ==
    \A e \in EvIds :
        LET holders == {i \in DOMAIN nanoapps : Contains(nanoapps[i].queue, e)}
        IN /\ ev[e].ref = Cardinality(holders)
           /\ (ev[e].status = "dist") <=> (holders # {})
           /\ ev[e].frees = IF ev[e].status = "freed" THEN 1 ELSE 0

\* No event still waiting for delivery or for its free callback was posted
\* by a nanoapp that is no longer loaded: its free callback and payload live
\* in that nanoapp's memory.  This is what the ordered drain of
\* unloadNanoapp() (flush inbound, mark stopping, flush queues, end) and
\* the stopping check on posting are for.
NoDanglingSenderEvents ==
    \A e \in EvIds :
        (Live(e) /\ ev[e].sender # kSystemInstanceId) => ev[e].sender \in Loaded

\* Every event accepted onto mEvents has its free callback run eventually
\* (after delivery to every interested nanoapp, or when dropped): run()
\* must not block in mEvents.pop() while a nanoapp still has an event.
EveryAcceptedEventFreed ==
    \A e \in EvIds : ev[e].status = "inbound" ~> ev[e].status = "freed"

\* Event e1 was posted before e2 by the same sender.  Event ids are the
\* order of allocation, and each sender allocates and pushes from one
\* thread (a nanoapp on the loop thread, system events from the poster
\* thread), so for one sender the allocation order is the posting order;
\* with several poster threads the system sender has no single order.
PostedBefore(evs, e1, e2) ==
    /\ evs[e1].sender = evs[e2].sender
    /\ e1 < e2
    /\ evs[e1].sender # kSystemInstanceId \/ Cardinality(Posters) <= 1

\* The events still to be delivered to nanoapp app: those in its queue, and
\* those in mEvents that distributeEvent() will hand it.
PendingFor(app, evs, inb) ==
    Range(app.queue) \cup {x \in Range(inb) : Wants(app, evs[x])}

\* Events from one sender to one nanoapp are delivered in the order they
\* were posted (spec 5, ordering guarantees): when a step takes an event
\* out of a nanoapp's queue, no event of the same sender posted before it
\* is still waiting for that nanoapp, in its queue or in mEvents.  This
\* rests on mEvents being popped in FIFO order, by run() and by the unload
\* drain alike, and on the per-nanoapp queues being served from the front
\* across round-robin rounds.
DeliveredInPostOrder ==
    [][\A i \in DOMAIN nanoapps, j \in DOMAIN nanoapps' :
         nanoapps[i].iid = nanoapps'[j].iid =>
           \A e \in Range(nanoapps[i].queue) \ Range(nanoapps'[j].queue) :
             \A e2 \in PendingFor(nanoapps'[j], ev', inbound') :
               ~PostedBefore(ev', e2, e)]_vars

\* A nanoapp's end() runs only once every event targeted at it has been
\* delivered or dropped (spec 5, ordering guarantees): when unloadNanoapp()
\* reaches unloadNanoappAtIndex(), no live event is addressed to the
\* nanoapp being unloaded.  Another nanoapp handling an event during
\* flushNanoappEventQueues() may post to it; that event waits in mEvents,
\* which the drain does not flush again.
EndAfterTargetedEvents ==
    loopPc = "u_end" => \A e \in EvIds : Live(e) => ev[e].target # unloadIid

\* Once stop() has returned, the loop thread leaves run() and finishes the
\* shutdown drain.
LoopExitsAfterStop == stopPc = "done" ~> loopPc = "exited"

=============================================================================
