---- MODULE MobileSync ----
(***************************************************************************)
(* The sync side of one mobile device: the offline queue and the vector    *)
(* clock in AsyncStorage, the save() handlers that append events, the      *)
(* drains that send batches, and the status the banner shows.              *)
(*                                                                         *)
(* JavaScript runs one callback at a time, so an action is the code from   *)
(* one awaited storage or network call to the next.  enqueue and           *)
(* dequeueBatch read the whole queue, await, and write the whole queue     *)
(* back; nothing keeps two savers or two drains apart in between.          *)
(* The answer to a POST is left to the environment here; SyncSystem        *)
(* replaces it by the server.                                              *)
(***************************************************************************)
EXTENDS DeviceClocks, Sequences

CONSTANTS
    EventIds,       \* clientEventId values, one per save()
    Drains,         \* bound: names for the drains that may run at a time
    QueueMax,       \* OFFLINE_QUEUE_MAX_SIZE
    FlushBatch,     \* OFFLINE_QUEUE_FLUSH_BATCH_SIZE
    ReplyClocks,    \* the serverVectorClock values an answer may carry
    FaultSets       \* what may go wrong, one of these sets for each behaviour:
                    \*   "post"     a POST may time out or be answered with an error
                    \*   "kill"     the system may kill the app
                    \*   "storage"  AsyncStorage may throw

ASSUME SizesAssumption == QueueMax \in Nat \ {0} /\ FlushBatch \in Nat \ {0}
ASSUME ReplyAssumption == \A vc \in ReplyClocks : IsClock(vc)

VARIABLES
    faults,         \* the member of FaultSets this behaviour is under
    queue,          \* @taskbunny/offline_queue
    localVC,        \* @taskbunny/vector_clock
    saver,          \* event -> where its save() handler is
    eventVC,        \* event -> the clock put into it
    seen,           \* event -> the queue its enqueue() has read
    drain,          \* drain -> the call it awaits
    dseen,          \* drain -> the queue its dequeueBatch or enqueue has read
    batch,          \* drain -> the events taken out to be sent
    clock,          \* drain -> clientVectorClock, then the merged clock to save
    status,         \* state.sync.status
    online,         \* isOnline of useNetworkStatus, or "starting" until useSync looks
    enqueued,       \* history: events in the order they were first written
    delivered       \* history: events a POST answered with 200 carried

storage == <<queue, localVC>>
saving == <<saver, eventVC, seen>>
draining == <<drain, dseen, batch, clock>>
vars == <<faults, storage, saving, draining, status, online, enqueued, delivered>>

Init ==
    /\ faults \in FaultSets
    /\ queue = <<>>
    /\ localVC = EmptyClock
    /\ saver = [e \in EventIds |-> "idle"]
    /\ eventVC = [e \in EventIds |-> EmptyClock]
    /\ seen = [e \in EventIds |-> <<>>]
    /\ drain = [d \in Drains |-> "off"]
    /\ dseen = [d \in Drains |-> <<>>]
    /\ batch = [d \in Drains |-> <<>>]
    /\ clock = [d \in Drains |-> EmptyClock]
    /\ status = "idle"
    /\ online = "starting"
    /\ enqueued = <<>>
    /\ delivered = {}

\* What readQueue may return: the stored queue, or [] when getItem throws.
QueueReads == {queue} \cup (IF "storage" \in faults THEN {<<>>} ELSE {})

ClockReads == {localVC} \cup (IF "storage" \in faults THEN {EmptyClock} ELSE {})

\* Mutant: enqueue never trims.
Trim_Never(s) == s

\* Keep the newest QueueMax events.
Trim(s) ==
    IF Len(s) > QueueMax THEN SubSeq(s, Len(s) - QueueMax + 1, Len(s)) ELSE s

BatchLen(s) == IF Len(s) < FlushBatch THEN Len(s) ELSE FlushBatch

----------------------------------------------------------------------------
\* dispatch(triggerSync): pending, then drainQueue up to its first read.
BeginDrain(d) ==
    /\ drain[d] = "off"
    /\ drain' = [drain EXCEPT ![d] = "readQueue"]
    /\ status' = "syncing"
    /\ UNCHANGED <<dseen, batch, clock>>

\* The drain's promise settles and its locals are gone.
EndDrain(d, newStatus) ==
    /\ drain' = [drain EXCEPT ![d] = "off"]
    /\ dseen' = [dseen EXCEPT ![d] = <<>>]
    /\ batch' = [batch EXCEPT ![d] = <<>>]
    /\ clock' = [clock EXCEPT ![d] = EmptyClock]
    /\ status' = newStatus

\* save(): the clock is read first, and copied into the event unincremented.
Save(e) ==
    /\ saver[e] = "idle"
    /\ saver' = [saver EXCEPT ![e] = "saving"]
    /\ \E vc \in ClockReads : eventVC' = [eventVC EXCEPT ![e] = vc]
    /\ UNCHANGED <<storage, seen, draining, status, online, enqueued, delivered>>

\* createTask was rejected and unwrap() throws: no event is made.
SaveFails(e) ==
    /\ "post" \in faults
    /\ saver[e] = "saving"
    /\ saver' = [saver EXCEPT ![e] = "dropped"]
    /\ UNCHANGED <<storage, eventVC, seen, draining, status, online, enqueued, delivered>>

\* The task call is over (a failed updateTask is not unwrapped and counts as
\* over): make the event, and enqueue() reads the queue.
MakeEvent(e) ==
    /\ saver[e] = "saving"
    /\ saver' = [saver EXCEPT ![e] = "writing"]
    /\ \E q \in QueueReads : seen' = [seen EXCEPT ![e] = q]
    /\ UNCHANGED <<storage, eventVC, draining, status, online, enqueued, delivered>>

\* Mutant: queueAndSync without its dispatch of triggerSync.
EnqueueWrite_NoSync(e, d) ==
    /\ saver[e] = "writing"
    /\ queue' = Trim(Append(seen[e], [id |-> e, vc |-> eventVC[e]]))
    /\ saver' = [saver EXCEPT ![e] = "queued"]
    /\ seen' = [seen EXCEPT ![e] = <<>>]
    /\ enqueued' = Append(enqueued, e)
    /\ UNCHANGED <<localVC, eventVC, draining, status, online, delivered>>

\* enqueue() writes the queue it read plus the event; queueAndSync then
\* dispatches triggerSync, whatever else is running.
EnqueueWrite(e, d) ==
    /\ saver[e] = "writing"
    /\ queue' = Trim(Append(seen[e], [id |-> e, vc |-> eventVC[e]]))
    /\ saver' = [saver EXCEPT ![e] = "queued"]
    /\ seen' = [seen EXCEPT ![e] = <<>>]
    /\ enqueued' = Append(enqueued, e)
    /\ BeginDrain(d)
    /\ UNCHANGED <<localVC, eventVC, online, delivered>>

\* setItem throws and nobody handles the rejected queueAndSync.
EnqueueFails(e) ==
    /\ "storage" \in faults
    /\ saver[e] = "writing"
    /\ saver' = [saver EXCEPT ![e] = "dropped"]
    /\ seen' = [seen EXCEPT ![e] = <<>>]
    /\ UNCHANGED <<storage, eventVC, draining, status, online, enqueued, delivered>>

----------------------------------------------------------------------------
\* dequeueBatch reads; an empty queue ends the drain, fulfilled.
DequeueRead(d) ==
    /\ drain[d] = "readQueue"
    /\ \E q \in QueueReads :
          \/ q = <<>> /\ EndDrain(d, "idle")
          \/ /\ q # <<>>
             /\ dseen' = [dseen EXCEPT ![d] = q]
             /\ batch' = [batch EXCEPT ![d] = SubSeq(q, 1, BatchLen(q))]
             /\ drain' = [drain EXCEPT ![d] = "writeRest"]
             /\ UNCHANGED <<clock, status>>
    /\ UNCHANGED <<storage, saving, online, enqueued, delivered>>

DequeueWrite(d) ==
    /\ drain[d] = "writeRest"
    /\ queue' = SubSeq(dseen[d], Len(batch[d]) + 1, Len(dseen[d]))
    /\ drain' = [drain EXCEPT ![d] = "readClock"]
    /\ dseen' = [dseen EXCEPT ![d] = <<>>]
    /\ UNCHANGED <<localVC, saving, batch, clock, status, online, enqueued, delivered>>

\* The POST leaves with the clock read here.
ReadClock(d) ==
    /\ drain[d] = "readClock"
    /\ \E vc \in ClockReads : clock' = [clock EXCEPT ![d] = vc]
    /\ drain' = [drain EXCEPT ![d] = "post"]
    /\ UNCHANGED <<storage, saving, dseen, batch, status, online, enqueued, delivered>>

\* 200 with serverVectorClock vc: the merge is with the clock read before the POST.
PostOk(d, vc) ==
    /\ drain[d] = "post"
    /\ clock' = [clock EXCEPT ![d] = merge(@, vc)]
    /\ delivered' = delivered \cup {batch[d][i].id : i \in DOMAIN batch[d]}
    /\ batch' = [batch EXCEPT ![d] = <<>>]
    /\ drain' = [drain EXCEPT ![d] = "saveClock"]
    /\ UNCHANGED <<storage, saving, dseen, status, online, enqueued>>

\* Mutant: one batch per drain, drainQueue without its loop.
SaveClock_Once(d) ==
    /\ drain[d] = "saveClock"
    /\ localVC' = clock[d]
    /\ EndDrain(d, "idle")
    /\ UNCHANGED <<queue, saving, online, enqueued, delivered>>

SaveClock(d) ==
    /\ drain[d] = "saveClock"
    /\ localVC' = clock[d]
    /\ drain' = [drain EXCEPT ![d] = "readQueue"]
    /\ clock' = [clock EXCEPT ![d] = EmptyClock]
    /\ UNCHANGED <<queue, saving, dseen, batch, status, online, enqueued, delivered>>

\* Mutant: the failed batch is not enqueued again.
PostFail_Forgets(d) ==
    /\ "post" \in faults
    /\ drain[d] = "post"
    /\ EndDrain(d, "error")
    /\ UNCHANGED <<storage, saving, online, enqueued, delivered>>

\* Timeout, no network, or an error status: enqueue(batch) reads the queue.
PostFail(d) ==
    /\ "post" \in faults
    /\ drain[d] = "post"
    /\ drain' = [drain EXCEPT ![d] = "writeBack"]
    /\ \E q \in QueueReads : dseen' = [dseen EXCEPT ![d] = q]
    /\ UNCHANGED <<storage, saving, batch, clock, status, online, enqueued, delivered>>

\* The batch goes to the tail, and the drain is rejected.
WriteBack(d) ==
    /\ drain[d] = "writeBack"
    /\ queue' = Trim(dseen[d] \o batch[d])
    /\ EndDrain(d, "error")
    /\ UNCHANGED <<localVC, saving, online, enqueued, delivered>>

\* setItem throws: the drain is rejected with whatever it holds.
DrainWriteFails(d) ==
    /\ "storage" \in faults
    /\ drain[d] \in {"writeRest", "writeBack", "saveClock"}
    /\ EndDrain(d, "error")
    /\ UNCHANGED <<storage, saving, online, enqueued, delivered>>

----------------------------------------------------------------------------
\* The first effect of useSync: isOnline is false until NetInfo answers.
Mount ==
    /\ online = "starting"
    /\ online' = "no"
    /\ status' = "offline"
    /\ UNCHANGED <<storage, saving, draining, enqueued, delivered>>

\* The banner was tapped.  Without a stored device id a tap does nothing.
ManualSync(d) ==
    /\ online # "starting"
    /\ BeginDrain(d)
    /\ UNCHANGED <<storage, saving, online, enqueued, delivered>>

\* The effect of useSync on isOnline: a drain, if a device id is stored (nothing in
\* the repository stores one) and the read does not throw.
GoOnline(d) ==
    /\ online = "no"
    /\ online' = "yes"
    /\ BeginDrain(d) \/ UNCHANGED <<draining, status>>
    /\ UNCHANGED <<storage, saving, enqueued, delivered>>

GoOffline ==
    /\ online = "yes"
    /\ online' = "no"
    /\ status' = "offline"
    /\ UNCHANGED <<storage, saving, draining, enqueued, delivered>>

\* Memory is lost, AsyncStorage stays; the app starts again at once.
Kill ==
    /\ "kill" \in faults
    /\ saver' = [e \in EventIds |->
                    IF saver[e] \in {"saving", "writing"} THEN "dropped" ELSE saver[e]]
    /\ seen' = [e \in EventIds |-> <<>>]
    /\ drain' = [d \in Drains |-> "off"]
    /\ dseen' = [d \in Drains |-> <<>>]
    /\ batch' = [d \in Drains |-> <<>>]
    /\ clock' = [d \in Drains |-> EmptyClock]
    /\ status' = "idle"
    /\ online' = "starting"
    /\ UNCHANGED <<storage, eventVC, enqueued, delivered>>

SaverStep(e) == SaveFails(e) \/ MakeEvent(e) \/ EnqueueFails(e)
                \/ \E d \in Drains : EnqueueWrite(e, d)

Local(d) == DequeueRead(d) \/ DequeueWrite(d) \/ ReadClock(d) \/ SaveClock(d)
            \/ WriteBack(d) \/ DrainWriteFails(d)

Answered(d) == PostFail(d) \/ \E vc \in ReplyClocks : PostOk(d, vc)

User == \/ \E e \in EventIds : Save(e)
        \/ \E d \in Drains : ManualSync(d) \/ GoOnline(d)
        \/ GoOffline
        \/ Kill

Next ==
    /\ UNCHANGED faults
    /\ \/ User
       \/ Mount
       \/ \E e \in EventIds : SaverStep(e)
       \/ \E d \in Drains : Local(d) \/ Answered(d)

Spec == Init /\ [][Next]_vars

\* Storage calls settle, axios gives every POST an answer or, after 10 s, an error,
\* and React runs the effects of what it rendered.  Nothing is assumed of the user,
\* the network or the system.
FairSpec ==
    /\ Spec
    /\ WF_vars(Mount /\ UNCHANGED faults)
    /\ \A e \in EventIds : WF_vars(SaverStep(e) /\ UNCHANGED faults)
    /\ \A d \in Drains : /\ WF_vars(Local(d) /\ UNCHANGED faults)
                         /\ WF_vars(Answered(d) /\ UNCHANGED faults)

----------------------------------------------------------------------------
IsEvent(ev) == ev.id \in EventIds /\ IsClock(ev.vc)

IsEventSeq(s) == s \in Seq({s[i] : i \in DOMAIN s}) /\ \A i \in DOMAIN s : IsEvent(s[i])

TypeOK ==
    /\ IsEventSeq(queue)
    /\ IsClock(localVC)
    /\ saver \in [EventIds -> {"idle", "saving", "writing", "queued", "dropped"}]
    /\ DOMAIN eventVC = EventIds /\ \A e \in EventIds : IsClock(eventVC[e])
    /\ DOMAIN seen = EventIds /\ \A e \in EventIds : IsEventSeq(seen[e])
    /\ drain \in [Drains -> {"off", "readQueue", "writeRest", "readClock", "post",
                             "saveClock", "writeBack"}]
    /\ DOMAIN dseen = Drains /\ \A d \in Drains : IsEventSeq(dseen[d])
    /\ DOMAIN batch = Drains /\ \A d \in Drains : IsEventSeq(batch[d])
    /\ DOMAIN clock = Drains /\ \A d \in Drains : IsClock(clock[d])
    /\ status \in {"idle", "syncing", "error", "offline"}
    /\ online \in {"starting", "no", "yes"}
    /\ enqueued \in Seq(EventIds)
    /\ delivered \subseteq EventIds

(***************************************************************************)
(* The stored queue never exceeds OFFLINE_QUEUE_MAX_SIZE, and no drain     *)
(* holds more than OFFLINE_QUEUE_FLUSH_BATCH_SIZE events: whatever queue   *)
(* an enqueue or a drain read before its await, and with a batch put back  *)
(* behind events saved since.                                              *)
(***************************************************************************)
QueueIsBounded ==
    /\ Len(queue) <= QueueMax
    /\ \A d \in Drains : Len(batch[d]) <= FlushBatch

Ids(s) == {s[i].id : i \in DOMAIN s}

\* Somewhere a later step can still deliver it from, or delivered.
Kept(e) ==
    \/ e \in Ids(queue)
    \/ saver[e] = "writing"
    \/ \E d \in Drains : e \in Ids(batch[d])
    \/ e \in delivered

SaverWrites(e) == saver[e] = "writing" /\ saver'[e] = "queued"
RestWritten(d) == drain[d] = "writeRest" /\ drain'[d] = "readClock"
BatchWritten(d) == drain[d] = "writeBack" /\ drain'[d] = "off"

\* The queue changed between the read and the write of an enqueue or dequeue.
StaleWrite ==
    \/ \E e \in EventIds : SaverWrites(e) /\ seen[e] # queue
    \/ \E d \in Drains : (RestWritten(d) \/ BatchWritten(d)) /\ dseen[d] # queue

Overflow ==
    \/ \E e \in EventIds : SaverWrites(e) /\ Len(seen[e]) >= QueueMax
    \/ \E d \in Drains : BatchWritten(d) /\ Len(dseen[d]) + Len(batch[d]) > QueueMax

StorageThrew ==
    "storage" \in faults /\ UNCHANGED queue /\ (saver' # saver \/ drain' # drain)

(***************************************************************************)
(* An event leaves the device undelivered in exactly four ways: the app is *)
(* killed, a queue is written back that is no longer the stored one, the   *)
(* queue overflows, or a setItem throws.  (enqueue, dequeueBatch,          *)
(* flushOnce)  In particular a failed POST by itself loses nothing.        *)
(***************************************************************************)
LossIsExplained ==
    [][ \A e \in EventIds : Kept(e) /\ ~Kept(e)' =>
            StaleWrite \/ Overflow \/ StorageThrew \/ Kill ]_vars

(***************************************************************************)
(* When AsyncStorage works, the status 'idle' (which hides the banner) is  *)
(* final only over an empty queue: once no save and no drain is under way, *)
(* 'idle' means nothing is left to send, through any overlap of drains.    *)
(* (The store starts with 'idle', until useSync has looked at isOnline.)   *)
(***************************************************************************)
AllQuiet == /\ \A e \in EventIds : saver[e] # "writing"
            /\ \A d \in Drains : drain[d] = "off"

IdleMeansDrained ==
    "storage" \notin faults /\ online # "starting" /\ status = "idle" /\ AllQuiet =>
        queue = <<>>

(***************************************************************************)
(* When AsyncStorage works, a queue with events in it is emptied again, or *)
(* the banner shows that it was not ('error' or 'offline'): each enqueue   *)
(* starts a drain, a drain that brings events back with a stale write goes *)
(* on to send them, and a drain that gives up says so.                     *)
(***************************************************************************)
NeverStuckSilently ==
    "storage" \notin faults /\ queue # <<>> ~>
        queue = <<>> \/ status \in {"error", "offline"}

----------------------------------------------------------------------------
(***************************************************************************)
(* offline.service.ts:4 "Persists unsynced events to AsyncStorage so they  *)
(* survive app restarts", and docs/architecture.md:73 "events accumulate   *)
(* in the queue": an event once written to the queue is kept.              *)
(***************************************************************************)
EnqueuedIsKept == \A i \in DOMAIN enqueued : Kept(enqueued[i])
====
