---- MODULE SyncServer ----
(***************************************************************************)
(* POST /sync/batch on the server, for one user: the controller, the       *)
(* handler processSyncBatch, and the three tables it touches.              *)
(*                                                                         *)
(* The handler awaits a database query in every step and opens no          *)
(* transaction, so each step below is one query together with the          *)
(* synchronous code up to the next await, and handlers of several requests *)
(* interleave at every step.  A query may fail before or after it takes    *)
(* effect (the answer is 500), and the process may die with its handlers.  *)
(***************************************************************************)
EXTENDS DeviceClocks, Sequences

CONSTANTS
    EventIds,       \* client_event_id values
    ReqIds,         \* one name per POST that reaches the controller
    BatchMax,       \* SYNC_BATCH_MAX_SIZE
    Requests,       \* the request bodies clients may send
    Unstorable,     \* events whose recorded_at no partition covers
    FaultSets       \* what may go wrong, one of these sets for each behaviour:
                    \*   "overlap"  a request comes in while another is handled
                    \*   "query"    queries may fail and the process may die

IsEvent(e) == e.id \in EventIds /\ IsClock(e.vc)

IsRequest(q) ==
    /\ q.deviceId \in Devices
    /\ IsClock(q.clientVectorClock)
    /\ q.events \in Seq({q.events[i] : i \in DOMAIN q.events})
    /\ \A i \in DOMAIN q.events : IsEvent(q.events[i])

ASSUME BatchMaxAssumption == BatchMax \in Nat
ASSUME RequestsAssumption == \A q \in Requests : IsRequest(q)
\* mobile/src/utils/eventFactory.ts: id and clock are given together, once, and the
\* queue never leaves its device.  Only DiscardedIsAbsent depends on it.
ASSUME OriginAssumption ==
    \A p, q \in Requests : \A i \in DOMAIN p.events, j \in DOMAIN q.events :
        p.events[i].id = q.events[j].id =>
            p.events[i].vc = q.events[j].vc /\ p.deviceId = q.deviceId

VARIABLES
    faults,         \* the member of FaultSets this behaviour is under
    rows,           \* productivity_events: who inserted which event, from which place
    processed,      \* processed_event_ids
    syncVectors,    \* sync_vectors of this user: device -> stored clock
    pc,             \* request -> the query its handler awaits
    request,        \* request -> its body
    serverVC, next, toInsert, conflicts, skipped    \* the handler's locals

tables == <<rows, processed, syncVectors>>
locals == <<serverVC, next, toInsert, conflicts, skipped>>
vars == <<faults, tables, pc, request, locals>>

Awaiting == {"load", "check", "insert", "mark", "persist"}
InFlight == {r \in ReqIds : pc[r] \in Awaiting}

Stored(id) == \E row \in rows : row.event = id

\* events.slice(0, SYNC_BATCH_MAX_SIZE): what lies beyond is neither applied
\* nor skipped nor mentioned in the answer.
Batch(r) ==
    LET events == request[r].events
    IN  SubSeq(events, 1, IF Len(events) <= BatchMax THEN Len(events) ELSE BatchMax)

\* Mutant: the client's clock replaces the stored one instead of being merged.
Answer_NoMerge(r) ==
    [applied           |-> Len(toInsert[r]),
     skipped           |-> skipped[r],
     conflicts         |-> conflicts[r],
     serverVectorClock |-> request[r].clientVectorClock]

\* The body of the answer, once the handler returns.
Answer(r) ==
    [applied           |-> Len(toInsert[r]),
     skipped           |-> skipped[r],
     conflicts         |-> conflicts[r],
     serverVectorClock |-> merge(serverVC[r], request[r].clientVectorClock)]

Init ==
    /\ faults \in FaultSets
    /\ rows = {}
    /\ processed = {}
    /\ syncVectors = [d \in Devices |-> EmptyClock]
    /\ pc = [r \in ReqIds |-> "new"]
    /\ request = [r \in ReqIds |-> [deviceId |-> "none",
                                    clientVectorClock |-> EmptyClock,
                                    events |-> <<>>]]
    /\ serverVC = [r \in ReqIds |-> EmptyClock]
    /\ next = [r \in ReqIds |-> 1]
    /\ toInsert = [r \in ReqIds |-> <<>>]
    /\ conflicts = [r \in ReqIds |-> <<>>]
    /\ skipped = [r \in ReqIds |-> 0]

----------------------------------------------------------------------------
\* The awaited query took effect; its success may still fail to reach us.
Continue(r, to) ==
    \/ pc' = [pc EXCEPT ![r] = to]
    \/ "query" \in faults /\ pc' = [pc EXCEPT ![r] = "failed"]

\* A body of the shape that sync.types.ts gives it.  The code checks only that there
\* is a deviceId and an array of events (400 before any query); other malformed
\* bodies end in a 500 where they fail, and are left out.
Arrive(r, q) ==
    /\ pc[r] = "new"
    /\ "overlap" \notin faults => InFlight = {}
    /\ pc' = [pc EXCEPT ![r] = "load"]
    /\ request' = [request EXCEPT ![r] = q]
    /\ UNCHANGED <<tables, locals>>

\* Where the loop leads after its first n events, with ins collected.
AfterEvent(r, n, ins) ==
    IF n < Len(Batch(r)) THEN "check"
    ELSE IF ins = <<>> THEN "persist" ELSE "insert"

\* Mutant: the row is looked up by user only.
LoadClock_AnyDevice(r) ==
    /\ pc[r] = "load"
    /\ \E d \in Devices : serverVC' = [serverVC EXCEPT ![r] = syncVectors[d]]
    /\ pc' = [pc EXCEPT ![r] = AfterEvent(r, 0, <<>>)]
    /\ UNCHANGED <<tables, request, next, toInsert, conflicts, skipped>>

LoadClock(r) ==
    /\ pc[r] = "load"
    /\ serverVC' = [serverVC EXCEPT ![r] = syncVectors[request[r].deviceId]]
    /\ pc' = [pc EXCEPT ![r] = AfterEvent(r, 0, <<>>)]
    /\ UNCHANGED <<tables, request, next, toInsert, conflicts, skipped>>

SkipProcessed(r) ==
    /\ skipped' = [skipped EXCEPT ![r] = @ + 1]
    /\ UNCHANGED <<toInsert, conflicts>>

\* Mutant: the event is dropped without a ConflictRecord.
Supersede_Silent(r, e) ==
    /\ skipped' = [skipped EXCEPT ![r] = @ + 1]
    /\ UNCHANGED <<toInsert, conflicts>>

\* Mutant: no "continue" after the conflict, so the event is inserted as well.
Supersede_FallsThrough(r, e) ==
    /\ skipped' = [skipped EXCEPT ![r] = @ + 1]
    /\ conflicts' = [conflicts EXCEPT ![r] = Append(@, e.id)]
    /\ toInsert' = [toInsert EXCEPT ![r] = Append(@, e)]

Supersede(r, e) ==
    /\ skipped' = [skipped EXCEPT ![r] = @ + 1]
    /\ conflicts' = [conflicts EXCEPT ![r] = Append(@, e.id)]
    /\ UNCHANGED toInsert

Accept(r, e) ==
    /\ toInsert' = [toInsert EXCEPT ![r] = Append(@, e)]
    /\ UNCHANGED <<conflicts, skipped>>

\* Mutant: processed_event_ids is not consulted.
CheckEvent_NoLookup(r) ==
    LET e == Batch(r)[next[r]] IN
    /\ pc[r] = "check"
    /\ \/ happenedBefore(e.vc, serverVC[r]) /\ Supersede(r, e)
       \/ ~happenedBefore(e.vc, serverVC[r]) /\ Accept(r, e)
    /\ next' = [next EXCEPT ![r] = @ + 1]
    /\ pc' = [pc EXCEPT ![r] = AfterEvent(r, next[r], toInsert'[r])]
    /\ UNCHANGED <<tables, request, serverVC>>

CheckEvent(r) ==
    LET e == Batch(r)[next[r]] IN
    /\ pc[r] = "check"
    /\ \/ e.id \in processed /\ SkipProcessed(r)
       \/ e.id \notin processed /\ happenedBefore(e.vc, serverVC[r]) /\ Supersede(r, e)
       \/ e.id \notin processed /\ ~happenedBefore(e.vc, serverVC[r]) /\ Accept(r, e)
    /\ next' = [next EXCEPT ![r] = @ + 1]
    /\ pc' = [pc EXCEPT ![r] = AfterEvent(r, next[r], toInsert'[r])]
    /\ UNCHANGED <<tables, request, serverVC>>

\* One row per element of toInsert: the primary key (id, recorded_at) is random,
\* so ON CONFLICT DO NOTHING never meets a conflict.
NewRows(r) ==
    {[event |-> toInsert[r][i].id, by |-> r, at |-> i] : i \in DOMAIN toInsert[r]}

NoPartition(r) == \E i \in DOMAIN toInsert[r] : toInsert[r][i].id \in Unstorable

InsertEvents(r) ==
    /\ pc[r] = "insert"
    /\ ~NoPartition(r)
    /\ rows' = rows \cup NewRows(r)
    /\ Continue(r, "mark")
    /\ UNCHANGED <<processed, syncVectors, request, locals>>

\* Mutant: nobody catches the rejection, so the request never gets an answer.
InsertRejected_Uncaught(r) ==
    /\ pc[r] = "insert"
    /\ NoPartition(r)
    /\ UNCHANGED vars

\* One event outside every partition fails the whole multi-row statement.
InsertRejected(r) ==
    /\ pc[r] = "insert"
    /\ NoPartition(r)
    /\ pc' = [pc EXCEPT ![r] = "failed"]
    /\ UNCHANGED <<tables, request, locals>>

\* Mutant: the whole batch is marked, superseded events included.
MarkProcessed_WholeBatch(r) ==
    /\ pc[r] = "mark"
    /\ processed' = processed \cup {Batch(r)[i].id : i \in DOMAIN Batch(r)}
    /\ Continue(r, "persist")
    /\ UNCHANGED <<rows, syncVectors, request, locals>>

\* Mutant: only the first event of the batch is marked.
MarkProcessed_First(r) ==
    /\ pc[r] = "mark"
    /\ processed' = processed \cup {toInsert[r][1].id}
    /\ Continue(r, "persist")
    /\ UNCHANGED <<rows, syncVectors, request, locals>>

MarkProcessed(r) ==
    /\ pc[r] = "mark"
    /\ processed' = processed \cup {toInsert[r][i].id : i \in DOMAIN toInsert[r]}
    /\ Continue(r, "persist")
    /\ UNCHANGED <<rows, syncVectors, request, locals>>

\* The upsert overwrites the row with a merge of the clock read at "load";
\* the answer follows without a further await.
PersistClock(r) ==
    /\ pc[r] = "persist"
    /\ syncVectors' = [syncVectors EXCEPT ![request[r].deviceId] =
                          Answer(r).serverVectorClock]
    /\ Continue(r, "answered")
    /\ UNCHANGED <<rows, processed, request, locals>>

QueryFails(r) ==
    /\ "query" \in faults
    /\ pc[r] \in Awaiting
    /\ pc' = [pc EXCEPT ![r] = "failed"]
    /\ UNCHANGED <<tables, request, locals>>

\* The container restarts: memory is gone, tables stay.
Crash ==
    /\ "query" \in faults
    /\ InFlight # {}
    /\ pc' = [r \in ReqIds |-> IF r \in InFlight THEN "failed" ELSE pc[r]]
    /\ UNCHANGED <<tables, request, locals>>

Step(r) ==
    \/ LoadClock(r) \/ CheckEvent(r)
    \/ InsertEvents(r) \/ InsertRejected(r)
    \/ MarkProcessed(r) \/ PersistClock(r)

Next ==
    /\ UNCHANGED faults
    /\ \/ \E r \in ReqIds, q \in Requests : Arrive(r, q)
       \/ \E r \in ReqIds : Step(r) \/ QueryFails(r)
       \/ Crash

Spec == Init /\ [][Next]_vars

\* Every awaited query settles, so no handler stays suspended for ever.
FairSpec == Spec /\ \A r \in ReqIds : WF_vars(Step(r) /\ UNCHANGED faults)

----------------------------------------------------------------------------
IsEventSeq(s) == s \in Seq({s[i] : i \in DOMAIN s}) /\ \A i \in DOMAIN s : IsEvent(s[i])

TypeOK ==
    /\ rows \subseteq [event : EventIds, by : ReqIds, at : Nat]
    /\ processed \subseteq EventIds
    /\ DOMAIN syncVectors = Devices /\ \A d \in Devices : IsClock(syncVectors[d])
    /\ pc \in [ReqIds -> Awaiting \cup {"new", "answered", "failed"}]
    /\ DOMAIN request = ReqIds
    /\ \A r \in ReqIds : pc[r] # "new" => IsRequest(request[r])
    /\ DOMAIN serverVC = ReqIds /\ \A r \in ReqIds : IsClock(serverVC[r])
    /\ next \in [ReqIds -> Nat]
    /\ DOMAIN toInsert = ReqIds /\ \A r \in ReqIds : IsEventSeq(toInsert[r])
    /\ conflicts \in [ReqIds -> Seq(EventIds)]
    /\ skipped \in [ReqIds -> Nat]

(***************************************************************************)
(* processed_event_ids never runs ahead of productivity_events, whatever   *)
(* handler fails or dies where: an event marked before it is stored would  *)
(* be skipped by every retry and so lost.  (insert, then mark)             *)
(***************************************************************************)
ProcessedAreStored == \A id \in processed : Stored(id)

(***************************************************************************)
(* A 200 answer settles every event of the accepted part of the batch: it  *)
(* is stored, by this request or another, or named in conflicts.           *)
(***************************************************************************)
AnsweredIsSettled ==
    \A r \in ReqIds : pc[r] = "answered" =>
        \A i \in DOMAIN Batch(r) :
            \/ Stored(Batch(r)[i].id)
            \/ \E k \in DOMAIN conflicts[r] : conflicts[r][k] = Batch(r)[i].id

(***************************************************************************)
(* The counts of an answer partition the batch, and every conflict is one  *)
(* of the skipped events.  (applied, skipped and conflicts of the result)  *)
(***************************************************************************)
AnswerAddsUp ==
    \A r \in ReqIds : pc[r] = "answered" =>
        /\ Answer(r).applied + Answer(r).skipped = Len(Batch(r))
        /\ Len(Answer(r).conflicts) <= Answer(r).skipped

(***************************************************************************)
(* A stored event a retry would not recognise is in one of two places: its *)
(* handler is between the insert and the mark, or failed there.            *)
(***************************************************************************)
UnmarkedHasCause ==
    \A row \in rows : row.event \notin processed =>
        \E r \in ReqIds :
            /\ \E i \in DOMAIN toInsert[r] : toInsert[r][i].id = row.event
            /\ pc[r] = "mark" \/ ("query" \in faults /\ pc[r] = "failed")

(***************************************************************************)
(* Every counter of a device's row came in with a request of that very     *)
(* device.  Rows of two devices never meet, so what one device reports     *)
(* cannot supersede, or be compared with, an event of the other.           *)
(***************************************************************************)
RowIsOwnDevices ==
    \A d \in Devices, c \in Devices : At(syncVectors[d], c) > 0 =>
        \E r \in ReqIds : /\ pc[r] # "new"
                          /\ request[r].deviceId = d
                          /\ At(request[r].clientVectorClock, c) = At(syncVectors[d], c)

(***************************************************************************)
(* When requests do not overlap and no query fails, no event is stored by  *)
(* two requests: the idempotency check suffices.                           *)
(***************************************************************************)
OneRequestPerEvent ==
    faults = {} => \A x, y \in rows : x.event = y.event => x.by = y.by

(***************************************************************************)
(* When requests do not overlap, the stored row of a device never falls    *)
(* behind a clock the server has acknowledged.  (merge before upsert)      *)
(***************************************************************************)
AnsweredClockKept ==
    "overlap" \notin faults => \A r \in ReqIds : pc[r] = "answered" =>
        Leq(request[r].clientVectorClock, syncVectors[request[r].deviceId])

(***************************************************************************)
(* Without overlap and faults, 'event_superseded' is true: an event a      *)
(* client is told was discarded has no row, now or later.                  *)
(***************************************************************************)
DiscardedIsAbsent ==
    faults = {} => \A r \in ReqIds : pc[r] = "answered" =>
        \A k \in DOMAIN conflicts[r] : ~Stored(conflicts[r][k])

(***************************************************************************)
(* Every request that enters the handler ends, in an answer or in a 500,   *)
(* a batch with an unstorable event included.                              *)
(***************************************************************************)
RequestEnds ==
    \A r \in ReqIds : pc[r] = "load" ~> pc[r] \in {"answered", "failed"}

----------------------------------------------------------------------------
(***************************************************************************)
(* sync.service.ts:107 "ON CONFLICT on client_event_id ensures idempotency *)
(* at the DB level too": an event has at most one row.  (SyncSystem checks *)
(* it as RedeliveryIsSkipped.)                                             *)
(***************************************************************************)
StoredOnce == \A x, y \in rows : x.event = y.event => x = y
====
