---- MODULE EventBatcher ----
(***************************************************************************)
(* POST /events on the server: the EventBatcher of event.service.ts between*)
(* the controller and the productivity_events table.                       *)
(*                                                                         *)
(* Requests of all users share one queue and one timer.  A flush, by timer *)
(* or by size, takes the queue and starts one multi-row INSERT per user;   *)
(* new requests come in while those inserts are under way.                 *)
(***************************************************************************)
EXTENDS Naturals, FiniteSets, SequencesExt

CONSTANTS
    Users,
    Entries,        \* one name per POST /events that passes validation
    EventIds,
    UserOf,         \* entry -> the authenticated user
    EventsOf,       \* entry -> the client_event_ids it carries (1 to 100)
    MaxBatch,       \* env.SYNC_BATCH_MAX_SIZE
    Faults          \* TRUE: an INSERT may fail and the process may die

ASSUME UserOfAssumption == UserOf \in [Entries -> Users]
ASSUME EventsOfAssumption == EventsOf \in [Entries -> (SUBSET EventIds) \ {{}}]
ASSUME MaxBatchAssumption == MaxBatch \in Nat \ {0}

VARIABLES
    queue,          \* the entries waiting, oldest first
    timer,          \* a flush is scheduled
    inserts,        \* the INSERT statements under way: user, entries, committed
    promise,        \* entry -> what the awaiting controller sees
    rows            \* productivity_events

vars == <<queue, timer, inserts, promise, rows>>

Init ==
    /\ queue = <<>>
    /\ timer = FALSE
    /\ inserts = {}
    /\ promise = [e \in Entries |-> "new"]
    /\ rows = {}

\* queue.reduce((acc, e) => acc + e.events.length, 0)
Total(q) == FoldLeft(LAMBDA acc, e : acc + Cardinality(EventsOf[e]), 0, q)

\* byUser: one statement per user with an entry in the batch.
ByUser(q) ==
    {[user      |-> u,
      entries   |-> {e \in Range(q) : UserOf[e] = u},
      committed |-> FALSE] : u \in {UserOf[e] : e \in Range(q)}}

\* Mutant: slice(0) instead of splice(0), the entries stay in the queue.
Flush_KeepsQueue(q) ==
    /\ queue' = q
    /\ timer' = TRUE
    /\ inserts' = inserts \cup ByUser(q)

\* flush() of the queue q.
Flush(q) ==
    /\ queue' = <<>>
    /\ timer' = FALSE
    /\ inserts' = inserts \cup ByUser(q)

\* Mutant: no timer is started.
Enqueue_NoTimer(e) ==
    LET q == Append(queue, e) IN
    /\ promise[e] = "new"
    /\ promise' = [promise EXCEPT ![e] = "pending"]
    /\ \/ Total(q) >= MaxBatch /\ Flush(q)
       \/ Total(q) < MaxBatch /\ queue' = q /\ UNCHANGED <<timer, inserts>>
    /\ UNCHANGED rows

\* enqueue(): the timer starts with the first entry; reaching the limit flushes
\* in the same call.
Enqueue(e) ==
    LET q == Append(queue, e) IN
    /\ promise[e] = "new"
    /\ promise' = [promise EXCEPT ![e] = "pending"]
    /\ \/ Total(q) >= MaxBatch /\ Flush(q)
       \/ /\ Total(q) < MaxBatch
          /\ queue' = q
          /\ timer' = TRUE
          /\ UNCHANGED inserts
    /\ UNCHANGED rows

TimerFires ==
    /\ timer
    /\ Flush(queue)
    /\ UNCHANGED <<promise, rows>>

\* Postgres commits the statement: a row per event of each entry, without regard
\* to processed_event_ids or to rows already there.
Commit(s) ==
    /\ ~s.committed
    /\ rows' = rows \cup
          UNION {{[event |-> v, entry |-> e, user |-> s.user] : v \in EventsOf[e]}
                    : e \in s.entries}
    /\ inserts' = (inserts \ {s}) \cup {[s EXCEPT !.committed = TRUE]}
    /\ UNCHANGED <<queue, timer, promise>>

Settle(s, outcome) ==
    /\ promise' = [e \in Entries |-> IF e \in s.entries THEN outcome ELSE promise[e]]
    /\ inserts' = inserts \ {s}
    /\ UNCHANGED <<queue, timer, rows>>

\* Mutant: insertEvents is not awaited.
Resolve_Unawaited(s) == Settle(s, "resolved")

\* .then: every resolver of the group.
Resolve(s) ==
    /\ s.committed
    /\ Settle(s, "resolved")

\* .catch: the statement failed, or its success never reached the server.
Reject(s) ==
    /\ Faults
    /\ Settle(s, "rejected")

\* The process dies: open requests are cut off, queued entries are gone.
Crash ==
    /\ Faults
    /\ queue # <<>> \/ inserts # {}
    /\ queue' = <<>>
    /\ timer' = FALSE
    /\ inserts' = {}
    /\ promise' = [e \in Entries |->
                      IF promise[e] = "pending" THEN "cut" ELSE promise[e]]
    /\ UNCHANGED rows

StatementStep == \E s \in inserts : Commit(s) \/ Resolve(s) \/ Reject(s)

Next ==
    \/ \E e \in Entries : Enqueue(e)
    \/ TimerFires
    \/ StatementStep
    \/ Crash

Spec == Init /\ [][Next]_vars

\* The event loop fires a due timer, and every statement of pg settles.
FairSpec == Spec /\ WF_vars(TimerFires) /\ WF_vars(StatementStep)

----------------------------------------------------------------------------
TypeOK ==
    /\ queue \in Seq(Entries)
    /\ timer \in BOOLEAN
    /\ inserts \subseteq [user : Users, entries : SUBSET Entries, committed : BOOLEAN]
    /\ promise \in [Entries -> {"new", "pending", "resolved", "rejected", "cut"}]
    /\ rows \subseteq [event : EventIds, entry : Entries, user : Users]

(***************************************************************************)
(* A flush is scheduled exactly while something waits: no entry is left in *)
(* the queue without a timer, and no timer of an earlier flush cuts the    *)
(* window of later entries short.  (the size flush clears the timer)       *)
(***************************************************************************)
TimerIffQueued == timer <=> queue # <<>>

(***************************************************************************)
(* An open request is in exactly one place, once: in the queue or in one   *)
(* statement.  So each promise settles once and no entry is inserted by    *)
(* two flushes, however size and timer flushes follow each other.          *)
(***************************************************************************)
PendingInOnePlace ==
    /\ \A e \in Entries : promise[e] = "pending" <=>
          e \in Range(queue) \/ \E s \in inserts : e \in s.entries
    /\ \A e \in Range(queue) : \A s \in inserts : e \notin s.entries
    /\ \A s, t \in inserts : s # t => s.entries \cap t.entries = {}
    /\ \A i, j \in DOMAIN queue : queue[i] = queue[j] => i = j

(***************************************************************************)
(* A 202 is given only for stored events: every event of a resolved entry  *)
(* has a row, and the row is the sender's.                                 *)
(***************************************************************************)
AcceptedIsStored ==
    \A e \in Entries : promise[e] = "resolved" =>
        \A v \in EventsOf[e] : [event |-> v, entry |-> e, user |-> UserOf[e]] \in rows

(***************************************************************************)
(* Requests of several users share a flush and never a statement: no row   *)
(* is filed under another user, and an insert that fails rejects requests  *)
(* of its own user only.                                                   *)
(***************************************************************************)
UsersKeptApart ==
    /\ \A row \in rows : row.user = UserOf[row.entry]
    /\ \A s \in inserts : \A e \in s.entries : UserOf[e] = s.user

(***************************************************************************)
(* Every open request is answered, unless the process dies: nobody waits   *)
(* for a flush that does not come.                                         *)
(***************************************************************************)
EveryRequestSettles == \A e \in Entries : promise[e] = "pending" ~> promise[e] # "pending"

(***************************************************************************)
(* The batcher implements EventIngest: seen from the controllers, batching *)
(* is invisible.                                                           *)
(***************************************************************************)
Ingest == INSTANCE EventIngest WITH
    answer <- [e \in Entries |-> CASE promise[e] = "new"      -> "none"
                                   [] promise[e] = "pending"  -> "open"
                                   [] promise[e] = "resolved" -> "accepted"
                                   [] OTHER                   -> "failed"],
    stored <- {row.entry : row \in rows}

ImplementsIngest == Ingest!Spec
====
