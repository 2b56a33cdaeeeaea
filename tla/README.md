# TaskBunny in TLA+

This directory models the parts of TaskBunny that decide whether an event made on a
phone ends up, once and rightly attributed, in the server's database: the vector
clocks, the mobile offline queue and its drains, `POST /sync/batch`, `POST /events`,
and the phone and server together; and what is then computed from the events: focus
sessions, the productivity score, daily buckets and the trend, and how a score is stored,
read back and shown. The list of tasks and the WebSocket connections are modelled beside it.
TLC checks the models on small instances; TLAPS proves every safety property that the passing runs
check, and the two refinements, for every instance. Liveness is model-checked.

Paths below are relative to `packages/`. Line references use the repository's files.

## 1. The system

| Component | State | Operations | Talks to |
|---|---|---|---|
| Vector clocks, `server/src/utils/vectorClock.ts` | none (pure) | `increment`, `merge`, `compare`, `happenedBefore` | used by the sync handler; the mobile client has its own copy of merge inlined in `flushOnce` |
| Batch sync, `server/src/modules/sync` | tables `productivity_events`, `processed_event_ids`, `sync_vectors`; locals of each running handler | `processSyncBatch`: load clock, check each event, insert, mark, upsert clock, answer | controller, `pg` pool (one query per await, no transaction) |
| Offline queue, `mobile/src/services/offline.service.ts` | `@taskbunny/offline_queue` in AsyncStorage | `enqueue`, `dequeueBatch` (each read, await, write) | task screen, sync client |
| Sync client, `mobile/src/services/sync.service.ts`, `store/slices/sync.slice.ts`, `hooks/useSync.ts` | `@taskbunny/vector_clock`, `state.sync.status`, locals of each running drain | `flushOnce`, `drainQueue`, `triggerSync`, `queueAndSync`, `manualSync`, the effect of `useSync` | offline queue, axios (10 s timeout), banner |
| Event ingestion, `server/src/modules/events` | the batcher's `queue` and `flushTimer`, running INSERTs, awaiting controllers | `enqueue`, `flush` by timer or by size | `pg` pool, `productivity_events` |
| Tasks, `server/src/modules/tasks`, `mobile/.../tasks.slice.ts` | table `tasks`, the client's list | create, patch, list, fetch | sync of the list over REST |
| Scoring, time series, trend, score cache, `server/src/modules/analytics`, `mobile/.../analytics.slice.ts` | tables `productivity_scores`, `behavior_windows`, the slice | compute score, build sessions, daily buckets, regression, cached latest row; fetch, recalculate, choose a window | event tables, task table, dashboard and analytics screens |
| WebSocket, `server/src/websocket`, `mobile/src/services/websocket.service.ts` | rooms per user, `isAlive` flags; socket, reconnect timer, token, handlers | upgrade, heartbeat, close, broadcast; connect, reconnect, disconnect | each other; nothing calls `connect`, `disconnect` or `broadcastToUser` today |
| Auth, rate limit, `server/src/modules/auth`, `server/src/middleware` | table `users`, limiter counters | register, login, device registration, token check | all routes |
| Lifecycle, `server/src/index.ts`, `db/client.ts` | pool, HTTP server | start, SIGTERM | container restart policy |
| Screens, navigation, config, logger, scripts | no protocol state | | |

### What is hard here

* Every server handler and every mobile call suspends at each `await`; nothing (no
  transaction, no lock, no "drain already running" flag) keeps two of them apart.
  The hazards are reads before an await used after it.
* The container restarts (`restart: unless-stopped`), the phone's system kills the
  app; memory is lost and tables or AsyncStorage stay, at whatever await it was.
* A POST has three outcomes at the phone (200, an error, a timeout), and the last two
  say nothing of what the server did or is still doing.
* The queue and the batch have maxima (10 000 and 100) where data is cut.
* The batcher has two triggers (timer and size) for one queue.
* A score is computed from several queries, stored later and read back as text, and the
  phone shows whichever of its calls was answered last.
* A WebSocket has two ends that learn of its end at different times, or never.

### What makes each modelled component correct

* Clocks: `compare` tells causality, and nothing else.
* Sync handler: nothing is marked before it is stored; an answer of 200 settles every
  event; a retry recognises what was stored, or there is a named reason why not.
* Phone: an event leaves the queue undelivered only for one of four named reasons;
  the sizes hold; a queue that stays non-empty is visible in the status.
* Phone and server: an event counts as delivered only when the server has its row.
* Analytics: sessions are the runs of events between gaps and pauses, wherever a late
  event or the edge of the window falls; better work never scores less; the trend tells
  the direction of the scores.
* Tasks: a phone that makes one call at a time shows the table as far as it was told of it.
* Score display: what is shown is the latest row once nothing is under way; a recalculated
  score covers the tap; the chart is of the window in its title; the loading ends.
* Connections: a room holds exactly its user's live connections; a phone has one connection
  or one timer and comes back after every break; a dead connection is pruned; a broadcast
  reaches the user's other devices once.
* Batcher: a caller gets its 202 only after its own statement; nobody waits for a
  flush that does not come; users do not mix.

`PROJECT.json` lists the hazards line by line with the properties aimed at them, and
those still without a property.

## 2. The modules

    DeviceClocks ──────── ClockCausality ── ClockCausalityProofs
        ├── SyncServer ── SyncServerProofs
        ├── MobileSync ── MobileSyncProofs
        └── SyncSystem = INSTANCE MobileSync + INSTANCE SyncServer ──refines──> EventLedger
                └── SyncSystemProofs (with INSTANCE SyncServerProofs)

    EventBatcher ── EventBatcherProofs        EventBatcher ──refines──> EventIngest

    FocusSessions ── Scoring ──┐
                TrendAnalysis ─┴── Analytics ──┐
                                  ScoreBoard ──┴── AnalyticsProofs

    DeviceClocks ── TaskBoard ── TaskBoardProofs

    LiveSocket ── LiveSocketProofs

An `MC...` module gives the constants of the module it extends small values; the `.cfg`
files name the properties of a run. A definition marked `Mutant:` is the code with a
plausible mistake in it; no behaviour uses it. It is there to show which property
breaks when the definition below it is replaced.

### DeviceClocks
The four operators of `vectorClock.ts` on functions whose domain is the set of devices
mentioned; `vc[d] ?? 0` is `At(vc, d)`. The objects `{}` and `{a: 0}` are different
values with the same meaning, as in the code. `Leq` is the reference order.

### ClockCausality
Devices that increment and merge as the comments of `vectorClock.ts` say, each with its
causal history (a set of event names, built without clocks) as a reference.

### SyncServer
One action per query of `processSyncBatch`, together with the synchronous code up to the
next await. `pc[r]` names the query that request `r` awaits: `load`
(`getVectorClock`), `check` (`isEventProcessed`, then compare, `continue` or push),
`insert`, `mark`, `persist` (`upsertVectorClock` and the answer). With nothing to insert
both `insert` and `mark` are passed over, as in the code. A query may fail before it takes effect
(`QueryFails`) or after it (`Continue` to `failed`); `Crash` ends every handler.
`InsertRejected` is the multi-row INSERT with an event no partition covers.
The rows of a handler are named by the request and the position, because the primary key
is random: two rows may carry the same event.

### MobileSync
`saver[e]` is where the `save()` of event `e` is, `drain[d]` what a drain awaits. `seen`
and `dseen` are the queue as it was read, which is written back later. `EnqueueWrite`
includes the dispatch of `triggerSync` in `queueAndSync`. The app starts with the status `'idle'`
(`online` is `"starting"`) until the first effect of `useSync` sets `'offline'` (`Mount`); `GoOnline`
and `GoOffline` are its later ones. `Kill` forgets memory, keeps AsyncStorage and starts the app again.
`GoOnline` need not begin a drain and a tap of the banner (`ManualSync`) need not come: `useSync` looks up
`@taskbunny/device_id` first, and nothing in the repository stores one. The answer to a POST comes from the environment.

### SyncSystem
MobileSync and SyncServer for one phone. `SendPost` puts a request into `sent`; it may
arrive at any later time or never, whether the phone still waits or not. `ReceiveOk`
delivers the answer the server's handler actually gave. `ReceiveFail` covers a 500, a
refused connection, a lost answer and the timeout, which the phone cannot tell apart.

### EventLedger
The abstract promise of sync: made, then possibly stored, acknowledged only if stored.
It does not promise that every event arrives, because the code does not.

### EventBatcher and EventIngest
`Enqueue` with the size flush inside it, `TimerFires`, one statement per user (`ByUser`),
`Commit`, `Resolve`, `Reject`, `Crash`. EventIngest is what a caller of `POST /events`
may rely on, without queue, timer or statements.

### FocusSessions, Scoring, TrendAnalysis, Analytics
The first three are the pure parts of `server/src/modules/analytics` as operators. `Turn`
is one turn of the loop of `buildSessions` and `Loop` its variables after each event; `Runs` is a
reference that cuts the events at gaps and pauses without a loop. `Scoring` computes the five
sub-metrics as ratios, their weighted sum (`Weighted`) and the score in hundredths of a point; the
median is found by counting (`Shortest`), the code sorts. `TrendAnalysis` sums as the loop of
`linearRegression` does (`Sums`) and compares the exact slope with the thresholds. Arithmetic is exact where the code has floating point,
so a result within a rounding error of a threshold may differ. `rSquared` and the rounding
for display are left out.

`Analytics` keeps the two tables and lets events come in at any place in time (`Record`),
scores be computed (`ComputeScore`) and stored, possibly in another order
(`PersistScore`). `getDailyBuckets` and `getLongitudinalAnalysis` read them; the latter gets
its scores as text, because `score` is a NUMERIC column, which `pg` returns as a string, and
nothing converts it. The counts of the tasks table and the average of `behavior_windows` come
from the environment (`Stats`): the engine is a pure function of them. A score reads its
inputs at one instant, and `computed_at` is taken to be the end of the window; the code runs
three queries and takes the time a little later. The definitions of the specification carry an A
(`AInit`, `ANext`, `ASpec`, `ATypeOK`), because AnalyticsProofs is about ScoreBoard too.

### TaskBoard
The table `tasks`, the phone's list (`items`, `loading`) and the calls between them, each of
them an axios call of `tasks.slice.ts` or a request of another client of the API. `Handle...`
is the one query of a route, `...Fulfilled` and `Rejected` are the reducers. A call the
phone gave up (`late`) may still be handled. The table is a set of rows; `created` is the position of a
row's INSERT, which stands for `created_at`. `HandleList` answers it sorted by priority and, of one priority, newest
first, as `getAllTasks` does (`Before`, `Sorted`). Other clients create tasks (`OtherCreates`) and change them
(`OtherUpdates`), with any title, status and priority the validators admit; the phone sets no priority
and puts the task it created in front of its list (`CreateFulfilled`), where the server's next list may not have it. `unseen` and `covers`
record which writes the phone was told of; no guard reads them. `Put` replaces the first row with the
id only, as `findIndex` does.

### ScoreBoard
The rows of `productivity_scores`, the handlers of `GET /analytics/score` and `/trend`, the
phone's analytics slice and the two screens, for one user. A row is named by the call that
stored it, the time its window ends (`began`) and its `computed_at` (`at`); its numbers are the
subject of Analytics. `handler[c].pc` names the query that call `c` awaits: `latest`
(`getLatestScore`), `read` (the queries of `Promise.all`, in any order; `done` holds those
answered), `insert`, `buckets` (`getTrend`). `text` says whether an answer was read from the
table, whose NUMERIC columns reach the phone as strings, or just computed; the gauge calls
`toFixed` on it, so a string ends the app (`broken`) until it is started again (`Launch`, which
under the fault "kill" may also happen at any other time). `Recalculate` is the button, which is
there only while `loading` is false. `ChooseWindow` is the first opening of the analytics screen or a
choice of another window, with the effect of `useTimeSeries`. A call is `over` when the phone gave it
up or the app ended; its handler goes on. `clean` and `trendLost` are history; no guard
reads them. `trendLost` is set when the newest fetch of a trend (`Newest`) is rejected, or when an older one is
answered after it.

### LiveSocket
Both ends of every connection: the phone's `WebSocketService` (`phone`: `ws`, the token's
validity, `reconnectTimer`), the server's rooms and `isAlive` flags, and the link between
them. `sock[s].client` and `sock[s].server` are what each end believes. `Cut` breaks the
link: the server is told nothing, the phone is told by its system unless the fault is "silent".
`OnClose` sets a timer without clearing the one before; the model counts timers that
`reconnectTimer` refers to no more (`lost`), because they fire nevertheless. `Accept` is
`'connection'` with the token check; a refused connection has no room, no
`'pong'` handler and no `isAlive`, so it is terminated by the next heartbeat if it has not closed by
then. `Heartbeat` goes over all clients at once, as the code does. `Sigterm`, `PoolEnded`, `Exit`,
`Killed`, `Crash` and `Start` are the life of the process: `server.close` calls back only when no
connection is left, and nothing closes the WebSockets. `connect()`, `disconnect()` and
`broadcastToUser()` have no caller in the repository; the model lets anyone call them. A name of
`1 .. MaxSockets` is used again when neither end lives.

### Faults
`faults` is chosen at the start of a behaviour from the constant `FaultSets`, so that one
run covers a fault-free environment and several faulty ones, and a property can say which
environment it needs: `"overlap"` (requests handled at the same time), `"query"`,
`"post"`, `"kill"`, `"storage"`, and in TaskBoard `"others"` (other clients write), `"lost"`
(calls fail or lose their answer) and `"overlap"` (the phone has several calls under way). The flags of ScoreBoard and
LiveSocket are listed at their `FaultSets`.

## 3. The runs

| Run | Instance | What it shows |
|---|---|---|
| `clock_causality` | 3 devices, 2 events each, symmetric | `ClockIsHistory`, `CompareIsCausality`: used as documented, the operators tell causality exactly |
| `sync_server` | 2 devices, 3 events (one unstorable), 2 requests out of 7 bodies, limit 2; no faults / queries fail / overlap and queries fail | see below |
| `mobile_sync` | 2 saves, 2 drains at a time, queue of 2, batches of 1; no faults / POSTs and kills / POSTs and storage | `QueueIsBounded` (the sizes of queue and batch), `LossIsExplained`, `IdleMeansDrained`, `NeverStuckSilently` |
| `sync_system` | 2 events, 2 drains, 2 POSTs, queue and batch of 2; POSTs fail, kills, overlap, failing queries, crashes | `ImplementsLedger`, `AnswerMatchesBatch`, `ArbitrationNeverFires` |
| `event_batcher` | 2 users, 5 requests (a retry, one of the limit's size), limit 3, faults | `PendingInOnePlace`, `EveryRequestSettles`, `ImplementsIngest` |
| `analytics` | 2 tasks, instants 0..4, a day of 2, a gap of 1, a window of 3; 4 events, or 1 event and 2 scores, or 3 scores; 5 task statistics | `ATypeOK` (sorted tables, scores within 0..100), `SessionsAreRuns`, `EventIsLocal`, `WindowCutsFirstOnly`, `BetterWorkScoresNoLess`, `BucketsCountDays`, `TrendTellsDirection` |
| `task_board` | 4 calls (symmetric), 2 titles, 2 statuses, priorities 1 to 3, 6 bodies that other clients send; overlap and lost calls / other clients and lost calls | `TypeOK`, `ToldListIsTable` |
| `score_board` | 3 calls, 2 windows, instants 0..1; overlap and lost calls / lost calls and the end of the app | `ShownIsLatestRow`, `RefreshIsFresh`, `OnlyStoredScoresBreak`, `TrendIsOfChoice`, `LoadingEnds` |
| `live_socket` | 2 phones of one user, another user, 2 connections of a phone at a time, 2 upsets, 1 broadcast; four sets of faults | `TypeOK`, `RoomsAreConnections`, `OneLifeline`, `PushReachesOthersOnce`, `DeadPeersPruned`, `BackInRoom` |

`sync_server` separates what holds always from what holds in a kind environment:

* under every fault: `ProcessedAreStored`, `AnsweredIsSettled`,
  `UnmarkedHasCause`, `RowIsOwnDevices`, `RequestEnds`;
* without overlap, even with failing queries: `AnsweredClockKept`;
* without overlap and faults: `OneRequestPerEvent`, `DiscardedIsAbsent`.

`analytics` likewise separates what the functions do from what they are given:
`TrendTellsDirection` is about `computeTrendAnalysis` called with numbers, as its types say. Without
that premise the statement is a violated run below. `BucketsCountDays` has no premise and says what the join
makes of a day with several scores: one bucket for each different score, with the day's events counted once for
every row that has it, since each event is joined with each of them
(`timeseries.repository.ts:21-26`; its comment in lines 5-6 speaks of daily event counts). Only a day with at
most one score has one bucket with its events.
`BetterWorkScoresNoLess` says nothing of focus time: one more short session may lower the
median and with it the score.

`ToldListIsTable` needs a phone that makes one call at a time. When a list is read after a create
and answered before it, the reducer puts the new task in front of a list that has it already, and
it appears twice; when a list is read before an update and answered after it, the old row
comes back.

The rows of that list are the table's rows, each once. They are also in the server's order unless the table holds
a task more urgent than the default priority: then a task the phone creates is in front on the phone and
behind the urgent one on the server (`tasks.slice.ts:49`, `task.repository.ts:28`), until the list is fetched
again. Without that premise TLC finds it in a few steps: another client creates an urgent task, the phone
lists it, the phone creates a task.

`score_board` separates them too. Under every fault: `RefreshIsFresh`, `OnlyStoredScoresBreak`,
`LoadingEnds`; and `TrendIsOfChoice`, with two exceptions, the newest fetch of a trend rejected or answered before
an older one. In the latter case the chart shows the window chosen first under the title of the second: neither
the slice nor the chart knows which window the buckets are of. For a user who awaits each answer:
`ShownIsLatestRow`, unless a call that was given up still stores a row. Without that premise two taps on
Recalculate may be answered in the other order.

`live_socket`: `OneLifeline` says exactly one for a phone that calls `connect()` once and never
`disconnect()`, and otherwise only that there are no more connections and timers than calls of
`connect()`. More is not true: `disconnect()` clears the timer, but its `close()` is followed by
`onclose`, which sets a new one, and the token is still there: three seconds later the phone is connected
again. A `connect()` in these seconds leaves it with two live connections and every message is handled
twice. `BackInRoom` leaves out links that break without a word to the phone (the client sends no
pings of its own, so it would wait forever) and pongs that take longer than a heartbeat (a live
connection may be terminated over and over). A refused or expired token is tried again every
three seconds forever.

**Bounds, and why they are enough.** The races are between two parties (two handlers, two
drains, a saver and a drain), so two of each. Three devices let one relay what it learnt
and leave two histories incomparable. The limits are so small (a queue of 2, a batch of 1
or 2) that overflow and cutting happen. The request bodies of `MCSyncServer` include a
retry after the clock moved on, an overtaking event, a repeated event within a batch, an
over-long batch, an empty one that only reports the clock, and an unstorable event. `Drains`, `ReqIds`, `EventIds`,
`Entries`, `MaxEvents`, `Calls`, `Bodies`, `Bounds` and `Times` are the only bounds; a name of `ReqIds`,
`EventIds`, `Entries` or `Calls` is used once, a name of `Drains` again and again. In `analytics`, four events are
enough for a session before, one after and an event between them, and three scores are the
fewest the regression accepts; `Bounds` names these numbers, so that many events and many scores do not
multiply. The statistics of `MCStats` lie so close together that two scores can differ by less than the
threshold of half a point. Three calls of
`score_board` are one whose answer or row is late, one that overtakes it and one that observes; two instants tell
"before" and "after" apart. `MaxSockets` of 2 is an old connection the server still holds and its successor
(3 were tried as well and hold, in five minutes); `MaxUpsets` of 2 is one upset
while another is being repaired. `MaxSockets` also delays a reconnection until a name is free, which a real phone
would not wait for. Four calls
make a task, list it, let another client write it and the phone write it again. Priorities 1 to 3 are one more urgent
than the default, the default and one less; `Bodies` are a POST of an urgent and of an ordinary task and PATCHes
that rename, complete, hasten and put off a task (`SmallBodies`). When all names of `Drains`
are taken, a further drain must wait for one: the model then leaves out behaviours with
more simultaneous drains. Deadlock is not checked where the bounded instance ends by
design (everything saved, sent and answered).

### Disagreements between the code and what is said about it

Three runs are expected to end in a violation; each checks one sentence of the repository.

| Run | The sentence | What happens |
|---|---|---|
| `retry_stores_twice` | "Re-delivered events ... are silently skipped" (`docs/sync-protocol.md:72`), "ON CONFLICT on client_event_id" (`sync.service.ts:107`) | the phone gives up a POST that the server is still handling; the retry passes `isEventProcessed` before the first is marked, and both insert. There is no unique `client_event_id` in the partitioned table |
| `stale_write_loses_event` | "Persists unsynced events ... so they survive" (`offline.service.ts:4`) | two saves read the same queue; the second write drops the first one's event. No fault is needed |
| `trend_from_text` | "a linear-regression slope so you can see if things are actually getting better" (`README.md:13`) | the scores reach `linearRegression` as strings; `sumY += y` concatenates, the slope is NaN, the trend always `'plateau'` and the projection `null` |

"Each device increments its own clock component on every write", says `README.md:88`, and
`docs/sync-protocol.md:17` "Before emitting any event, the device increments its counter". Nothing
calls `increment`, events carry `{}`, and `ArbitrationNeverFires` is the consequence: every clock of
the running system is `{}`, `compare` always answers `'equal'`, and no event is ever superseded.
The `sync_server` run is therefore driven by request bodies with advancing clocks, as
other clients of the API may send, so that the arbitration code is exercised.

Further points met while modelling, not given a run:

* `sync.service.ts:15-16` says a batch is "committed in a single transaction"; the INSERT, the marks and
  the clock are separate `pool.query` calls, and when the second fails the rows of the first
  stay (`UnmarkedHasCause` names the stored events this leaves unmarked).
* `docs/sync-protocol.md:3` says conflicting edits of tasks are resolved by "Last-Write-Wins with Vector
  Clock Arbitration"; `updateTask` stores the clock of the body and compares nothing, so an
  edit with an older clock replaces a newer one.
* `docs/architecture.md:51,53` and `ws.handler.ts:27` speak of score pushes after a sync; nothing calls
  `broadcastToUser`, and nothing opens the phone's connection.
* `index.ts:38` ends the pool before the server stops listening, so requests in between fail, and
  `server.close` waits for WebSockets that nothing closes: with a phone connected the process ends
  only when it is killed.
* mobile `sync.service.ts:67` says the queue is drained "in FIFO order"; a batch whose POST
  fails goes back to the tail, behind newer events.
* `scoring.engine.ts:57` says the completion rate "falls back to the 30-day historical
  average"; it falls back to 0.7 or 0.5.
* `004_add_device_timezone.sql:16` says `behavior_windows` rows "are recomputed on each sync
  flush"; nothing writes them, so the velocity index is always 0.5.
* `buildSessions` starts the next session at the pause, so the time between a pause and a prompt
  resumption counts as focus, while the time between the last event before the pause and the pause does not. An
  interruption after a long gap marks the session before the gap. `Runs` says so too.
* A score read back from the table is text as well; `ProductivityGauge.tsx:24` calls
  `toFixed` on it. `OnlyStoredScoresBreak` is what remains true: the first score of an account is
  computed and shown; the next start of the app reads it from the table and ends.
* The comment at `scoring.engine.ts:79` has gaps below `FOCUS_SESSION_GAP_MS` collapsed; the loop
  (`timeseries.repository.ts:83`) keeps a gap that equals it as well, as `timeseries.repository.ts:37-38` says.
* `sync.controller.ts:19-22` checks that there is a device and an array of events and nothing else; a
  body with malformed events is answered with 500.
* `useSync.ts:18-20` and `24-26` drain only with a stored `@taskbunny/device_id`, which nothing in the
  repository stores; what starts drains today is `queueAndSync`.
* `analytics.slice.ts` has no reducer for a rejected `refreshScore` or `fetchTrend`: the user is told
  nothing and the old score and chart stay.
* `docs/sync-protocol.md:43` maps `'equal'` to an idempotent skip; the code accepts such an event.
* `docs/sync-protocol.md:58` promises a `ConflictRecord` for concurrent clocks; the code makes none.
* `docs/sync-protocol.md:27` calls `sync_vectors` the ground truth; under overlap an upsert
  writes a merge of a clock read earlier, and the row can go back (hence the premise of
  `AnsweredClockKept`).
* `offline.service.ts:10` says the oldest events are dropped on overflow; after a failed
  POST the batch put back at the tail is older than what is dropped at the head.
* `event.service.ts:2` says "batching and idempotency"; `POST /events` looks nothing up, so
  a repeated request stores its events again. EventIngest promises no more than that.
* The banner's status is set by whichever of several overlapping drains ended last
  (`docs/architecture.md:75` calls it real-time). `IdleMeansDrained` is what remains true.

## 4. Fairness

* `SyncServer!FairSpec`: weak fairness of each handler's own step. `pg` settles every
  query by a result or an error, and the event loop runs the continuation.
* `MobileSync!FairSpec`: weak fairness of storage continuations and of each POST's answer.
  AsyncStorage settles its promises; axios ends a POST after 10 s at the latest
  (`api.service.ts`); and of the first effect of `useSync`, which React runs once it has rendered. Nothing is assumed of the user, connectivity or the system, so no
  new drain is ever guaranteed to start.
* `EventBatcher!FairSpec`: weak fairness of the timer (`setTimeout` fires while the process
  lives) and of the statements under way.
* `ScoreBoard!FairSpec`: weak fairness of each handler's own steps, and of the end of each call
  (an answer, or the timeout of axios).
* `LiveSocket!FairSpec`: weak fairness of each phone's timers, of the handshake, of the closing
  of either end, of pongs, of the heartbeat (`setInterval`) and of the process (the container
  is stopped or started in the end). A timer of another phone does not count for a phone's own. That a
  pong comes before the next heartbeat is not fairness but the absence of the fault "slow".

No strong fairness is used, and no fault action is fair.

## 5. What is proved

Each proof module holds for all values of its module's constants that meet the named assumptions
there. TLC evaluates those in the passing runs.

| Module | Assumptions | Where they come from |
|---|---|---|
| ClockCausality | `MaxEventsAssumption`: a number | bound |
| SyncServer | `BatchMaxAssumption`: a number; `RequestsAssumption`: bodies have the types of `sync.types.ts` | `shared/constants/sync.ts`, the types |
| | `OriginAssumption`: two bodies that name the same event carry the same clock of it and come from the same device. Only `DiscardedIsAbsent` uses it | an event gets id and clock once, in `mobile/src/utils/eventFactory.ts`, and the queue stays on its phone |
| MobileSync | `SizesAssumption`: the queue's maximum and the flush size are positive; `ReplyAssumption`: the server answers with clocks | `shared/constants/sync.ts`, the types |
| SyncSystem | `PhoneAssumption`, `PostAssumption`, `SizesAssumption` as above; `BatchAssumption`: a flush is no larger than what the server takes | `shared/constants/sync.ts` (100 and 100) |
| EventBatcher | `UserOfAssumption`, `EventsOfAssumption`: a call has one user and a non-empty set of events; `MaxBatchAssumption`: positive | the token, `event.validator.ts:15`, `SYNC_BATCH_MAX_SIZE` of the environment (100 in `env.ts:11` and `docker-compose.yml`) |
| TaskBoard | `ClocksAssumption`, `StatusesAssumption`: the clocks are clocks, the empty one among them; "pending" is a status | `task.validator.ts`, the column's default |
| | `PrioritiesAssumption`: priorities are among 1 to 4, and the default 2 is one; `BodiesAssumption`: what others send has the types of the validators | `task.validator.ts:6,15`, its schemas |
| FocusSessions, Scoring, TrendAnalysis | `GapAssumption`, `AnchorAssumption`, `DayAssumption`: thresholds are numbers, `Anchor` and `Day` positive | `GAP_MS`, `shared/constants/scoring.ts` |
| Analytics | `TimesAssumption`, `RowBoundsAssumption`: instants and bounds are numbers; `TaskIdsAssumption`: the tasks are finitely many | bounds |
| | `StatsAssumption`: what the tasks table says are numbers from 0 up. Nothing relates them: more may be done than due, or more overdue than there is | the counts of `analytics.service.ts`; the average of `behavior_windows`, which nothing writes, is 0 or any whole number here |
| ScoreBoard | `WindowAssumption`: the first window is one; `BoundsAssumption`, `NoneAssumption`: bounds are numbers, "none" is no value | bounds |
| LiveSocket | `UserOfAssumption`: a phone has one user; `BoundsAssumption`, `NoneAssumption` as above | the token, bounds |

**ClockCausalityProofs.** Of the operators: `merge` is the least upper bound (`MergeIsLub`), the four answers of
`compare` are the four cases of the order (`CompareIs`), exchanging the arguments exchanges
`before` and `after` (`CompareIsDual`), `happenedBefore` is a strict partial order
(`HappenedBeforeIsOrder`).

Of the protocol: both properties of the run, `TypeOK`, and `NoEqualStamps`: no two events
carry equal stamps. `ClockIsHistory` alone gives one
direction of causality; that equal stamps never occur needs to know that nobody vouches for
more events of a device than it emitted (`Bounded`), that a clock that vouches for an event
contains all of that event's stamp (`Closed`), that stamp `n` of a device counts exactly `n`
(`StampsAreTheirs`), that they are numbered without gaps (`StampsAreNumbered`), and that no
two events are in each other's past (`NoCycle`). Together they are inductive.

**SyncServerProofs.** `TypeOK`, `ProcessedAreStored`, `AnsweredIsSettled`, `AnswerAddsUp`,
`UnmarkedHasCause`, `RowIsOwnDevices`. The argument is a loop invariant, as one would write
for the TypeScript: after `i` turns every one of the first `i` events is `Handled` (in
`toInsert`, already stored, or in `conflicts`) and the counters add up to `i` (`LoopInv`);
after the insert, everything in `toInsert` is stored, until the end (`HandlerInv`). Tables only grow, so a
step of one handler keeps every other's invariant (`OthersKeepInv`): this is where the
interleaving is dealt with. `UnmarkedHasCause` is carried by a per-event `Cause`, and
`RowIsOwnDevices` by the same statement about clocks already loaded but not yet written.

The other three properties need requests that do not overlap. Then at most one handler is at work
(`Alone`), so the clock it loaded is still the stored one when it merges (`LoadedIsCurrent`);
`NoOverlapInv` says both, and failing queries and restarts keep it. From it:
`AnsweredClockKept` (the upsert writes a merge of the stored clock, which only grows);
`OneRequestPerEvent`, by `CollectedIsNew`: without faults a stored event is marked unless the handler
between insert and mark stored it, and that is the only handler, so what passed the check has no row;
`DiscardedIsAbsent`, by `CollectedIsRecent` and `DiscardedIsBehind`: a collected event is not behind the
clock its handler loaded, a discarded one is behind the stored clock and remains so, and the stored clock of
that handler is the loaded one. An event cannot be both because it has one clock and one device: this is `OriginAssumption`.

**MobileSyncProofs.** `TypeOK`, `QueueIsBounded`, `IdleMeansDrained` and the action property
`LossIsExplained`. `TypeOK` is inductive with `DrainInv`: a drain about to write back the rest of the queue
holds exactly the head of what it read, and a drain at rest or past its answer holds nothing. That is also what makes a loss
explainable: when the write goes through on an unchanged queue, every event of the queue is either in
the rest or in the drain's batch. The proof then goes over the actions for one event
at a time (`Explained`): where an event is kept (`Kept`: the queue, a save under way, a batch, the server) is left
only by a write over a queue that has changed since it was read, by the cut at the maximum, by a storage error or a
kill. `IdleInv` strengthens `IdleMeansDrained` by leaving out the saves: `'idle'` with no drain
under way means an empty queue even while a save is being written, since the save that writes starts a drain in
the same step. It holds for any number of overlapping drains.

**SyncSystemProofs.** `AnswerMatchesBatch`, `ArbitrationNeverFires` and the refinement `ImplementsLedger`. The
invariant has four parts: what the phone holds was made on it and carries the empty clock
(`PhoneInv`); a name of a POST stands for one body, and a drain that awaits it still holds that body's batch
(`WireInv`); a handler that has started works on a body that was sent, and all its clocks are
empty (`ReceivedInv`); and the handlers keep the invariant of SyncServerProofs (`HandlersInv`). The last
one is not proved again: `HandlerProofs` instantiates that module, each step of a handler here is shown to be a
step there, and its lemmas are cited. The only assumption of SyncServer those need, `BatchMaxAssumption`, follows
from `BatchAssumption`; the requests of the instance are the empty set, because bodies come from
`sent`, and `BodiesAreRequests` shows those to be well-formed. Each step maps to a step of EventLedger or a
stutter: the write of a save (`EnqueueWrite`) to `Make`, `InsertEvents` or an insert that takes effect and
whose answer is lost to `Store`, `ReceiveOk` to `Ack`.
That `Ack` is allowed is the heart of it (`AnsweredIsStored`): the answer belongs to the batch (`AnswerMatchesBatch`), it
settles every event of it (`AnsweredIsSettled`), none as superseded (`ArbitrationNeverFires`), and none was
cut off, which is where `FlushBatch <= BatchMax` is needed: the server cuts a longer batch without a word
and the phone would take the rest for delivered.

**EventBatcherProofs.** `TypeOK`, `TimerIffQueued` (a flush is scheduled exactly while something is queued),
`PendingInOnePlace`, `AcceptedIsStored` (a 202 only for stored events), `UsersKeptApart` and the refinement `ImplementsIngest`. The
inductive invariant adds that a statement marked committed has all its rows
(`CommittedIsStored`). Each step maps to a step of EventIngest or a stutter: `Enqueue` to
`Receive`, `Commit` to `Store`, `Resolve`, `Reject` and `Crash` to `Answer`.
The count of queued events (`Total`) is never unfolded: the results hold whatever decides
between a size flush and waiting.

**AnalyticsProofs, ScoreBoard.** `TypeOK`, `RefreshIsFresh`, `OnlyStoredScoresBreak`, `ShownIsLatestRow` and `TrendIsOfChoice`. The inductive invariant says
where a handler may be for what its call asks, and that a window ends no earlier than its call was
sent (`PlacesFit`); what an answer holds (`AnswersFit`); that only handlers that are done have rows, so a row
read from the table is never the reader's own (`RowsAreOfDone`); and that what the phone shows came
with such an answer (`ShownFits`, `BrokenByText`).
`LatestInv` is for the user who awaits each answer. As long as one call is `clean`, no handler works on that the
phone gave up (`CleanIsAlone`), so the handler the phone awaits is the only one that may store (`OneAtATime`); times lie in
the past (`TimesPast`), so its row will be the newest (`ComputedIsNewest`); its answer is the latest row
when given and until it is read (`AnswerIsLatest`), and what is shown is the latest row but for an answer still to be
read (`ShownIsLatest`). `OneAtATime` rests on the hidden button: a call for a score is awaited only while
`loading` is set. `TrendInv` is for overlapping fetches as well: calls are sent in turn, the newest fetch of a trend is of
the chosen window as long as it is awaited, and unless it was lost its answer is shown or still to come.

**AnalyticsProofs, Analytics.** `ATypeOK`, `SessionsAreRuns`, `WindowCutsFirstOnly`, `EventIsLocal`,
`BetterWorkScoresNoLess`, `BucketsCountDays`, `TrendTellsDirection`: every property of the run. Here the steps are
simple and the work is in the functions, which are loops. The induction theorems of the library
cannot be used (they take an operator), so a loop is reasoned about by its least counterexample: a
non-empty set of numbers has a least element (`Least`, from the well-foundedness of `<`), hence what holds
at the start and is kept by each turn holds up to the end (`UpTo`). On these two lemmas rest

* `LoopHasRuns`: after event `i` the loop has closed the sessions of all runs but the last, and its
  variables are those of the last (`LoopHas`); with the final push this is `Runs` (`BuildIsRuns`).
* `CutsFirstOnly`: a loop that starts inside a session is in its first session, or has the same variables as the
  full loop and closed the same sessions since (`Follows`, `EndsAlike`).
* `InsertIsLocal` needs no loop any more: a session is a run of events (`IsRun`), and a run that does not touch
  the place of the new event is a run of the new history, moved by one at most (`RunStays`).
* `ScoreKeeps`: each sub-metric is a fraction that better work does not lower (`AtMost`), `clamp`, weighing,
  adding and rounding keep that order, and the score stays within 0..10000 (`ScoreIs`). That the median of a
  non-empty finite set exists is `ShortestIs`.
* `BucketsAre`: the rows joined to an event depend on its day only (`JoinedIs`), so what a bucket counts is the product
  of the events of its day and the rows that have its score (`PairsOf`).
* `FitClimbs`: when each observation lies at least the rate above the one before, the numerator of the slope is
  at least the rate times its denominator. The loop invariant is about the sums around the latest
  observation (`Moment`), so that no division occurs and distances in time may be unequal.

The proof of `TrendTellsDirection` found a fault of the model: the arms of the CASE in `classifyTrend` overlapped
when all observations are at one instant (then both sides are 0), where TLA+ leaves the choice open and TLC takes
the first. The code takes the slope for 0 there, and so do the arms now (`den # 0`).

**TaskBoardProofs.** `TypeOK` and `ToldListIsTable`, for any calls, clocks, other clients and faults. The list alone
does not tell what is on its way to it, so the invariant says for each answer under way what the list
becomes with it: a list that covers all that is unseen is the table (`ListComes`), a created row in front of the list
is the table (`RowComes`), a patched row in its place is (`PatchComes`); each only as long as nothing else is
unseen, so that another client's write in between releases the phone from it. With one call at a time
(`OneWaits`) no second answer is applied in between. `HandledOnce` says that a call the server has yet to handle is
in nobody's `covers` and its task not in the table, which is what makes a new row new. That the list is the table
(`Shows`) is about its rows and, while no task is more urgent than the default, about their order: a new row of
the phone is in front on the server too, because it has the default priority (`PhoneSetsNoPriority`) and the highest
`created` (`RowsAreOld`; `ShownInFront`), and a patched row stays in its place, because the phone's PATCH keeps
priority and `created` (`PriorityKept`, `ShownInPlace`). Where another client's write
ends an urgency, the order may be wrong until the next list, which is sorted: that write is unseen until then. `TypeOK` had to
say that no two rows of the table have one id, and `Put` had to replace one row only, as the reducer does, for a list
in which a task appears twice.

**LiveSocketProofs.** `TypeOK`, `RoomsAreConnections`, `OneLifeline`, `PushReachesOthersOnce`, for any phones,
users, broadcasts and bounds. `OneLifeline` is an argument by counting: a phone's live connections
and pending timers together change only at `connect()`, which adds one, and at `disconnect()` and
`onopen`, which may take a timer away; `onclose` and a timer exchange one for the other.
With one lifeline `onopen` finds no pending timer, so the sum stays one. A broadcast is then on its
way over at most one live connection of the phone and is handled at most once (`HandledFit`); a dead
one, of which the server does not know yet, can hold a copy that is never read. `CallsFit` bounds the calls of `connect()`
by the upsets, so that the timers have a type.

Some invariants are proved and not also listed in a run, because a theorem holds of every instance:
`TypeOK` of ClockCausality, SyncServer, MobileSync, EventBatcher and ScoreBoard, `NoEqualStamps`, `AnswerAddsUp`
(applied and skipped add up to the batch), `TimerIffQueued`, `AcceptedIsStored`, `UsersKeptApart`.

## 6. What is only model-checked

* Liveness (`RequestEnds`, `NeverStuckSilently`, `EveryRequestSettles`, `LoadingEnds`, `DeadPeersPruned`,
  `BackInRoom`): proofs under
  fairness need `ENABLED`, which the prover does not handle.
* The three sentences that a run refutes (section 3) have a counterexample each, so nothing is to be proved of them.

## 7. What is not modelled, and why

* In SyncServer one user (every table is keyed by user; the user comes from the token);
  `taskUpdates` (the handler ignores them); malformed bodies; `GET /sync/checkpoint` (reads only); a query
  that takes effect after its error has been reported to the client.
* In MobileSync: `clearQueue`, `queueSize`, `incrementPending` (no caller), the counts and
  times shown in the banner. The lookup of the device id before a dispatch is joined with
  the dispatch, where it may find none.
* In EventBatcher the length of the 200 ms window: the timer may fire at any time.
* In TaskBoard: the fields of a task other than title, status, priority, completion and clock; two INSERTs
  in one microsecond, whose order in a list is open;
  `GET /tasks/:id` and `?status=` (they only read); `applyOptimisticUpdate` (no caller).
* In Analytics: `getBehaviorWindows` (no caller), the `tasksCompleted` column of a bucket,
  the `days` parameter, and the events that `getFocusSessions` filters out.
* In ScoreBoard: other users, `updateScoreFromWs` (needs a push, and nothing sends one), the
  `error` field (shown nowhere), `GET /longitudinal` (it only reads; its result is in Analytics).
* In LiveSocket: `handleMessage` (it acknowledges and changes no state), the order of messages on one
  connection, handlers that subscribe and leave, and the empty sets left in `rooms` (the code's own comment says so).
* Authentication and the rate limiter: `register` and `login` are one query each, decided by the unique
  email, by bcrypt and by jsonwebtoken, and the limiter's counter belongs to express-rate-limit. A token is
  valid or not in LiveSocket. Two points read off: `login` awaits its query outside a `try`, so a failing query is
  an unhandled rejection that nothing answers; and the limiter's window is a fixed one, where
  `rateLimit.middleware.ts:7-8` says rolling.
* Performance (indexes, pool sizes), rendering, navigation, logging, environment parsing.

## 8. Plan

Done: DeviceClocks, ClockCausality, SyncServer, MobileSync, SyncSystem with EventLedger,
EventBatcher with EventIngest, Analytics with its functions, TaskBoard, ScoreBoard, LiveSocket,
and the proofs of section 5.

Every safety property and action property of a passing run is stated by a theorem. Open:

1. Two phones of one user over SyncSystem; the proofs of SyncServer are for any number of devices already.
2. `GET /analytics/score` computing on the tables of Analytics instead of rows that are named by their calls.
3. The liveness properties, once the prover handles `ENABLED`.

## 9. Running

    tlc -workers 2 -config SyncServer.cfg MCSyncServer.tla
    tlapm SyncServerProofs.tla

`PROJECT.json` pairs every run with its module and configuration.
