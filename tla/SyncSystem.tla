---- MODULE SyncSystem ----
(***************************************************************************)
(* One phone and the server, joined by POST /sync/batch.                   *)
(*                                                                         *)
(* A POST may never arrive, arrive late, or be answered when the phone no  *)
(* longer listens (axios gives up after 10 s, the app is killed) while the *)
(* server goes on with it.  The phone then sends its events again, in a    *)
(* request the server handles beside the first.                            *)
(***************************************************************************)
EXTENDS DeviceClocks, Sequences

CONSTANTS
    EventIds, Drains, QueueMax, FlushBatch,
    ReqIds,         \* bound: the POSTs of a run
    BatchMax, Unstorable,
    PhoneFaults, ServerFaults,     \* what may go wrong on either side
    phone, NoPost

ASSUME PhoneAssumption == phone \in Devices
ASSUME PostAssumption == NoPost \notin ReqIds
\* shared/constants/sync.ts.  FlushBatch and BatchMax are both 100: the server cuts
\* longer batches short without telling, so sync depends on this.
ASSUME SizesAssumption == QueueMax \in Nat \ {0} /\ FlushBatch \in Nat \ {0}
ASSUME BatchAssumption == BatchMax \in Nat /\ FlushBatch <= BatchMax

VARIABLES
    queue, localVC, saver, eventVC, seen, drain, dseen, batch, clock,
    status, online, enqueued, delivered,
    rows, processed, syncVectors, pc, request, serverVC, next, toInsert,
    conflicts, skipped,
    sent,           \* every POST that left the phone: its name and its body
    post            \* drain -> the POST whose answer it awaits

Phone  == INSTANCE MobileSync WITH
              ReplyClocks <- {}, FaultSets <- {PhoneFaults}, faults <- PhoneFaults
Server == INSTANCE SyncServer WITH
              Requests <- {}, FaultSets <- {ServerFaults}, faults <- ServerFaults

phoneVars == <<queue, localVC, saver, eventVC, seen, drain, dseen, batch, clock,
               status, online, enqueued, delivered>>
serverVars == <<rows, processed, syncVectors, pc, request, serverVC, next,
                toInsert, conflicts, skipped>>
wire == <<sent, post>>
vars == <<phoneVars, serverVars, wire>>

Init ==
    /\ Phone!Init
    /\ Server!Init
    /\ sent = {}
    /\ post = [d \in Drains |-> NoPost]

Unused(r) == \A m \in sent : m.req # r

\* Mutant: the stored queue is sent instead of the batch taken out of it.
SendPost_Queue(d, r) ==
    /\ Unused(r)
    /\ Phone!ReadClock(d)
    /\ sent' = sent \cup {[req  |-> r,
                           body |-> [deviceId          |-> phone,
                                     clientVectorClock |-> clock'[d],
                                     events            |-> queue]]}
    /\ post' = [post EXCEPT ![d] = r]
    /\ UNCHANGED serverVars

\* The phone reads its clock and sends the batch it holds.
SendPost(d, r) ==
    /\ Unused(r)
    /\ Phone!ReadClock(d)
    /\ sent' = sent \cup {[req  |-> r,
                           body |-> [deviceId          |-> phone,
                                     clientVectorClock |-> clock'[d],
                                     events            |-> batch[d]]]}
    /\ post' = [post EXCEPT ![d] = r]
    /\ UNCHANGED serverVars

\* The request reaches the controller, perhaps after the phone gave it up.
Arrive(r) ==
    /\ \E m \in sent : m.req = r /\ Server!Arrive(r, m.body)
    /\ UNCHANGED <<phoneVars, wire>>

\* Mutant: the status code is not looked at.
ReceiveOk_AnyStatus(d) ==
    /\ post[d] # NoPost
    /\ pc[post[d]] \in {"answered", "failed"}
    /\ Phone!PostOk(d, Server!Answer(post[d]).serverVectorClock)
    /\ post' = [post EXCEPT ![d] = NoPost]
    /\ UNCHANGED <<serverVars, sent>>

ReceiveOk(d) ==
    /\ post[d] # NoPost
    /\ pc[post[d]] = "answered"
    /\ Phone!PostOk(d, Server!Answer(post[d]).serverVectorClock)
    /\ post' = [post EXCEPT ![d] = NoPost]
    /\ UNCHANGED <<serverVars, sent>>

\* A 500, a lost answer, no network, or the timeout: the phone cannot tell.
ReceiveFail(d) ==
    /\ Phone!PostFail(d)
    /\ post' = [post EXCEPT ![d] = NoPost]
    /\ UNCHANGED <<serverVars, sent>>

PhoneKill ==
    /\ Phone!Kill
    /\ post' = [d \in Drains |-> NoPost]
    /\ UNCHANGED <<serverVars, sent>>

\* Steps of the phone that do not touch the network.
PhoneOwn ==
    \/ \E e \in EventIds : Phone!Save(e) \/ Phone!SaverStep(e)
    \/ \E d \in Drains : \/ Phone!DequeueRead(d) \/ Phone!DequeueWrite(d)
                         \/ Phone!SaveClock(d) \/ Phone!WriteBack(d)
                         \/ Phone!DrainWriteFails(d)
                         \/ Phone!ManualSync(d) \/ Phone!GoOnline(d)
    \/ Phone!Mount \/ Phone!GoOffline

ServerOwn ==
    \/ \E r \in ReqIds : Server!Step(r) \/ Server!QueryFails(r)
    \/ Server!Crash

Next ==
    \/ PhoneOwn /\ UNCHANGED <<serverVars, wire>>
    \/ PhoneKill
    \/ \E d \in Drains : ReceiveOk(d) \/ ReceiveFail(d)
    \/ \E d \in Drains, r \in ReqIds : SendPost(d, r)
    \/ \E r \in ReqIds : Arrive(r)
    \/ ServerOwn /\ UNCHANGED <<phoneVars, wire>>

Spec == Init /\ [][Next]_vars

----------------------------------------------------------------------------
EverEnqueued == {enqueued[i] : i \in DOMAIN enqueued}

(***************************************************************************)
(* The phone and the server together implement EventLedger: what the       *)
(* server stores was made on the phone, and the phone takes an event for   *)
(* delivered only when it is stored, through lost answers, timeouts,       *)
(* retries, restarts of either side and half-done requests.                *)
(***************************************************************************)
Ledger == INSTANCE EventLedger WITH
              made   <- EverEnqueued,
              stored <- {row.event : row \in rows},
              acked  <- delivered

ImplementsLedger == Ledger!Spec

(***************************************************************************)
(* A request belongs to one drain only, and it carries what that drain     *)
(* holds: an answer is never credited to another batch.                    *)
(***************************************************************************)
AnswerMatchesBatch ==
    \A d \in Drains : post[d] # NoPost =>
        /\ \A c \in Drains : post[c] = post[d] => c = d
        /\ \E m \in sent : m.req = post[d] /\ m.body.events = batch[d]

(***************************************************************************)
(* No clock ever leaves {}: the phone copies its clock into events and     *)
(* requests without increment, and each side only merges what the other    *)
(* sent.  So every comparison in processSyncBatch answers 'equal', and no  *)
(* event is ever superseded.  (README.md:88 says "Each device increments   *)
(* its own clock component on every write".)                               *)
(***************************************************************************)
ArbitrationNeverFires ==
    /\ localVC = EmptyClock
    /\ \A d \in Devices : syncVectors[d] = EmptyClock
    /\ \A r \in ReqIds : conflicts[r] = <<>>

----------------------------------------------------------------------------
(***************************************************************************)
(* docs/sync-protocol.md:72 "Re-delivered events (common after network     *)
(* retry) are silently skipped": an event has one row.                     *)
(***************************************************************************)
RedeliveryIsSkipped == Server!StoredOnce
====
