---- MODULE SyncSystemProofs ----
(***************************************************************************)
(* Proofs about a phone and the server together, for every set of events,  *)
(* drains and POSTs, any faults on either side, and any sizes the two      *)
(* sides agree on (OFFLINE_QUEUE_FLUSH_BATCH_SIZE <= SYNC_BATCH_MAX_SIZE). *)
(*                                                                         *)
(* The server's part rests on the invariant proved about it alone, taken   *)
(* over through HandlerProofs: each step of a handler is a step of         *)
(* SyncServer, and a request that arrives is a body some phone sent.       *)
(***************************************************************************)
EXTENDS SyncSystem, TLAPS

\* Facts about the clock operations; ClockCausalityProofs says more of them.
LEMMA EmptyIsClock ==
    /\ IsClock(EmptyClock)
    /\ \A d : At(EmptyClock, d) = 0
  BY DEF IsClock, EmptyClock, At

----------------------------------------------------------------------------
HandlerProofs == INSTANCE SyncServerProofs WITH
                     Requests <- {}, FaultSets <- {ServerFaults}, faults <- ServerFaults

\* What the phone ever made, as it travels: every event carries the empty clock.
Sendable == {[id |-> e, vc |-> EmptyClock] : e \in EverEnqueued}

PhoneInv ==
    /\ enqueued \in Seq(EventIds)
    /\ localVC = EmptyClock
    /\ eventVC = [e \in EventIds |-> EmptyClock]
    /\ clock = [d \in Drains |-> EmptyClock]
    /\ queue \in Seq(Sendable)
    /\ seen \in [EventIds -> Seq(Sendable)]
    /\ dseen \in [Drains -> Seq(Sendable)]
    /\ batch \in [Drains -> Seq(Sendable)]
    /\ \A d \in Drains : Len(batch[d]) <= FlushBatch
    /\ DOMAIN drain = Drains

Bodies == [deviceId : {phone}, clientVectorClock : {EmptyClock}, events : Seq(Sendable)]

\* The names of POSTs are not used twice, and a drain awaits an answer only at "post".
WireInv ==
    /\ post \in [Drains -> ReqIds \cup {NoPost}]
    /\ sent \subseteq [req : ReqIds, body : Bodies]
    /\ \A m \in sent : Len(m.body.events) <= FlushBatch
    /\ \A m, n \in sent : m.req = n.req => m = n
    /\ \A d \in Drains : post[d] # NoPost => drain[d] = "post"
    /\ AnswerMatchesBatch

\* What the handlers have of the phone.
ReceivedInv ==
    /\ syncVectors = [d \in Devices |-> EmptyClock]
    /\ serverVC = [r \in ReqIds |-> EmptyClock]
    /\ conflicts = [r \in ReqIds |-> <<>>]
    /\ toInsert \in [ReqIds -> Seq(Sendable)]
    /\ \A r \in ReqIds : pc[r] # "new" => \E m \in sent : m.req = r /\ m.body = request[r]

HandlersInv == HandlerProofs!Inv

Inv == PhoneInv /\ WireInv /\ ReceivedInv /\ HandlersInv

----------------------------------------------------------------------------
LEMMA EmptySeqIs == \A S : <<>> \in Seq(S)
  OBVIOUS

LEMMA SeqGrows ==
    ASSUME NEW S, NEW T, S \subseteq T
    PROVE  Seq(S) \subseteq Seq(T)
<1> SUFFICES ASSUME NEW s \in Seq(S) PROVE s \in Seq(T)
  OBVIOUS
<1>1. Len(s) \in Nat /\ DOMAIN s = 1..Len(s) /\ \A i \in 1..Len(s) : s[i] \in T
  OBVIOUS
<1> QED
  BY <1>1

LEMMA TrimStays ==
    ASSUME NEW S, NEW s \in Seq(S)
    PROVE  Phone!Trim(s) \in Seq(S)
<1>1. Len(s) \in Nat /\ QueueMax \in Nat \ {0}
  BY SizesAssumption
<1>2. CASE Len(s) > QueueMax
  <2> DEFINE m == Len(s) - QueueMax + 1
  <2>1. m \in 1..Len(s)
    BY <1>1, <1>2
  <2>2. Phone!Trim(s) = SubSeq(s, m, Len(s))
    BY <1>2 DEF Phone!Trim
  <2> HIDE DEF m
  <2> QED
    BY <1>1, <2>1, <2>2
<1>3. CASE ~(Len(s) > QueueMax)
  BY <1>3 DEF Phone!Trim
<1> QED
  BY <1>2, <1>3

LEMMA CutStays ==
    ASSUME NEW S, NEW s \in Seq(S)
    PROVE  /\ SubSeq(s, 1, Phone!BatchLen(s)) \in Seq(S)
           /\ Len(SubSeq(s, 1, Phone!BatchLen(s))) <= FlushBatch
           /\ \A m \in Nat : SubSeq(s, m + 1, Len(s)) \in Seq(S)
<1> DEFINE n == Phone!BatchLen(s)
<1>1. Len(s) \in Nat
  OBVIOUS
<1>2. n \in Nat /\ n <= Len(s) /\ n <= FlushBatch
  BY <1>1, SizesAssumption DEF Phone!BatchLen
<1> HIDE DEF n
<1>3. SubSeq(s, 1, n) \in Seq(S) /\ Len(SubSeq(s, 1, n)) = n
  BY <1>1, <1>2
<1>4. \A m \in Nat : SubSeq(s, m + 1, Len(s)) \in Seq(S)
  BY <1>1
<1> QED
  BY <1>2, <1>3, <1>4 DEF n

LEMMA EmptyMerges == merge(EmptyClock, EmptyClock) = EmptyClock
  BY DEF merge, EmptyClock, At

LEMMA EmptyIsNotBefore == ~happenedBefore(EmptyClock, EmptyClock)
  BY EmptyIsClock DEF happenedBefore, compare, Dominates

\* Writing the empty clock where it stands changes nothing.
LEMMA StaysEmpty ==
    ASSUME NEW S, NEW f, f = [x \in S |-> EmptyClock], NEW y
    PROVE  [f EXCEPT ![y] = EmptyClock] = f
  OBVIOUS

LEMMA SendableSame == enqueued' = enqueued => Sendable' = Sendable
  BY DEF Sendable, EverEnqueued

----------------------------------------------------------------------------
LEMMA InitInv == Init => Inv
<1> SUFFICES ASSUME Init PROVE Inv
  OBVIOUS
<1>1. Phone!Init /\ Server!Init /\ sent = {} /\ post = [d \in Drains |-> NoPost]
  BY DEF Init
<1>2. PhoneInv
  <2>1. enqueued \in Seq(EventIds) /\ queue \in Seq(Sendable)
    BY <1>1 DEF Phone!Init
  <2>2. Len(<<>>) <= FlushBatch
    BY SizesAssumption
  <2> HIDE DEF Sendable
  <2> QED
    BY <1>1, <2>1, <2>2, EmptySeqIs DEF Phone!Init, Phone!EmptyClock, EmptyClock, PhoneInv
<1>3. WireInv
  BY <1>1 DEF WireInv, AnswerMatchesBatch
<1>4. ReceivedInv
  BY <1>1, EmptySeqIs DEF Server!Init, Server!EmptyClock, EmptyClock, ReceivedInv
<1>5. HandlersInv
  <2>1. HandlerProofs!Init
    BY <1>1 DEF Server!Init, HandlerProofs!Init, Server!EmptyClock, HandlerProofs!EmptyClock
  <2> QED
    BY <2>1, BatchAssumption, HandlerProofs!InitInv DEF HandlersInv
<1> QED
  BY <1>2, <1>3, <1>4, <1>5 DEF Inv

\* A phone that has no clock but {} reads no other, and a queue it reads holds only
\* what it made.
LEMMA ReadsAre ==
    ASSUME PhoneInv
    PROVE  /\ \A vc \in Phone!ClockReads : vc = EmptyClock
           /\ \A q \in Phone!QueueReads : q \in Seq(Sendable)
  BY EmptySeqIs DEF PhoneInv, Phone!ClockReads, Phone!QueueReads, Phone!EmptyClock, EmptyClock

\* Steps of one saver before its write, or when it fails.
LEMMA SavingKeepsPhone ==
    ASSUME PhoneInv, NEW e \in EventIds,
           Phone!Save(e) \/ Phone!SaveFails(e) \/ Phone!MakeEvent(e) \/ Phone!EnqueueFails(e)
    PROVE  /\ PhoneInv'
           /\ UNCHANGED <<enqueued, delivered, drain, batch>>
<1>1. UNCHANGED <<queue, localVC, drain, dseen, batch, clock, enqueued, delivered>>
  BY DEF Phone!Save, Phone!SaveFails, Phone!MakeEvent, Phone!EnqueueFails, Phone!storage,
         Phone!draining
<1>2. Sendable' = Sendable
  BY <1>1, SendableSame
<1>3. eventVC' = eventVC
  <2>1. eventVC' = eventVC \/ \E vc \in Phone!ClockReads : eventVC' = [eventVC EXCEPT ![e] = vc]
    BY DEF Phone!Save, Phone!SaveFails, Phone!MakeEvent, Phone!EnqueueFails
  <2>2. eventVC = [x \in EventIds |-> EmptyClock]
    BY DEF PhoneInv
  <2> QED
    BY <2>1, <2>2, ReadsAre, StaysEmpty
<1>4. seen' \in [EventIds -> Seq(Sendable)]
  <2>1. \/ seen' = seen
        \/ \E q \in Phone!QueueReads : seen' = [seen EXCEPT ![e] = q]
        \/ seen' = [seen EXCEPT ![e] = <<>>]
    BY DEF Phone!Save, Phone!SaveFails, Phone!MakeEvent, Phone!EnqueueFails
  <2>2. seen \in [EventIds -> Seq(Sendable)]
    BY DEF PhoneInv
  <2> QED
    BY <2>1, <2>2, ReadsAre, EmptySeqIs
<1> QED
  BY <1>1, <1>2, <1>3, <1>4 DEF PhoneInv

\* A new event is the only thing the phone's knowledge grows by.
LEMMA EnqueueWriteKeepsPhone ==
    ASSUME PhoneInv, NEW e \in EventIds, NEW d \in Drains, Phone!EnqueueWrite(e, d)
    PROVE  /\ PhoneInv'
           /\ Sendable \subseteq Sendable'
           /\ EverEnqueued' = EverEnqueued \cup {e}
           /\ UNCHANGED <<delivered, batch>>
           /\ \A c \in Drains : drain[c] = "post" => drain'[c] = "post"
<1> DEFINE ev == [id |-> e, vc |-> eventVC[e]]
<1>1. /\ queue' = Phone!Trim(Append(seen[e], ev))
      /\ seen' = [seen EXCEPT ![e] = <<>>]
      /\ enqueued' = Append(enqueued, e)
      /\ drain[d] = "off" /\ drain' = [drain EXCEPT ![d] = "readQueue"]
      /\ UNCHANGED <<localVC, eventVC, dseen, batch, clock, delivered>>
  BY DEF Phone!EnqueueWrite, Phone!BeginDrain
<1>2. enqueued \in Seq(EventIds) /\ DOMAIN drain = Drains
  BY DEF PhoneInv
<1>3. enqueued' \in Seq(EventIds) /\ EverEnqueued' = EverEnqueued \cup {e}
  <2>1. /\ enqueued' \in Seq(EventIds) /\ Len(enqueued) \in Nat
        /\ DOMAIN enqueued = 1..Len(enqueued) /\ DOMAIN enqueued' = 1..Len(enqueued) + 1
        /\ \A i \in 1..Len(enqueued) : enqueued'[i] = enqueued[i]
        /\ enqueued'[Len(enqueued) + 1] = e
    BY <1>1, <1>2
  <2>2. \A i \in 1..Len(enqueued) + 1 : i \in 1..Len(enqueued) \/ i = Len(enqueued) + 1
    BY <2>1
  <2>3. \A i \in 1..Len(enqueued) : i \in 1..Len(enqueued) + 1
    BY <2>1
  <2>4. Len(enqueued) + 1 \in 1..Len(enqueued) + 1
    BY <2>1
  <2>5. EverEnqueued' \subseteq EverEnqueued \cup {e}
    BY <2>1, <2>2 DEF EverEnqueued
  <2>6. EverEnqueued \subseteq EverEnqueued'
    BY <2>1, <2>3 DEF EverEnqueued
  <2>7. e \in EverEnqueued'
    BY <2>1, <2>4 DEF EverEnqueued
  <2> QED
    BY <2>1, <2>5, <2>6, <2>7
<1>4. Sendable \subseteq Sendable'
  BY <1>3 DEF Sendable
<1>5. ev \in Sendable'
  BY <1>3 DEF Sendable, PhoneInv
<1> HIDE DEF ev, Sendable
<1>6. Seq(Sendable) \subseteq Seq(Sendable')
  BY <1>4, SeqGrows
<1>7. queue' \in Seq(Sendable')
  <2>1. seen[e] \in Seq(Sendable')
    BY <1>6 DEF PhoneInv
  <2>2. Append(seen[e], ev) \in Seq(Sendable')
    BY <1>5, <2>1
  <2> QED
    BY <1>1, <2>2, TrimStays
<1>8. seen' \in [EventIds -> Seq(Sendable')]
  BY <1>1, <1>6, EmptySeqIs DEF PhoneInv
<1>9. PhoneInv'
  BY <1>1, <1>3, <1>6, <1>7, <1>8 DEF PhoneInv
<1> QED
  BY <1>1, <1>2, <1>3, <1>4, <1>9

\* Steps of one drain, the answer to its POST apart.
LEMMA EndDrainKeepsPhone ==
    ASSUME PhoneInv, NEW d \in Drains, NEW st, Phone!EndDrain(d, st)
    PROVE  /\ clock' = clock
           /\ dseen' \in [Drains -> Seq(Sendable)]
           /\ batch' \in [Drains -> Seq(Sendable)]
           /\ \A c \in Drains : Len(batch'[c]) <= FlushBatch
           /\ DOMAIN drain' = Drains
           /\ \A c \in Drains \ {d} : drain'[c] = drain[c] /\ batch'[c] = batch[c]
<1>1. /\ drain' = [drain EXCEPT ![d] = "off"]
      /\ dseen' = [dseen EXCEPT ![d] = <<>>]
      /\ batch' = [batch EXCEPT ![d] = <<>>]
      /\ clock' = [clock EXCEPT ![d] = EmptyClock]
  BY DEF Phone!EndDrain, Phone!EmptyClock, EmptyClock
<1>2. clock' = clock
  BY <1>1, StaysEmpty DEF PhoneInv
<1>3. Len(<<>>) <= FlushBatch
  BY SizesAssumption
<1> HIDE DEF Sendable
<1> QED
  BY <1>1, <1>2, <1>3, EmptySeqIs DEF PhoneInv

LEMMA DrainKeepsPhone ==
    ASSUME PhoneInv, NEW d \in Drains,
           \/ Phone!DequeueRead(d) \/ Phone!DequeueWrite(d) \/ Phone!SaveClock(d)
           \/ Phone!WriteBack(d) \/ Phone!DrainWriteFails(d)
    PROVE  /\ PhoneInv'
           /\ UNCHANGED <<enqueued, delivered>>
           /\ drain[d] # "post"
           /\ \A c \in Drains \ {d} : drain'[c] = drain[c] /\ batch'[c] = batch[c]
<1>1. UNCHANGED <<seen, eventVC, enqueued, delivered>>
  BY DEF Phone!DequeueRead, Phone!DequeueWrite, Phone!SaveClock, Phone!WriteBack,
         Phone!DrainWriteFails, Phone!saving
<1>2. Sendable' = Sendable
  BY <1>1, SendableSame
<1> HIDE DEF Sendable
<1>3. /\ DOMAIN drain = Drains /\ dseen \in [Drains -> Seq(Sendable)]
      /\ batch \in [Drains -> Seq(Sendable)] /\ clock[d] = EmptyClock
  BY DEF PhoneInv
<1>4. CASE Phone!DequeueRead(d)
  <2>1. UNCHANGED <<queue, localVC>> /\ drain[d] = "readQueue"
    BY <1>4 DEF Phone!DequeueRead, Phone!storage
  <2>2. CASE Phone!EndDrain(d, "idle")
    BY <1>1, <1>2, <2>1, <2>2, EndDrainKeepsPhone DEF PhoneInv
  <2>3. ASSUME NEW q \in Phone!QueueReads,
               dseen' = [dseen EXCEPT ![d] = q],
               batch' = [batch EXCEPT ![d] = SubSeq(q, 1, Phone!BatchLen(q))],
               drain' = [drain EXCEPT ![d] = "writeRest"],
               clock' = clock
        PROVE  PhoneInv' /\ \A c \in Drains \ {d} : drain'[c] = drain[c] /\ batch'[c] = batch[c]
    <3> DEFINE b == SubSeq(q, 1, Phone!BatchLen(q))
    <3>1. q \in Seq(Sendable) /\ b \in Seq(Sendable) /\ Len(b) <= FlushBatch
      BY ReadsAre, CutStays
    <3>2. batch' = [batch EXCEPT ![d] = b]
      BY <2>3
    <3> HIDE DEF b
    <3>3. \A c \in Drains : Len(batch'[c]) <= FlushBatch
      BY <1>3, <3>1, <3>2 DEF PhoneInv
    <3> QED
      BY <1>1, <1>2, <1>3, <2>1, <2>3, <3>1, <3>2, <3>3 DEF PhoneInv
  <2> QED
    BY <1>1, <1>4, <2>1, <2>2, <2>3, EndDrainKeepsPhone DEF Phone!DequeueRead
<1>5. CASE Phone!DequeueWrite(d)
  <2>1. /\ drain[d] = "writeRest"
        /\ queue' = SubSeq(dseen[d], Len(batch[d]) + 1, Len(dseen[d]))
        /\ drain' = [drain EXCEPT ![d] = "readClock"]
        /\ dseen' = [dseen EXCEPT ![d] = <<>>]
        /\ UNCHANGED <<localVC, batch, clock>>
    BY <1>5 DEF Phone!DequeueWrite
  <2>2. dseen[d] \in Seq(Sendable) /\ Len(batch[d]) \in Nat
    BY <1>3
  <2>3. queue' \in Seq(Sendable)
    BY <2>1, <2>2, CutStays
  <2> QED
    BY <1>1, <1>2, <1>3, <2>1, <2>3, EmptySeqIs DEF PhoneInv
<1>6. CASE Phone!SaveClock(d)
  <2>1. /\ drain[d] = "saveClock" /\ localVC' = clock[d]
        /\ drain' = [drain EXCEPT ![d] = "readQueue"]
        /\ clock' = [clock EXCEPT ![d] = EmptyClock]
        /\ UNCHANGED <<queue, dseen, batch>>
    BY <1>6 DEF Phone!SaveClock, Phone!EmptyClock, EmptyClock
  <2>2. clock' = clock
    BY <2>1, StaysEmpty DEF PhoneInv
  <2> QED
    BY <1>1, <1>2, <1>3, <2>1, <2>2 DEF PhoneInv
<1>7. CASE Phone!WriteBack(d)
  <2>1. /\ drain[d] = "writeBack" /\ queue' = Phone!Trim(dseen[d] \o batch[d])
        /\ Phone!EndDrain(d, "error") /\ localVC' = localVC
    BY <1>7 DEF Phone!WriteBack
  <2>2. dseen[d] \o batch[d] \in Seq(Sendable)
    BY <1>3
  <2>3. queue' \in Seq(Sendable)
    BY <2>1, <2>2, TrimStays
  <2> QED
    BY <1>1, <1>2, <2>1, <2>3, EndDrainKeepsPhone DEF PhoneInv
<1>8. CASE Phone!DrainWriteFails(d)
  <2>1. /\ drain[d] # "post" /\ Phone!EndDrain(d, "error") /\ UNCHANGED <<queue, localVC>>
    BY <1>8 DEF Phone!DrainWriteFails, Phone!storage
  <2> QED
    BY <1>1, <1>2, <2>1, EndDrainKeepsPhone DEF PhoneInv
<1> QED
  BY <1>1, <1>4, <1>5, <1>6, <1>7, <1>8

LEMMA NetworkKeepsPhone ==
    ASSUME PhoneInv,
           \/ Phone!Mount \/ Phone!GoOffline
           \/ \E d \in Drains : Phone!ManualSync(d) \/ Phone!GoOnline(d)
    PROVE  /\ PhoneInv'
           /\ UNCHANGED <<enqueued, delivered, batch>>
           /\ \A c \in Drains : drain[c] = "post" => drain'[c] = "post"
<1>1. UNCHANGED <<queue, localVC, seen, eventVC, dseen, batch, clock, enqueued, delivered>>
  BY DEF Phone!Mount, Phone!GoOffline, Phone!ManualSync, Phone!GoOnline, Phone!BeginDrain,
         Phone!storage, Phone!saving, Phone!draining
<1>2. drain' = drain \/ \E d \in Drains : drain[d] = "off" /\ drain' = [drain EXCEPT ![d] = "readQueue"]
  BY DEF Phone!Mount, Phone!GoOffline, Phone!ManualSync, Phone!GoOnline, Phone!BeginDrain,
         Phone!draining
<1>3. Sendable' = Sendable
  BY <1>1, SendableSame
<1> HIDE DEF Sendable
<1> QED
  BY <1>1, <1>2, <1>3 DEF PhoneInv

\* What the steps of the phone leave to the wire and the server.
LEMMA PhoneOwnKeepsPhone ==
    ASSUME PhoneInv, PhoneOwn
    PROVE  /\ PhoneInv'
           /\ Sendable \subseteq Sendable'
           /\ delivered' = delivered
           /\ \A d \in Drains : drain[d] = "post" => drain'[d] = "post" /\ batch'[d] = batch[d]
           /\ EverEnqueued' = EverEnqueued \/ \E e \in EventIds : EverEnqueued' = EverEnqueued \cup {e}
<1>1. enqueued' = enqueued => Sendable' = Sendable /\ EverEnqueued' = EverEnqueued
  BY SendableSame DEF EverEnqueued
<1> HIDE DEF Sendable, EverEnqueued, PhoneInv
<1>2. ASSUME NEW e \in EventIds, Phone!Save(e) \/ Phone!SaveFails(e) \/ Phone!MakeEvent(e) \/ Phone!EnqueueFails(e)
      PROVE  /\ PhoneInv' /\ enqueued' = enqueued /\ delivered' = delivered
             /\ \A d \in Drains : drain[d] = "post" => drain'[d] = "post" /\ batch'[d] = batch[d]
  BY <1>2, SavingKeepsPhone
<1>3. ASSUME NEW e \in EventIds, NEW d \in Drains, Phone!EnqueueWrite(e, d)
      PROVE  /\ PhoneInv' /\ Sendable \subseteq Sendable' /\ delivered' = delivered
             /\ EverEnqueued' = EverEnqueued \cup {e}
             /\ \A c \in Drains : drain[c] = "post" => drain'[c] = "post" /\ batch'[c] = batch[c]
  BY <1>3, EnqueueWriteKeepsPhone
<1>4. ASSUME NEW d \in Drains, \/ Phone!DequeueRead(d) \/ Phone!DequeueWrite(d) \/ Phone!SaveClock(d)
                               \/ Phone!WriteBack(d) \/ Phone!DrainWriteFails(d)
      PROVE  /\ PhoneInv' /\ enqueued' = enqueued /\ delivered' = delivered
             /\ \A c \in Drains : drain[c] = "post" => drain'[c] = "post" /\ batch'[c] = batch[c]
  BY <1>4, DrainKeepsPhone
<1>5. ASSUME \/ Phone!Mount \/ Phone!GoOffline
             \/ \E d \in Drains : Phone!ManualSync(d) \/ Phone!GoOnline(d)
      PROVE  /\ PhoneInv' /\ enqueued' = enqueued /\ delivered' = delivered
             /\ \A c \in Drains : drain[c] = "post" => drain'[c] = "post" /\ batch'[c] = batch[c]
  BY <1>5, NetworkKeepsPhone
<1> QED
  BY <1>1, <1>2, <1>3, <1>4, <1>5 DEF PhoneOwn, Phone!SaverStep

\* The handlers' invariant is about serverVars only.
LEMMA HandlersRest ==
    ASSUME HandlersInv, UNCHANGED serverVars
    PROVE  HandlersInv'
<1>1. UNCHANGED <<HandlerProofs!tables, pc, request, HandlerProofs!locals>>
  BY DEF serverVars, HandlerProofs!tables, HandlerProofs!locals
<1> QED
  BY <1>1, BatchAssumption, HandlerProofs!StutterKeepsInv DEF HandlersInv

\* What was sent, received and collected stays what the phone made.
LEMMA MoreIsMade ==
    ASSUME Sendable \subseteq Sendable'
    PROVE  Seq(Sendable) \subseteq Seq(Sendable)' /\ Bodies \subseteq Bodies'
<1>1. Seq(Sendable) \subseteq Seq(Sendable')
  BY SeqGrows
<1> HIDE DEF Sendable
<1> QED
  BY <1>1 DEF Bodies

LEMMA PhoneOwnKeepsInv ==
    ASSUME Inv, PhoneOwn, UNCHANGED <<serverVars, wire>>
    PROVE  Inv'
<1>1. /\ PhoneInv'
      /\ Sendable \subseteq Sendable'
      /\ \A d \in Drains : drain[d] = "post" => drain'[d] = "post" /\ batch'[d] = batch[d]
  BY PhoneOwnKeepsPhone DEF Inv
<1>2. Seq(Sendable) \subseteq Seq(Sendable)' /\ Bodies \subseteq Bodies'
  BY <1>1, MoreIsMade
<1>3. sent' = sent /\ post' = post /\ UNCHANGED <<syncVectors, serverVC, conflicts, toInsert, pc,
                                                  request>>
  BY DEF wire, serverVars
<1> HIDE DEF Sendable, Bodies
<1>4. WireInv'
  <2>1. AnswerMatchesBatch'
    BY <1>1, <1>3 DEF Inv, WireInv, AnswerMatchesBatch
  <2> QED
    BY <1>1, <1>2, <1>3, <2>1 DEF Inv, WireInv
<1>5. ReceivedInv'
  BY <1>2, <1>3 DEF Inv, ReceivedInv
<1>6. HandlersInv'
  BY HandlersRest DEF Inv
<1> QED
  BY <1>1, <1>4, <1>5, <1>6 DEF Inv

LEMMA KillKeepsInv ==
    ASSUME Inv, PhoneKill
    PROVE  Inv' /\ UNCHANGED <<enqueued, delivered, rows>>
<1>1. /\ seen' = [e \in EventIds |-> <<>>] /\ drain' = [d \in Drains |-> "off"]
      /\ dseen' = [d \in Drains |-> <<>>] /\ batch' = [d \in Drains |-> <<>>]
      /\ clock' = [d \in Drains |-> EmptyClock]
      /\ UNCHANGED <<queue, localVC, eventVC, enqueued, delivered>>
      /\ post' = [d \in Drains |-> NoPost] /\ sent' = sent
      /\ UNCHANGED serverVars
  BY DEF PhoneKill, Phone!Kill, Phone!storage, Phone!EmptyClock, EmptyClock
<1>2. Sendable' = Sendable /\ Bodies' = Bodies
  BY <1>1, SendableSame DEF Bodies
<1>3. Len(<<>>) <= FlushBatch
  BY SizesAssumption
<1>4. UNCHANGED <<syncVectors, serverVC, conflicts, toInsert, pc, request, rows>>
  BY <1>1 DEF serverVars
<1> HIDE DEF Sendable, Bodies
<1>5. PhoneInv'
  BY <1>1, <1>2, <1>3, EmptySeqIs DEF Inv, PhoneInv
<1>6. WireInv'
  BY <1>1, <1>2 DEF Inv, WireInv, AnswerMatchesBatch
<1>7. ReceivedInv'
  BY <1>1, <1>2, <1>4 DEF Inv, ReceivedInv
<1> QED
  BY <1>1, <1>4, <1>5, <1>6, <1>7, HandlersRest DEF Inv

LEMMA SendKeepsInv ==
    ASSUME Inv, NEW d \in Drains, NEW r \in ReqIds, SendPost(d, r)
    PROVE  Inv' /\ UNCHANGED <<enqueued, delivered, rows>>
<1> DEFINE body == [deviceId |-> phone, clientVectorClock |-> clock'[d], events |-> batch[d]]
           m0 == [req |-> r, body |-> body]
<1>1. /\ \A m \in sent : m.req # r
      /\ drain[d] = "readClock" /\ drain' = [drain EXCEPT ![d] = "post"]
      /\ \E vc \in Phone!ClockReads : clock' = [clock EXCEPT ![d] = vc]
      /\ UNCHANGED <<queue, localVC, seen, eventVC, dseen, batch, enqueued, delivered>>
      /\ sent' = sent \cup {m0} /\ post' = [post EXCEPT ![d] = r]
      /\ UNCHANGED serverVars
  BY DEF SendPost, Unused, Phone!ReadClock, Phone!storage, Phone!saving
<1>2. clock' = clock
  BY <1>1, ReadsAre, StaysEmpty DEF Inv, PhoneInv
<1>3. Sendable' = Sendable /\ Bodies' = Bodies
  BY <1>1, SendableSame DEF Bodies
<1>4. UNCHANGED <<syncVectors, serverVC, conflicts, toInsert, pc, request, rows>>
  BY <1>1 DEF serverVars
<1> HIDE DEF Sendable
<1>5. batch[d] \in Seq(Sendable) /\ Len(batch[d]) <= FlushBatch /\ clock'[d] = EmptyClock
  BY <1>2 DEF Inv, PhoneInv
<1>6. body \in Bodies /\ m0.req = r /\ m0.body = body /\ m0.body.events = batch[d]
  BY <1>5 DEF Bodies
<1> HIDE DEF body, Bodies
<1>7. m0 \in [req : ReqIds, body : Bodies]
  BY <1>6
<1> HIDE DEF m0
<1>8. PhoneInv'
  BY <1>1, <1>2, <1>3 DEF Inv, PhoneInv
<1>9. WireInv'
  <2>1. \A c \in Drains : post[c] # r
    BY <1>1, r \in ReqIds, PostAssumption DEF Inv, WireInv, AnswerMatchesBatch
  <2>2. /\ post'[d] = r /\ drain'[d] = "post"
        /\ \A c \in Drains \ {d} : post'[c] = post[c] /\ drain'[c] = drain[c]
    BY <1>1 DEF Inv, WireInv, PhoneInv
  <2>3. AnswerMatchesBatch'
    BY <1>1, <1>6, <2>1, <2>2 DEF Inv, WireInv, AnswerMatchesBatch
  <2>4. post' \in [Drains -> ReqIds \cup {NoPost}]
    BY <1>1 DEF Inv, WireInv
  <2>5. /\ sent' \subseteq [req : ReqIds, body : Bodies]'
        /\ \A m \in sent' : Len(m.body.events) <= FlushBatch
        /\ \A m, n \in sent' : m.req = n.req => m = n
    BY <1>1, <1>3, <1>5, <1>6, <1>7 DEF Inv, WireInv
  <2>6. \A c \in Drains : post'[c] # NoPost => drain'[c] = "post"
    BY <2>2 DEF Inv, WireInv
  <2> QED
    BY <2>3, <2>4, <2>5, <2>6 DEF WireInv
<1>10. ReceivedInv'
  BY <1>1, <1>3, <1>4 DEF Inv, ReceivedInv
<1> QED
  BY <1>1, <1>4, <1>8, <1>9, <1>10, HandlersRest DEF Inv

LEMMA EmptyMergesInPeers ==
    /\ Phone!merge(EmptyClock, EmptyClock) = EmptyClock
    /\ Server!merge(EmptyClock, EmptyClock) = EmptyClock
    /\ HandlerProofs!merge(EmptyClock, EmptyClock) = EmptyClock
  BY DEF Phone!merge, Phone!At, Server!merge, Server!At, HandlerProofs!merge, HandlerProofs!At,
         EmptyClock

\* A drain that no longer waits: nothing it held was other drains' business.
LEMMA OutOfPost ==
    ASSUME Inv, NEW d \in Drains,
           sent' = sent, enqueued' = enqueued, post' = [post EXCEPT ![d] = NoPost],
           \A c \in Drains \ {d} : drain'[c] = drain[c] /\ batch'[c] = batch[c]
    PROVE  WireInv'
<1>1. Sendable' = Sendable /\ Bodies' = Bodies
  BY SendableSame DEF Bodies
<1> HIDE DEF Bodies
<1>2. post'[d] = NoPost /\ \A c \in Drains \ {d} : post'[c] = post[c]
  BY DEF Inv, WireInv
<1>3. AnswerMatchesBatch'
  BY <1>2 DEF Inv, WireInv, AnswerMatchesBatch
<1>4. post' \in [Drains -> ReqIds \cup {NoPost}]
  BY DEF Inv, WireInv
<1> QED
  BY <1>1, <1>2, <1>3, <1>4 DEF Inv, WireInv

\* The request a drain awaits the answer to holds what the drain holds.
LEMMA AwaitedRequest ==
    ASSUME Inv, NEW d \in Drains, post[d] # NoPost, pc[post[d]] # "new"
    PROVE  /\ post[d] \in ReqIds
           /\ request[post[d]].events = batch[d]
           /\ request[post[d]].clientVectorClock = EmptyClock
<1>1. post[d] \in ReqIds
  BY DEF Inv, WireInv
<1>2. PICK m \in sent : m.req = post[d] /\ m.body.events = batch[d]
  BY DEF Inv, WireInv, AnswerMatchesBatch
<1>3. PICK n \in sent : n.req = post[d] /\ n.body = request[post[d]]
  BY <1>1 DEF Inv, ReceivedInv
<1>4. m = n /\ m.body \in Bodies
  BY <1>2, <1>3 DEF Inv, WireInv
<1> QED
  BY <1>1, <1>2, <1>3, <1>4 DEF Bodies

LEMMA ReceiveOkKeepsInv ==
    ASSUME Inv, NEW d \in Drains, ReceiveOk(d)
    PROVE  Inv' /\ UNCHANGED <<enqueued, rows>>
<1> DEFINE vc == Server!Answer(post[d]).serverVectorClock
<1>1. /\ post[d] # NoPost /\ pc[post[d]] = "answered"
      /\ clock' = [clock EXCEPT ![d] = Phone!merge(@, vc)]
      /\ batch' = [batch EXCEPT ![d] = <<>>]
      /\ drain' = [drain EXCEPT ![d] = "saveClock"]
      /\ UNCHANGED <<queue, localVC, eventVC, seen, dseen, enqueued>>
      /\ post' = [post EXCEPT ![d] = NoPost] /\ sent' = sent
      /\ UNCHANGED serverVars
  BY DEF ReceiveOk, Phone!PostOk, Phone!storage, Phone!saving
<1>2. vc = EmptyClock
  <2>1. serverVC[post[d]] = EmptyClock /\ request[post[d]].clientVectorClock = EmptyClock
    BY <1>1, AwaitedRequest DEF Inv, ReceivedInv
  <2>2. vc = Server!merge(serverVC[post[d]], request[post[d]].clientVectorClock)
    BY DEF Server!Answer
  <2> HIDE DEF vc
  <2> QED
    BY <2>1, <2>2, EmptyMergesInPeers
<1> HIDE DEF vc
<1>3. clock' = clock
  <2>1. clock = [c \in Drains |-> EmptyClock]
    BY DEF Inv, PhoneInv
  <2>2. clock' = [clock EXCEPT ![d] = EmptyClock]
    BY <1>1, <1>2, <2>1, EmptyMergesInPeers
  <2> QED
    BY <2>1, <2>2, StaysEmpty
<1>4. Sendable' = Sendable
  BY <1>1, SendableSame
<1>5. UNCHANGED <<syncVectors, serverVC, conflicts, toInsert, pc, request, rows>>
  BY <1>1 DEF serverVars
<1>6. Len(<<>>) <= FlushBatch
  BY SizesAssumption
<1> HIDE DEF Sendable
<1>7. PhoneInv'
  BY <1>1, <1>3, <1>4, <1>6, EmptySeqIs DEF Inv, PhoneInv
<1>8. WireInv'
  BY <1>1, OutOfPost DEF Inv, PhoneInv
<1>9. ReceivedInv'
  BY <1>1, <1>4, <1>5 DEF Inv, ReceivedInv
<1> QED
  BY <1>1, <1>5, <1>7, <1>8, <1>9, HandlersRest DEF Inv

LEMMA ReceiveFailKeepsInv ==
    ASSUME Inv, NEW d \in Drains, ReceiveFail(d)
    PROVE  Inv' /\ UNCHANGED <<enqueued, delivered, rows>>
<1>1. /\ drain' = [drain EXCEPT ![d] = "writeBack"]
      /\ \E q \in Phone!QueueReads : dseen' = [dseen EXCEPT ![d] = q]
      /\ UNCHANGED <<queue, localVC, eventVC, seen, batch, clock, enqueued, delivered>>
      /\ post' = [post EXCEPT ![d] = NoPost] /\ sent' = sent
      /\ UNCHANGED serverVars
  BY DEF ReceiveFail, Phone!PostFail, Phone!storage, Phone!saving
<1>2. Sendable' = Sendable
  BY <1>1, SendableSame
<1>3. UNCHANGED <<syncVectors, serverVC, conflicts, toInsert, pc, request, rows>>
  BY <1>1 DEF serverVars
<1> HIDE DEF Sendable
<1>4. PhoneInv'
  BY <1>1, <1>2, ReadsAre DEF Inv, PhoneInv
<1>5. WireInv'
  BY <1>1, OutOfPost DEF Inv, PhoneInv
<1>6. ReceivedInv'
  BY <1>1, <1>2, <1>3 DEF Inv, ReceivedInv
<1> QED
  BY <1>1, <1>3, <1>4, <1>5, <1>6, HandlersRest DEF Inv

----------------------------------------------------------------------------
\* The steps of the server, as SyncServerProofs knows them.
LEMMA ServerStepIs ==
    ASSUME NEW r \in ReqIds
    PROVE  /\ Server!LoadClock(r)      => HandlerProofs!LoadClock(r)
           /\ Server!CheckEvent(r)     => HandlerProofs!CheckEvent(r)
           /\ Server!InsertEvents(r)   => HandlerProofs!InsertEvents(r)
           /\ Server!InsertRejected(r) => HandlerProofs!InsertRejected(r)
           /\ Server!MarkProcessed(r)  => HandlerProofs!MarkProcessed(r)
           /\ Server!PersistClock(r)   => HandlerProofs!PersistClock(r)
           /\ Server!QueryFails(r)     => HandlerProofs!QueryFails(r)
<1>1. Server!LoadClock(r) => HandlerProofs!LoadClock(r)
  BY DEF Server!LoadClock, HandlerProofs!LoadClock, Server!AfterEvent, HandlerProofs!AfterEvent,
         Server!Batch, HandlerProofs!Batch, Server!tables, HandlerProofs!tables
<1>2. Server!CheckEvent(r) => HandlerProofs!CheckEvent(r)
  BY DEF Server!CheckEvent, HandlerProofs!CheckEvent, Server!AfterEvent, HandlerProofs!AfterEvent,
         Server!Batch, HandlerProofs!Batch, Server!tables, HandlerProofs!tables,
         Server!SkipProcessed, HandlerProofs!SkipProcessed, Server!Supersede, HandlerProofs!Supersede,
         Server!Accept, HandlerProofs!Accept, Server!happenedBefore, HandlerProofs!happenedBefore,
         Server!compare, HandlerProofs!compare, Server!Dominates, HandlerProofs!Dominates,
         Server!At, HandlerProofs!At
<1>3. Server!InsertEvents(r) => HandlerProofs!InsertEvents(r)
  BY DEF Server!InsertEvents, HandlerProofs!InsertEvents, Server!NoPartition,
         HandlerProofs!NoPartition,
         Server!NewRows, HandlerProofs!NewRows, Server!Continue, HandlerProofs!Continue,
         Server!locals, HandlerProofs!locals
<1>4. Server!InsertRejected(r) => HandlerProofs!InsertRejected(r)
  BY DEF Server!InsertRejected, HandlerProofs!InsertRejected, Server!NoPartition,
         HandlerProofs!NoPartition, Server!tables, HandlerProofs!tables,
         Server!locals, HandlerProofs!locals
<1>5. Server!MarkProcessed(r) => HandlerProofs!MarkProcessed(r)
  BY DEF Server!MarkProcessed, HandlerProofs!MarkProcessed, Server!Continue, HandlerProofs!Continue,
         Server!locals, HandlerProofs!locals
<1>6. Server!PersistClock(r) => HandlerProofs!PersistClock(r)
  BY DEF Server!PersistClock, HandlerProofs!PersistClock, Server!Answer, HandlerProofs!Answer,
         Server!merge, HandlerProofs!merge, Server!At, HandlerProofs!At,
         Server!Continue, HandlerProofs!Continue, Server!locals, HandlerProofs!locals
<1>7. Server!QueryFails(r) => HandlerProofs!QueryFails(r)
  BY DEF Server!QueryFails, HandlerProofs!QueryFails, Server!Awaiting, HandlerProofs!Awaiting,
         Server!tables, HandlerProofs!tables, Server!locals, HandlerProofs!locals
<1> QED
  BY <1>1, <1>2, <1>3, <1>4, <1>5, <1>6, <1>7

LEMMA SendableIs ==
    ASSUME Inv
    PROVE  /\ EverEnqueued \subseteq EventIds
           /\ \A e \in Sendable : e.id \in EverEnqueued /\ e.vc = EmptyClock
<1>1. enqueued \in Seq(EventIds)
  BY DEF Inv, PhoneInv
<1> QED
  BY <1>1 DEF EverEnqueued, Sendable

\* A body the phone sends is one the handler is made for.
LEMMA BodiesAreRequests ==
    ASSUME Inv, NEW b \in Bodies
    PROVE  HandlerProofs!IsRequest(b)
<1> DEFINE s == b.events
           R == {s[i] : i \in DOMAIN s}
<1>1. s \in Seq(Sendable) /\ b.deviceId \in Devices /\ b.clientVectorClock = EmptyClock
  BY PhoneAssumption DEF Bodies
<1> HIDE DEF s, Sendable
<1>2. Len(s) \in Nat /\ DOMAIN s = 1..Len(s) /\ \A i \in 1..Len(s) : s[i] \in Sendable
  BY <1>1
<1>3. s \in Seq(R)
  <2>1. \A i \in 1..Len(s) : s[i] \in R
    BY <1>2
  <2> HIDE DEF R
  <2> QED
    BY <1>1, <1>2, <2>1
<1>4. HandlerProofs!IsClock(EmptyClock)
  BY DEF HandlerProofs!IsClock, EmptyClock
<1>5. \A i \in DOMAIN s : HandlerProofs!IsEvent(s[i])
  BY <1>2, <1>4, SendableIs DEF HandlerProofs!IsEvent
<1> QED
  BY <1>1, <1>3, <1>4, <1>5 DEF HandlerProofs!IsRequest, s

LEMMA ArriveKeepsInv ==
    ASSUME Inv, NEW r \in ReqIds, Arrive(r)
    PROVE  Inv' /\ UNCHANGED <<enqueued, delivered, rows>>
<1>1. PICK m \in sent : m.req = r /\ Server!Arrive(r, m.body)
  BY DEF Arrive
<1>2. /\ pc' = [pc EXCEPT ![r] = "load"]
      /\ request' = [request EXCEPT ![r] = m.body]
      /\ UNCHANGED <<rows, processed, syncVectors, serverVC, next, toInsert, conflicts, skipped>>
  BY <1>1 DEF Server!Arrive, Server!tables, Server!locals
<1>3. UNCHANGED <<queue, localVC, saver, eventVC, seen, drain, dseen, batch, clock,
                  status, online, enqueued, delivered, sent, post>>
  BY DEF Arrive, phoneVars, wire
<1>4. Sendable' = Sendable /\ Bodies' = Bodies
  BY <1>3, SendableSame DEF Bodies
<1>5. m.body \in Bodies
  BY DEF Inv, WireInv
<1>6. HandlersInv'
  <2>1. HandlerProofs!Arrive(r, m.body)
    BY <1>1 DEF Server!Arrive, HandlerProofs!Arrive, Server!InFlight, HandlerProofs!InFlight,
                Server!Awaiting, HandlerProofs!Awaiting, Server!tables, HandlerProofs!tables,
                Server!locals, HandlerProofs!locals
  <2> QED
    BY <1>5, <2>1, BatchAssumption, BodiesAreRequests, HandlerProofs!ArriveKeepsInv
       DEF Inv, HandlersInv
<1> HIDE DEF Sendable, Bodies
<1>7. PhoneInv'
  BY <1>3, <1>4 DEF Inv, PhoneInv
<1>8. WireInv'
  BY <1>3, <1>4 DEF Inv, WireInv, AnswerMatchesBatch
<1>9. ReceivedInv'
  <2>1. /\ request'[r] = m.body
        /\ \A t \in ReqIds \ {r} : pc'[t] = pc[t] /\ request'[t] = request[t]
    <3>1. DOMAIN pc = ReqIds /\ DOMAIN request = ReqIds
      BY DEF Inv, HandlersInv, HandlerProofs!Inv, HandlerProofs!TypeOK
    <3> QED
      BY <1>2, <3>1
  <2>2. \A t \in ReqIds : pc'[t] # "new" => \E n \in sent' : n.req = t /\ n.body = request'[t]
    BY <1>1, <1>3, <2>1 DEF Inv, ReceivedInv
  <2> QED
    BY <1>2, <1>4, <2>2 DEF Inv, ReceivedInv
<1> QED
  BY <1>2, <1>3, <1>6, <1>7, <1>8, <1>9 DEF Inv

\* The event a handler looks at was made by the phone, with the empty clock.
LEMMA CheckedIsSendable ==
    ASSUME Inv, NEW r \in ReqIds, HandlerProofs!CheckEvent(r)
    PROVE  HandlerProofs!Batch(r)[next[r]] \in Sendable
<1> DEFINE i == next[r]
<1>1. i \in 1..Len(HandlerProofs!Batch(r))
  BY BatchAssumption, HandlerProofs!TurnOfLoop DEF Inv, HandlersInv
<1>2. pc[r] = "check"
  BY DEF HandlerProofs!CheckEvent
<1>3. request[r] \in Bodies
  BY <1>2 DEF Inv, ReceivedInv, WireInv
<1>4. i \in DOMAIN request[r].events /\ HandlerProofs!Batch(r)[i] = request[r].events[i]
  BY <1>1, <1>3, BatchAssumption, BodiesAreRequests, HandlerProofs!BatchIsPrefix
<1>5. request[r].events \in Seq(Sendable)
  BY <1>3 DEF Bodies
<1> HIDE DEF i, Sendable
<1> QED
  BY <1>4, <1>5 DEF i

\* No comparison of empty clocks supersedes an event.
LEMMA EmptyNeverLoses == ~HandlerProofs!happenedBefore(EmptyClock, EmptyClock)
  BY DEF HandlerProofs!happenedBefore, HandlerProofs!compare, HandlerProofs!Dominates,
         HandlerProofs!At, EmptyClock

LEMMA TurnCollects ==
    ASSUME Inv, NEW r \in ReqIds, HandlerProofs!CheckEvent(r)
    PROVE  conflicts' = conflicts /\ toInsert' \in [ReqIds -> Seq(Sendable)]
<1> DEFINE e == HandlerProofs!Batch(r)[next[r]]
<1>1. e \in Sendable /\ e.vc = EmptyClock
  BY CheckedIsSendable, SendableIs
<1>2. serverVC[r] = EmptyClock /\ toInsert \in [ReqIds -> Seq(Sendable)]
  BY DEF Inv, ReceivedInv
<1>3. \/ HandlerProofs!SkipProcessed(r)
      \/ HandlerProofs!happenedBefore(e.vc, serverVC[r])
      \/ HandlerProofs!Accept(r, e)
  BY DEF HandlerProofs!CheckEvent
<1> HIDE DEF e, Sendable
<1>4. conflicts' = conflicts /\ (toInsert' = toInsert \/ toInsert' = [toInsert EXCEPT ![r] = Append(@, e)])
  BY <1>1, <1>2, <1>3, EmptyNeverLoses DEF HandlerProofs!SkipProcessed, HandlerProofs!Accept
<1>5. Append(toInsert[r], e) \in Seq(Sendable)
  BY <1>1, <1>2
<1> QED
  BY <1>2, <1>4, <1>5

\* What one query changes, and that it leaves the clocks empty.
LEMMA ServerStepKeeps ==
    ASSUME Inv, NEW r \in ReqIds, Server!Step(r) \/ Server!QueryFails(r)
    PROVE  /\ HandlersInv'
           /\ request' = request
           /\ pc[r] # "new" /\ \A t \in ReqIds \ {r} : pc'[t] = pc[t]
           /\ UNCHANGED <<syncVectors, serverVC, conflicts>>
           /\ toInsert' \in [ReqIds -> Seq(Sendable)]
           /\ rows' = rows \/ (toInsert' = toInsert /\ rows' = rows \cup HandlerProofs!NewRows(r))
<1>1. \/ HandlerProofs!LoadClock(r) \/ HandlerProofs!CheckEvent(r)
      \/ HandlerProofs!InsertEvents(r) \/ HandlerProofs!InsertRejected(r)
      \/ HandlerProofs!MarkProcessed(r) \/ HandlerProofs!PersistClock(r)
      \/ HandlerProofs!QueryFails(r)
  BY ServerStepIs DEF Server!Step
<1>2. HandlerProofs!Step(r) \/ HandlerProofs!QueryFails(r)
  BY <1>1 DEF HandlerProofs!Step
<1>3. HandlersInv'
  BY <1>2, BatchAssumption, HandlerProofs!StepKeepsInv DEF Inv, HandlersInv
<1>4. /\ pc[r] # "new" /\ request' = request
      /\ \A t \in ReqIds \ {r} : pc'[t] = pc[t]
  BY <1>2, BatchAssumption, HandlerProofs!StepIsOwn DEF Inv, HandlersInv, HandlerProofs!Awaiting
<1>5. /\ syncVectors = [d \in Devices |-> EmptyClock] /\ serverVC = [t \in ReqIds |-> EmptyClock]
      /\ toInsert \in [ReqIds -> Seq(Sendable)]
  BY DEF Inv, ReceivedInv
<1>6. request[r] \in Bodies
  BY <1>4 DEF Inv, ReceivedInv, WireInv
<1>7. CASE HandlerProofs!LoadClock(r)
  <2>1. /\ serverVC' = [serverVC EXCEPT ![r] = syncVectors[request[r].deviceId]]
        /\ UNCHANGED <<rows, syncVectors, toInsert, conflicts>>
    BY <1>7 DEF HandlerProofs!LoadClock, HandlerProofs!tables
  <2>2. syncVectors[request[r].deviceId] = EmptyClock
    BY <1>5, <1>6, PhoneAssumption DEF Bodies
  <2>3. serverVC' = serverVC
    BY <1>5, <2>1, <2>2, StaysEmpty
  <2> QED
    BY <1>3, <1>4, <1>5, <2>1, <2>3
<1>8. CASE HandlerProofs!CheckEvent(r)
  <2>1. UNCHANGED <<rows, syncVectors, serverVC>>
    BY <1>8 DEF HandlerProofs!CheckEvent, HandlerProofs!tables
  <2> QED
    BY <1>3, <1>4, <1>8, <2>1, TurnCollects
<1>9. CASE HandlerProofs!PersistClock(r)
  <2>1. /\ syncVectors' = [syncVectors EXCEPT ![request[r].deviceId] =
                             HandlerProofs!merge(serverVC[r], request[r].clientVectorClock)]
        /\ UNCHANGED <<rows, serverVC, toInsert, conflicts>>
    BY <1>9 DEF HandlerProofs!PersistClock, HandlerProofs!Answer, HandlerProofs!locals
  <2>2. serverVC[r] = EmptyClock /\ request[r].clientVectorClock = EmptyClock
    BY <1>5, <1>6 DEF Bodies
  <2>3. syncVectors' = syncVectors
    BY <1>5, <2>1, <2>2, EmptyMergesInPeers, StaysEmpty
  <2> QED
    BY <1>3, <1>4, <1>5, <2>1, <2>3
<1>10. CASE \/ HandlerProofs!InsertEvents(r) \/ HandlerProofs!InsertRejected(r)
            \/ HandlerProofs!MarkProcessed(r) \/ HandlerProofs!QueryFails(r)
  BY <1>3, <1>4, <1>5, <1>10
     DEF HandlerProofs!InsertEvents, HandlerProofs!InsertRejected, HandlerProofs!MarkProcessed,
         HandlerProofs!QueryFails, HandlerProofs!tables, HandlerProofs!locals
<1> QED
  BY <1>1, <1>7, <1>8, <1>9, <1>10

LEMMA CrashKeeps ==
    ASSUME Inv, Server!Crash
    PROVE  /\ HandlersInv'
           /\ \A r \in ReqIds : pc'[r] # "new" => pc[r] # "new"
           /\ UNCHANGED <<rows, request, syncVectors, serverVC, conflicts, toInsert>>
<1>1. HandlerProofs!Crash
  BY DEF Server!Crash, HandlerProofs!Crash, Server!InFlight, HandlerProofs!InFlight,
         Server!Awaiting, HandlerProofs!Awaiting, Server!tables, HandlerProofs!tables,
         Server!locals, HandlerProofs!locals
<1>2. HandlersInv'
  BY <1>1, BatchAssumption, HandlerProofs!CrashKeepsInv DEF Inv, HandlersInv
<1> QED
  BY <1>1, <1>2 DEF HandlerProofs!Crash, HandlerProofs!InFlight, HandlerProofs!Awaiting,
                    HandlerProofs!tables, HandlerProofs!locals

LEMMA ServerOwnKeepsInv ==
    ASSUME Inv, ServerOwn, UNCHANGED <<phoneVars, wire>>
    PROVE  /\ Inv' /\ UNCHANGED <<enqueued, delivered>>
           /\ \/ rows' = rows
              \/ /\ toInsert \in [ReqIds -> Seq(Sendable)]
                 /\ \E r \in ReqIds : rows' = rows \cup HandlerProofs!NewRows(r)
<1>1. UNCHANGED <<queue, localVC, saver, eventVC, seen, drain, dseen, batch, clock,
                  status, online, enqueued, delivered, sent, post>>
  BY DEF phoneVars, wire
<1>2. Sendable' = Sendable /\ Bodies' = Bodies
  BY <1>1, SendableSame DEF Bodies
<1>3. /\ HandlersInv' /\ request' = request
      /\ \A r \in ReqIds : pc'[r] # "new" => pc[r] # "new"
      /\ UNCHANGED <<syncVectors, serverVC, conflicts>>
      /\ toInsert' \in [ReqIds -> Seq(Sendable)]
      /\ \/ rows' = rows
         \/ \E r \in ReqIds : toInsert' = toInsert /\ rows' = rows \cup HandlerProofs!NewRows(r)
  <2>1. CASE Server!Crash
    BY <2>1, CrashKeeps DEF Inv, ReceivedInv
  <2> QED
    BY <2>1, ServerStepKeeps DEF ServerOwn
<1> HIDE DEF Sendable, Bodies
<1>4. PhoneInv'
  BY <1>1, <1>2 DEF Inv, PhoneInv
<1>5. WireInv'
  BY <1>1, <1>2 DEF Inv, WireInv, AnswerMatchesBatch
<1>6. ReceivedInv'
  BY <1>1, <1>2, <1>3 DEF Inv, ReceivedInv
<1> QED
  BY <1>1, <1>3, <1>4, <1>5, <1>6 DEF Inv, ReceivedInv

LEMMA NextKeepsInv == Inv /\ [Next]_vars => Inv'
<1> SUFFICES ASSUME Inv, [Next]_vars PROVE Inv'
  OBVIOUS
<1>1. CASE UNCHANGED vars
  <2>1. UNCHANGED <<queue, localVC, saver, eventVC, seen, drain, dseen, batch, clock,
                    status, online, enqueued, delivered, sent, post>> /\ UNCHANGED serverVars
    BY <1>1 DEF vars, phoneVars, wire
  <2>2. UNCHANGED <<syncVectors, serverVC, conflicts, toInsert, pc, request>>
    BY <2>1 DEF serverVars
  <2>3. Sendable' = Sendable /\ Bodies' = Bodies
    BY <2>1, SendableSame DEF Bodies
  <2> HIDE DEF Sendable, Bodies
  <2>4. PhoneInv'
    BY <2>1, <2>3 DEF Inv, PhoneInv
  <2>5. WireInv'
    BY <2>1, <2>3 DEF Inv, WireInv, AnswerMatchesBatch
  <2>6. ReceivedInv'
    BY <2>1, <2>2, <2>3 DEF Inv, ReceivedInv
  <2> QED
    BY <2>1, <2>4, <2>5, <2>6, HandlersRest DEF Inv
<1> QED
  BY <1>1, PhoneOwnKeepsInv, KillKeepsInv, SendKeepsInv, ReceiveOkKeepsInv, ReceiveFailKeepsInv,
     ArriveKeepsInv, ServerOwnKeepsInv DEF Next

LEMMA InvHolds == Spec => []Inv
  BY InitInv, NextKeepsInv, PTL DEF Spec

----------------------------------------------------------------------------
(***************************************************************************)
(* Through timeouts, kills, late arrivals and retries, an answer is never  *)
(* credited to another batch than the one its request carried.             *)
(***************************************************************************)
THEOREM AnswersFindTheirBatch == Spec => []AnswerMatchesBatch
<1>1. Inv => AnswerMatchesBatch
  BY DEF Inv, WireInv
<1> QED
  BY <1>1, InvHolds, PTL

(***************************************************************************)
(* With the clocks as the code handles them, processSyncBatch never        *)
(* supersedes an event, however many events, drains and retries there are. *)
(***************************************************************************)
THEOREM NothingIsSuperseded == Spec => []ArbitrationNeverFires
<1>1. Inv => ArbitrationNeverFires
  BY DEF Inv, PhoneInv, ReceivedInv, ArbitrationNeverFires
<1> QED
  BY <1>1, InvHolds, PTL

----------------------------------------------------------------------------
StoredIds == {row.event : row \in rows}

\* The server stores only what the phone made.
LEMMA ServerStores ==
    ASSUME Inv, NEW r \in ReqIds, toInsert \in [ReqIds -> Seq(Sendable)],
           rows' = rows \cup HandlerProofs!NewRows(r)
    PROVE  \E S \in SUBSET EventIds : S \subseteq EverEnqueued /\ StoredIds' = StoredIds \cup S
<1> DEFINE S == {toInsert[r][i].id : i \in DOMAIN toInsert[r]}
<1>1. StoredIds' = StoredIds \cup S
  <2> DEFINE N == HandlerProofs!NewRows(r)
  <2>1. \A row \in N : row.event \in S
    BY DEF HandlerProofs!NewRows
  <2>2. ASSUME NEW i \in DOMAIN toInsert[r] PROVE \E row \in N : row.event = toInsert[r][i].id
    <3>1. [event |-> toInsert[r][i].id, by |-> r, at |-> i] \in N
      BY DEF HandlerProofs!NewRows
    <3> QED
      BY <3>1
  <2>3. \A id \in S : \E row \in N : row.event = id
    BY <2>2
  <2> HIDE DEF N, S
  <2>4. rows' = rows \cup N
    BY DEF N
  <2> QED
    BY <2>1, <2>3, <2>4 DEF StoredIds
<1>2. \A i \in DOMAIN toInsert[r] : toInsert[r][i] \in Sendable
  <2>1. toInsert[r] \in Seq(Sendable)
    OBVIOUS
  <2> HIDE DEF Sendable
  <2> QED
    BY <2>1
<1>3. S \subseteq EverEnqueued /\ EverEnqueued \subseteq EventIds
  BY <1>2, SendableIs
<1> QED
  BY <1>1, <1>3

\* A 200 answer means every event of the batch is stored: the request was answered,
\* nothing in it was superseded, and nothing of it was cut off.
LEMMA AnsweredIsStored ==
    ASSUME Inv, NEW d \in Drains, post[d] # NoPost, pc[post[d]] = "answered"
    PROVE  {batch[d][i].id : i \in DOMAIN batch[d]} \subseteq StoredIds
<1> DEFINE p == post[d]
<1>1. p \in ReqIds /\ request[p].events = batch[d]
  BY AwaitedRequest
<1>2. /\ batch[d] \in Seq(Sendable) /\ Len(batch[d]) <= FlushBatch
  BY DEF Inv, PhoneInv
<1> HIDE DEF p, Sendable
<1>3. HandlerProofs!Batch(p) = batch[d]
  <2>1. Len(batch[d]) \in Nat /\ Len(batch[d]) <= BatchMax
    BY <1>2, SizesAssumption, BatchAssumption
  <2>2. HandlerProofs!Batch(p) = SubSeq(batch[d], 1, Len(batch[d]))
    BY <1>1, <2>1 DEF HandlerProofs!Batch
  <2> QED
    BY <1>2, <2>1, <2>2
<1>4. conflicts[p] = <<>>
  BY <1>1 DEF Inv, ReceivedInv
<1>5. HandlerProofs!AnsweredIsSettled
  BY BatchAssumption, HandlerProofs!InvSettles DEF Inv, HandlersInv
<1>6. ASSUME NEW i \in DOMAIN batch[d] PROVE batch[d][i].id \in StoredIds
  <2>1. HandlerProofs!Stored(batch[d][i].id)
    BY <1>1, <1>3, <1>4, <1>5, EmptySeqIs DEF HandlerProofs!AnsweredIsSettled, p
  <2> QED
    BY <2>1 DEF HandlerProofs!Stored, StoredIds
<1> QED
  BY <1>6

LEMMA StepRefines ==
    ASSUME Inv, [Next]_vars
    PROVE  [Ledger!Next]_(Ledger!ledger)
<1> USE DEF Ledger!ledger, StoredIds
<1>1. CASE UNCHANGED <<enqueued, rows, delivered>>
  BY <1>1 DEF EverEnqueued
<1>2. CASE PhoneOwn /\ UNCHANGED <<serverVars, wire>>
  <2>1. rows' = rows
    BY <1>2 DEF serverVars
  <2>2. /\ delivered' = delivered
        /\ EverEnqueued' = EverEnqueued \/ \E e \in EventIds : EverEnqueued' = EverEnqueued \cup {e}
    BY <1>2, PhoneOwnKeepsPhone DEF Inv
  <2> QED
    BY <2>1, <2>2 DEF Ledger!Next, Ledger!Make
<1>3. ASSUME NEW d \in Drains, ReceiveOk(d) PROVE [Ledger!Next]_(Ledger!ledger)
  <2> DEFINE S == {batch[d][i].id : i \in DOMAIN batch[d]}
  <2>1. /\ delivered' = delivered \cup S /\ post[d] # NoPost /\ pc[post[d]] = "answered"
    BY <1>3 DEF ReceiveOk, Phone!PostOk
  <2>2. S \subseteq StoredIds
    BY <2>1, AnsweredIsStored
  <2>3. S \subseteq EventIds
    <3>1. batch[d] \in Seq(Sendable)
      BY DEF Inv, PhoneInv
    <3>2. \A i \in DOMAIN batch[d] : batch[d][i] \in Sendable
      <4> HIDE DEF Sendable
      <4> QED
        BY <3>1
    <3> QED
      BY <3>2, SendableIs
  <2>4. EverEnqueued' = EverEnqueued /\ rows' = rows
    BY <1>3, ReceiveOkKeepsInv DEF EverEnqueued
  <2> HIDE DEF S
  <2> QED
    BY <2>1, <2>2, <2>3, <2>4 DEF Ledger!Next, Ledger!Ack
<1>4. CASE ServerOwn /\ UNCHANGED <<phoneVars, wire>>
  <2>1. EverEnqueued' = EverEnqueued /\ delivered' = delivered
    BY <1>4, ServerOwnKeepsInv DEF EverEnqueued
  <2>2. rows' = rows \/ \E S \in SUBSET EventIds : S \subseteq EverEnqueued /\ StoredIds' = StoredIds \cup S
    <3> HIDE DEF StoredIds
    <3> QED
      BY <1>4, ServerOwnKeepsInv, ServerStores
  <2> QED
    BY <2>1, <2>2 DEF Ledger!Next, Ledger!Store
<1>5. CASE UNCHANGED vars
  BY <1>1, <1>5 DEF vars, phoneVars, serverVars
<1> QED
  BY <1>1, <1>2, <1>3, <1>4, <1>5, KillKeepsInv, SendKeepsInv, ReceiveFailKeepsInv, ArriveKeepsInv
     DEF Next

(***************************************************************************)
(* The phone and the server implement EventLedger: every step of either is *)
(* a step of the ledger or none, so what is stored was made on the phone   *)
(* and what the phone takes for delivered is stored.                       *)
(***************************************************************************)
THEOREM SyncImplementsLedger == Spec => ImplementsLedger
<1>1. Init => Ledger!Init
  BY DEF Init, Phone!Init, Server!Init, EverEnqueued, Ledger!Init
<1>2. Inv /\ [Next]_vars => [Ledger!Next]_(Ledger!ledger)
  BY StepRefines
<1> QED
  BY <1>1, <1>2, InvHolds, PTL DEF Spec, ImplementsLedger, Ledger!Spec
====
