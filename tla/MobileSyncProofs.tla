---- MODULE MobileSyncProofs ----
(***************************************************************************)
(* Proofs about the sync side of a device, for every set of events,        *)
(* drains, reply clocks and faults, and any positive                       *)
(* OFFLINE_QUEUE_MAX_SIZE and OFFLINE_QUEUE_FLUSH_BATCH_SIZE.              *)
(***************************************************************************)
EXTENDS MobileSync, TLAPS

\* Facts about the clock operations; ClockCausalityProofs says more of them.
LEMMA EmptyIsClock ==
    /\ IsClock(EmptyClock)
    /\ \A d : At(EmptyClock, d) = 0
  BY DEF IsClock, EmptyClock, At

\* merge() is the element-wise maximum, a missing counter being 0.
LEMMA MergeIs ==
    ASSUME NEW v, NEW w, IsClock(v), IsClock(w)
    PROVE  /\ IsClock(merge(v, w))
           /\ \A d : At(merge(v, w), d) =
                        IF At(v, d) <= At(w, d) THEN At(w, d) ELSE At(v, d)
  BY DEF IsClock, At, merge

----------------------------------------------------------------------------
\* What a drain holds: at "writeRest" the batch is still the head of the queue it
\* read, and a drain that has nothing to send holds nothing.
DrainInv(d) ==
    /\ Len(dseen[d]) <= QueueMax
    /\ drain[d] = "writeRest" => batch[d] = SubSeq(dseen[d], 1, BatchLen(dseen[d]))
    /\ drain[d] \in {"off", "readQueue", "saveClock"} => batch[d] = <<>>

Inv == TypeOK /\ QueueIsBounded /\ \A d \in Drains : DrainInv(d)

----------------------------------------------------------------------------
\* Sequences of events: every place holds an event, and whatever is cut out of
\* them or put together from them is one again.
LEMMA EventSeqPlaces ==
    ASSUME NEW s, IsEventSeq(s)
    PROVE  /\ Len(s) \in Nat
           /\ DOMAIN s = 1..Len(s)
           /\ \A i \in 1..Len(s) : IsEvent(s[i])
<1> DEFINE S == {s[i] : i \in DOMAIN s}
<1>1. s \in Seq(S) /\ \A i \in DOMAIN s : IsEvent(s[i])
  BY DEF IsEventSeq
<1> HIDE DEF S
<1> QED
  BY <1>1

LEMMA EventSeqFrom ==
    ASSUME NEW S, NEW s \in Seq(S), \A i \in 1..Len(s) : IsEvent(s[i])
    PROVE  IsEventSeq(s)
<1> DEFINE T == {s[i] : i \in DOMAIN s}
<1>1. Len(s) \in Nat /\ DOMAIN s = 1..Len(s)
  OBVIOUS
<1>2. \A i \in 1..Len(s) : s[i] \in T
  BY <1>1
<1>3. s \in Seq(T)
  <2> HIDE DEF T
  <2> QED
    BY <1>1, <1>2
<1> QED
  BY <1>1, <1>3 DEF IsEventSeq

LEMMA EventSeqCut ==
    ASSUME NEW s, IsEventSeq(s), NEW m \in Nat \ {0}, NEW n \in Nat, n <= Len(s)
    PROVE  /\ IsEventSeq(SubSeq(s, m, n))
           /\ Len(SubSeq(s, m, n)) = IF m <= n THEN n - m + 1 ELSE 0
           /\ \A i \in m..n : /\ i - m + 1 \in 1..Len(SubSeq(s, m, n))
                              /\ SubSeq(s, m, n)[i - m + 1] = s[i]
           /\ Ids(SubSeq(s, m, n)) \subseteq Ids(s)
<1> DEFINE S == {s[i] : i \in DOMAIN s}
           t == SubSeq(s, m, n)
<1>1. Len(s) \in Nat /\ DOMAIN s = 1..Len(s) /\ \A i \in 1..Len(s) : IsEvent(s[i])
  BY EventSeqPlaces
<1>2. s \in Seq(S)
  BY DEF IsEventSeq
<1> HIDE DEF S
<1>3. /\ t \in Seq(S)
      /\ Len(t) = IF m <= n THEN n - m + 1 ELSE 0
      /\ DOMAIN t = 1..Len(t)
      /\ \A i \in 1..Len(t) : t[i] = s[m + i - 1]
  BY <1>1, <1>2
<1> HIDE DEF t
<1>4. \A i \in 1..Len(t) : m + i - 1 \in 1..Len(s)
  BY <1>1, <1>3
<1>5. IsEventSeq(t)
  BY <1>1, <1>3, <1>4, EventSeqFrom
<1>6. \A i \in m..n : i - m + 1 \in 1..Len(t) /\ t[i - m + 1] = s[i]
  BY <1>3
<1>7. Ids(t) \subseteq Ids(s)
  BY <1>1, <1>3, <1>4 DEF Ids
<1> QED
  BY <1>3, <1>5, <1>6, <1>7 DEF t

LEMMA EventSeqConcat ==
    ASSUME NEW s, NEW t, IsEventSeq(s), IsEventSeq(t)
    PROVE  /\ IsEventSeq(s \o t)
           /\ Len(s \o t) = Len(s) + Len(t)
           /\ Ids(s \o t) = Ids(s) \cup Ids(t)
<1> DEFINE S == {s[i] : i \in DOMAIN s} \cup {t[i] : i \in DOMAIN t}
           u == s \o t
<1>1. /\ Len(s) \in Nat /\ DOMAIN s = 1..Len(s) /\ \A i \in 1..Len(s) : IsEvent(s[i])
      /\ Len(t) \in Nat /\ DOMAIN t = 1..Len(t) /\ \A i \in 1..Len(t) : IsEvent(t[i])
  BY EventSeqPlaces
<1>2. s \in Seq(S) /\ t \in Seq(S)
  <2>1. \A i \in 1..Len(s) : s[i] \in S
    BY <1>1
  <2>2. \A i \in 1..Len(t) : t[i] \in S
    BY <1>1
  <2>3. s \in Seq({s[i] : i \in DOMAIN s}) /\ t \in Seq({t[i] : i \in DOMAIN t})
    BY DEF IsEventSeq
  <2> DEFINE R == {s[i] : i \in DOMAIN s}
             Q == {t[i] : i \in DOMAIN t}
  <2>4. s \in Seq(R) /\ t \in Seq(Q)
    BY <2>3
  <2> HIDE DEF R, Q, S
  <2> QED
    BY <1>1, <2>1, <2>2, <2>4
<1> HIDE DEF S
<1>3. /\ u \in Seq(S)
      /\ Len(u) = Len(s) + Len(t)
      /\ DOMAIN u = 1..Len(u)
      /\ \A i \in 1..Len(s) : u[i] = s[i]
      /\ \A i \in 1..Len(t) : u[Len(s) + i] = t[i]
  BY <1>1, <1>2
<1> HIDE DEF u
<1>4. \A i \in 1..Len(u) : i \in 1..Len(s) \/ i - Len(s) \in 1..Len(t)
  BY <1>1, <1>3
<1>5. \A i \in 1..Len(u) : \/ i \in 1..Len(s) /\ u[i] = s[i]
                           \/ i - Len(s) \in 1..Len(t) /\ u[i] = t[i - Len(s)]
  BY <1>1, <1>3, <1>4
<1>6. IsEventSeq(u)
  BY <1>1, <1>3, <1>5, EventSeqFrom
<1>7. Ids(u) = Ids(s) \cup Ids(t)
  <2>1. Ids(u) \subseteq Ids(s) \cup Ids(t)
    BY <1>1, <1>3, <1>5 DEF Ids
  <2>2. \A i \in 1..Len(s) : i \in 1..Len(u)
    BY <1>1, <1>3
  <2>3. \A i \in 1..Len(t) : Len(s) + i \in 1..Len(u)
    BY <1>1, <1>3
  <2>4. Ids(s) \subseteq Ids(u)
    BY <1>1, <1>3, <2>2 DEF Ids
  <2>5. Ids(t) \subseteq Ids(u)
    BY <1>1, <1>3, <2>3 DEF Ids
  <2> QED
    BY <2>1, <2>4, <2>5
<1> QED
  BY <1>3, <1>6, <1>7 DEF u

LEMMA EventSeqAppend ==
    ASSUME NEW s, NEW e, IsEventSeq(s), IsEvent(e)
    PROVE  /\ IsEventSeq(Append(s, e))
           /\ Len(Append(s, e)) = Len(s) + 1
           /\ Ids(Append(s, e)) = Ids(s) \cup {e.id}
<1> DEFINE S == {s[i] : i \in DOMAIN s} \cup {e}
           u == Append(s, e)
<1>1. Len(s) \in Nat /\ DOMAIN s = 1..Len(s) /\ \A i \in 1..Len(s) : IsEvent(s[i])
  BY EventSeqPlaces
<1>2. s \in Seq(S) /\ e \in S
  <2> DEFINE R == {s[i] : i \in DOMAIN s}
  <2>1. s \in Seq(R) /\ R \subseteq S
    BY DEF IsEventSeq
  <2>2. e \in S
    OBVIOUS
  <2> HIDE DEF R, S
  <2> QED
    BY <2>1, <2>2
<1> HIDE DEF S
<1>3. /\ u \in Seq(S)
      /\ Len(u) = Len(s) + 1
      /\ DOMAIN u = 1..Len(s) + 1
      /\ \A i \in 1..Len(s) : u[i] = s[i]
      /\ u[Len(s) + 1] = e
  BY <1>1, <1>2
<1> HIDE DEF u
<1>4. \A i \in 1..Len(s) + 1 : i \in 1..Len(s) \/ i = Len(s) + 1
  BY <1>1
<1>5. IsEventSeq(u)
  BY <1>1, <1>3, <1>4, EventSeqFrom
<1>6. Ids(u) = Ids(s) \cup {e.id}
  <2>1. Ids(u) \subseteq Ids(s) \cup {e.id}
    BY <1>1, <1>3, <1>4 DEF Ids
  <2>2. Ids(s) \subseteq Ids(u) /\ e.id \in Ids(u)
    BY <1>1, <1>3 DEF Ids
  <2> QED
    BY <2>1, <2>2
<1> QED
  BY <1>3, <1>5, <1>6 DEF u

LEMMA EmptyIsEventSeq == IsEventSeq(<<>>) /\ Len(<<>>) = 0 /\ Ids(<<>>) = {}
<1>1. DOMAIN <<>> = {} /\ <<>> \in Seq({<<>>[i] : i \in DOMAIN <<>>}) /\ Len(<<>>) = 0
  OBVIOUS
<1> QED
  BY <1>1 DEF IsEventSeq, Ids

\* slice(-OFFLINE_QUEUE_MAX_SIZE) takes nothing from a queue that fits.
LEMMA TrimIs ==
    ASSUME NEW s, IsEventSeq(s)
    PROVE  /\ IsEventSeq(Trim(s))
           /\ Len(Trim(s)) <= QueueMax
           /\ Len(s) <= QueueMax => Trim(s) = s
<1>1. Len(s) \in Nat /\ QueueMax \in Nat \ {0}
  BY EventSeqPlaces, SizesAssumption
<1>2. CASE Len(s) <= QueueMax
  BY <1>1, <1>2 DEF Trim
<1>3. CASE Len(s) > QueueMax
  <2> DEFINE m == Len(s) - QueueMax + 1
  <2>1. m \in Nat \ {0} /\ m <= Len(s) /\ Len(s) - m + 1 = QueueMax
    BY <1>1, <1>3
  <2>2. Trim(s) = SubSeq(s, m, Len(s))
    BY <1>3 DEF Trim
  <2> HIDE DEF m
  <2>3. IsEventSeq(Trim(s)) /\ Len(Trim(s)) = QueueMax
    BY <1>1, <2>1, <2>2, EventSeqCut
  <2> QED
    BY <1>1, <1>3, <2>3
<1> QED
  BY <1>1, <1>2, <1>3

\* dequeueBatch splits the queue it read: no event is in neither part.
LEMMA SplitKeepsAll ==
    ASSUME NEW s, IsEventSeq(s)
    PROVE  LET b == SubSeq(s, 1, BatchLen(s)) IN
           /\ IsEventSeq(b) /\ Len(b) = BatchLen(s) /\ Len(b) <= FlushBatch
           /\ IsEventSeq(SubSeq(s, Len(b) + 1, Len(s)))
           /\ Len(SubSeq(s, Len(b) + 1, Len(s))) <= Len(s)
           /\ Ids(s) \subseteq Ids(b) \cup Ids(SubSeq(s, Len(b) + 1, Len(s)))
<1> DEFINE n == BatchLen(s)
           b == SubSeq(s, 1, n)
           c == SubSeq(s, n + 1, Len(s))
<1>1. Len(s) \in Nat /\ DOMAIN s = 1..Len(s)
  BY EventSeqPlaces
<1>2. n \in Nat /\ n <= Len(s) /\ n <= FlushBatch
  BY <1>1, SizesAssumption DEF BatchLen
<1> HIDE DEF n
<1>3. /\ IsEventSeq(b) /\ Len(b) = n
      /\ \A i \in 1..n : i \in 1..Len(b) /\ b[i] = s[i]
  BY <1>1, <1>2, EventSeqCut
<1>4. /\ IsEventSeq(c) /\ Len(c) <= Len(s)
      /\ \A i \in n + 1..Len(s) : i - n \in 1..Len(c) /\ c[i - n] = s[i]
  <2>1. n + 1 \in Nat \ {0} /\ Len(s) <= Len(s)
    BY <1>1, <1>2
  <2>2. /\ IsEventSeq(c)
        /\ Len(c) = IF n + 1 <= Len(s) THEN Len(s) - (n + 1) + 1 ELSE 0
        /\ \A i \in n + 1..Len(s) : /\ i - (n + 1) + 1 \in 1..Len(c)
                                    /\ c[i - (n + 1) + 1] = s[i]
    BY <1>1, <2>1, EventSeqCut
  <2> HIDE DEF c
  <2>3. Len(c) <= Len(s)
    <3>1. CASE n + 1 <= Len(s)
      BY <1>1, <1>2, <2>2, <3>1
    <3>2. CASE ~(n + 1 <= Len(s))
      <4>1. Len(c) = 0
        BY <2>2, <3>2
      <4> QED
        BY <1>1, <4>1
    <3> QED
      BY <3>1, <3>2
  <2>4. ASSUME NEW i \in n + 1..Len(s) PROVE i - n \in 1..Len(c) /\ c[i - n] = s[i]
    <3>1. i - (n + 1) + 1 = i - n
      BY <1>1, <1>2
    <3>2. i - (n + 1) + 1 \in 1..Len(c) /\ c[i - (n + 1) + 1] = s[i]
      BY <2>2
    <3> QED
      BY <3>1, <3>2
  <2> QED
    BY <2>2, <2>3, <2>4
<1>5. DOMAIN b = 1..Len(b) /\ DOMAIN c = 1..Len(c)
  BY <1>3, <1>4, EventSeqPlaces
<1> HIDE DEF b, c
<1>6. Ids(s) \subseteq Ids(b) \cup Ids(c)
  BY <1>1, <1>2, <1>3, <1>4, <1>5 DEF Ids
<1> QED
  BY <1>2, <1>3, <1>4, <1>6 DEF b, c, n

----------------------------------------------------------------------------
LEMMA InitInv == Init => Inv
<1> SUFFICES ASSUME Init PROVE Inv
  OBVIOUS
<1>1. QueueMax \in Nat /\ FlushBatch \in Nat /\ 0 <= QueueMax /\ 0 <= FlushBatch
  BY SizesAssumption
<1>2. enqueued \in Seq(EventIds)
  BY DEF Init
<1>3. TypeOK /\ QueueIsBounded
  BY <1>1, <1>2, EmptyIsClock, EmptyIsEventSeq DEF Init, TypeOK, QueueIsBounded
<1>4. \A d \in Drains : DrainInv(d)
  BY <1>1, EmptyIsEventSeq DEF Init, DrainInv
<1> QED
  BY <1>3, <1>4 DEF Inv

\* What getItem may answer.
LEMMA ReadsAreTyped ==
    ASSUME Inv
    PROVE  /\ \A q \in QueueReads : IsEventSeq(q) /\ Len(q) <= QueueMax
           /\ \A vc \in ClockReads : IsClock(vc)
<1>1. 0 <= QueueMax
  BY SizesAssumption
<1> QED
  BY <1>1, EmptyIsClock, EmptyIsEventSeq DEF Inv, TypeOK, QueueIsBounded, QueueReads, ClockReads

\* A drain that starts, and one that ends, leave the others alone.
LEMMA BeginDrainKeepsInv ==
    ASSUME Inv, NEW d \in Drains, BeginDrain(d)
    PROVE  /\ drain' \in [Drains -> {"off", "readQueue", "writeRest", "readClock", "post",
                                     "saveClock", "writeBack"}]
           /\ status' \in {"idle", "syncing", "error", "offline"}
           /\ \A c \in Drains : DrainInv(c)'
<1>1. /\ drain[d] = "off" /\ drain' = [drain EXCEPT ![d] = "readQueue"]
      /\ status' = "syncing" /\ dseen' = dseen /\ batch' = batch
  BY DEF BeginDrain
<1> QED
  BY <1>1 DEF Inv, TypeOK, QueueIsBounded, DrainInv

LEMMA EndDrainKeepsInv ==
    ASSUME Inv, NEW d \in Drains, NEW st \in {"idle", "syncing", "error", "offline"},
           EndDrain(d, st)
    PROVE  /\ drain' \in [Drains -> {"off", "readQueue", "writeRest", "readClock", "post",
                                     "saveClock", "writeBack"}]
           /\ DOMAIN dseen' = Drains /\ \A c \in Drains : IsEventSeq(dseen'[c])
           /\ DOMAIN batch' = Drains
           /\ \A c \in Drains : IsEventSeq(batch'[c]) /\ Len(batch'[c]) <= FlushBatch
           /\ DOMAIN clock' = Drains /\ \A c \in Drains : IsClock(clock'[c])
           /\ status' \in {"idle", "syncing", "error", "offline"}
           /\ \A c \in Drains : DrainInv(c)'
<1>1. /\ drain' = [drain EXCEPT ![d] = "off"] /\ dseen' = [dseen EXCEPT ![d] = <<>>]
      /\ batch' = [batch EXCEPT ![d] = <<>>] /\ clock' = [clock EXCEPT ![d] = EmptyClock]
      /\ status' = st
  BY DEF EndDrain
<1>2. 0 <= QueueMax /\ 0 <= FlushBatch
  BY SizesAssumption
<1>3. \A c \in Drains \ {d} : /\ drain'[c] = drain[c] /\ dseen'[c] = dseen[c]
                              /\ batch'[c] = batch[c] /\ clock'[c] = clock[c]
  BY <1>1 DEF Inv, TypeOK, QueueIsBounded
<1>4. /\ drain'[d] = "off" /\ dseen'[d] = <<>> /\ batch'[d] = <<>> /\ clock'[d] = EmptyClock
  BY <1>1 DEF Inv, TypeOK, QueueIsBounded
<1>5. \A c \in Drains : DrainInv(c)'
  BY <1>2, <1>3, <1>4, EmptyIsEventSeq DEF Inv, DrainInv
<1> QED
  BY <1>1, <1>2, <1>3, <1>4, <1>5, EmptyIsEventSeq, EmptyIsClock DEF Inv, TypeOK, QueueIsBounded

\* Steps of a saver up to its write.
LEMMA SavingKeepsInv ==
    ASSUME Inv, NEW e \in EventIds, Save(e) \/ SaveFails(e) \/ MakeEvent(e) \/ EnqueueFails(e)
    PROVE  Inv'
<1>1. UNCHANGED <<queue, localVC, drain, dseen, batch, clock, status, online, enqueued, delivered>>
  BY DEF Save, SaveFails, MakeEvent, EnqueueFails, storage, draining
<1>2. \A d \in Drains : DrainInv(d)'
  BY <1>1 DEF Inv, DrainInv
<1>3. saver' \in [EventIds -> {"idle", "saving", "writing", "queued", "dropped"}]
  BY DEF Save, SaveFails, MakeEvent, EnqueueFails, Inv, TypeOK, QueueIsBounded
<1>4. DOMAIN eventVC' = EventIds /\ \A x \in EventIds : IsClock(eventVC'[x])
  <2>1. CASE eventVC' = eventVC
    BY <2>1 DEF Inv, TypeOK, QueueIsBounded
  <2>2. CASE \E vc \in ClockReads : eventVC' = [eventVC EXCEPT ![e] = vc]
    BY <2>2, ReadsAreTyped DEF Inv, TypeOK, QueueIsBounded
  <2> QED
    BY <2>1, <2>2 DEF Save, SaveFails, MakeEvent, EnqueueFails
<1>5. DOMAIN seen' = EventIds /\ \A x \in EventIds : IsEventSeq(seen'[x])
  <2>1. CASE seen' = seen
    BY <2>1 DEF Inv, TypeOK, QueueIsBounded
  <2>2. CASE \E q \in QueueReads : seen' = [seen EXCEPT ![e] = q]
    BY <2>2, ReadsAreTyped DEF Inv, TypeOK, QueueIsBounded
  <2>3. CASE seen' = [seen EXCEPT ![e] = <<>>]
    BY <2>3, EmptyIsEventSeq DEF Inv, TypeOK, QueueIsBounded
  <2> QED
    BY <2>1, <2>2, <2>3 DEF Save, SaveFails, MakeEvent, EnqueueFails
<1> QED
  BY <1>1, <1>2, <1>3, <1>4, <1>5 DEF Inv, TypeOK, QueueIsBounded

LEMMA EnqueueWriteKeepsInv ==
    ASSUME Inv, NEW e \in EventIds, NEW d \in Drains, EnqueueWrite(e, d)
    PROVE  Inv'
<1> DEFINE ev == [id |-> e, vc |-> eventVC[e]]
<1>1. /\ queue' = Trim(Append(seen[e], ev))
      /\ saver' = [saver EXCEPT ![e] = "queued"]
      /\ seen' = [seen EXCEPT ![e] = <<>>]
      /\ enqueued' = Append(enqueued, e)
      /\ BeginDrain(d)
      /\ UNCHANGED <<localVC, eventVC, dseen, batch, clock, online, delivered>>
  BY DEF EnqueueWrite, BeginDrain
<1>2. IsEvent(ev) /\ IsEventSeq(seen[e])
  BY DEF Inv, TypeOK, QueueIsBounded, IsEvent
<1> HIDE DEF ev
<1>3. IsEventSeq(queue') /\ Len(queue') <= QueueMax
  BY <1>1, <1>2, EventSeqAppend, TrimIs
<1>4. DOMAIN seen' = EventIds /\ \A x \in EventIds : IsEventSeq(seen'[x])
  BY <1>1, EmptyIsEventSeq DEF Inv, TypeOK, QueueIsBounded
<1>5. enqueued' \in Seq(EventIds)
  BY <1>1 DEF Inv, TypeOK, QueueIsBounded
<1>6. saver' \in [EventIds -> {"idle", "saving", "writing", "queued", "dropped"}]
  BY <1>1 DEF Inv, TypeOK, QueueIsBounded
<1> QED
  BY <1>1, <1>3, <1>4, <1>5, <1>6, BeginDrainKeepsInv DEF Inv, TypeOK, QueueIsBounded

LEMMA DequeueReadKeepsInv ==
    ASSUME Inv, NEW d \in Drains, DequeueRead(d)
    PROVE  Inv'
<1>1. UNCHANGED <<queue, localVC, saver, eventVC, seen, online, enqueued, delivered>>
  BY DEF DequeueRead, storage, saving
<1>2. CASE EndDrain(d, "idle")
  BY <1>1, <1>2, EndDrainKeepsInv DEF Inv, TypeOK, QueueIsBounded
<1>3. ASSUME NEW q \in QueueReads,
             dseen' = [dseen EXCEPT ![d] = q],
             batch' = [batch EXCEPT ![d] = SubSeq(q, 1, BatchLen(q))],
             drain' = [drain EXCEPT ![d] = "writeRest"],
             UNCHANGED <<clock, status>>
      PROVE  Inv'
  <2>1. IsEventSeq(q) /\ Len(q) <= QueueMax
    BY ReadsAreTyped
  <2> DEFINE b == SubSeq(q, 1, BatchLen(q))
  <2>2. IsEventSeq(b) /\ Len(b) <= FlushBatch
    BY <2>1, SplitKeepsAll
  <2> HIDE DEF b
  <2>3. dseen'[d] = q /\ batch'[d] = b /\ drain'[d] = "writeRest"
    BY <1>3 DEF b, Inv, TypeOK, QueueIsBounded
  <2>4. \A c \in Drains \ {d} : dseen'[c] = dseen[c] /\ batch'[c] = batch[c] /\ drain'[c] = drain[c]
    BY <1>3 DEF Inv, TypeOK, QueueIsBounded
  <2>5. DrainInv(d)'
    BY <2>1, <2>3 DEF DrainInv, b
  <2>6. \A c \in Drains \ {d} : DrainInv(c)'
    BY <2>4 DEF Inv, DrainInv
  <2> QED
    BY <1>1, <1>3, <2>1, <2>2, <2>3, <2>4, <2>5, <2>6 DEF Inv, TypeOK, QueueIsBounded
<1> QED
  BY <1>2, <1>3 DEF DequeueRead

LEMMA DequeueWriteKeepsInv ==
    ASSUME Inv, NEW d \in Drains, DequeueWrite(d)
    PROVE  Inv'
<1>1. /\ drain[d] = "writeRest"
      /\ queue' = SubSeq(dseen[d], Len(batch[d]) + 1, Len(dseen[d]))
      /\ drain' = [drain EXCEPT ![d] = "readClock"]
      /\ dseen' = [dseen EXCEPT ![d] = <<>>]
      /\ UNCHANGED <<localVC, saver, eventVC, seen, batch, clock, status, online, enqueued,
                     delivered>>
  BY DEF DequeueWrite, saving
<1>2. /\ IsEventSeq(dseen[d]) /\ Len(dseen[d]) <= QueueMax
      /\ batch[d] = SubSeq(dseen[d], 1, BatchLen(dseen[d]))
  BY <1>1 DEF Inv, TypeOK, QueueIsBounded, DrainInv
<1>3. IsEventSeq(queue') /\ Len(queue') <= QueueMax
  <2>1. IsEventSeq(queue') /\ Len(queue') <= Len(dseen[d])
    BY <1>1, <1>2, SplitKeepsAll
  <2> QED
    BY <1>2, <2>1, EventSeqPlaces, SizesAssumption
<1>4. 0 <= QueueMax
  BY SizesAssumption
<1>5. /\ dseen'[d] = <<>> /\ drain'[d] = "readClock"
      /\ \A c \in Drains \ {d} : dseen'[c] = dseen[c] /\ drain'[c] = drain[c]
  BY <1>1 DEF Inv, TypeOK, QueueIsBounded
<1>6. \A c \in Drains : DrainInv(c)'
  BY <1>1, <1>4, <1>5, EmptyIsEventSeq DEF Inv, DrainInv
<1> QED
  BY <1>1, <1>3, <1>5, <1>6, EmptyIsEventSeq DEF Inv, TypeOK, QueueIsBounded

\* The clock is read, merged with the answer and saved; the batch is delivered.
LEMMA ClockStepsKeepInv ==
    ASSUME Inv, NEW d \in Drains,
           ReadClock(d) \/ SaveClock(d) \/ \E vc \in ReplyClocks : PostOk(d, vc)
    PROVE  Inv'
<1>1. CASE ReadClock(d)
  <2>1. /\ UNCHANGED <<queue, localVC, saver, eventVC, seen, dseen, batch, status, online,
                       enqueued, delivered>>
        /\ drain' = [drain EXCEPT ![d] = "post"]
    BY <1>1 DEF ReadClock, storage, saving
  <2>2. DOMAIN clock' = Drains /\ \A c \in Drains : IsClock(clock'[c])
    BY <1>1, ReadsAreTyped DEF ReadClock, Inv, TypeOK, QueueIsBounded
  <2> QED
    BY <2>1, <2>2 DEF Inv, TypeOK, QueueIsBounded, DrainInv
<1>2. CASE SaveClock(d)
  <2>1. /\ drain[d] = "saveClock" /\ localVC' = clock[d]
        /\ drain' = [drain EXCEPT ![d] = "readQueue"]
        /\ clock' = [clock EXCEPT ![d] = EmptyClock]
        /\ UNCHANGED <<queue, saver, eventVC, seen, dseen, batch, status, online, enqueued,
                       delivered>>
    BY <1>2 DEF SaveClock, saving
  <2> QED
    BY <2>1, EmptyIsClock DEF Inv, TypeOK, QueueIsBounded, DrainInv
<1>3. ASSUME NEW vc \in ReplyClocks, PostOk(d, vc) PROVE Inv'
  <2>1. /\ clock' = [clock EXCEPT ![d] = merge(clock[d], vc)]
        /\ delivered' = delivered \cup {batch[d][i].id : i \in DOMAIN batch[d]}
        /\ batch' = [batch EXCEPT ![d] = <<>>]
        /\ drain' = [drain EXCEPT ![d] = "saveClock"]
        /\ UNCHANGED <<queue, localVC, saver, eventVC, seen, dseen, status, online, enqueued>>
    BY <1>3 DEF PostOk, storage, saving
  <2>2. IsClock(merge(clock[d], vc))
    BY ReplyAssumption, MergeIs DEF Inv, TypeOK, QueueIsBounded
  <2>3. \A i \in DOMAIN batch[d] : batch[d][i].id \in EventIds
    BY DEF Inv, TypeOK, QueueIsBounded, IsEventSeq, IsEvent
  <2>4. delivered' \subseteq EventIds
    BY <2>1, <2>3 DEF Inv, TypeOK, QueueIsBounded
  <2>5. DOMAIN clock' = Drains /\ \A c \in Drains : IsClock(clock'[c])
    BY <2>1, <2>2 DEF Inv, TypeOK, QueueIsBounded
  <2>6. /\ batch'[d] = <<>> /\ drain'[d] = "saveClock"
        /\ \A c \in Drains \ {d} : batch'[c] = batch[c] /\ drain'[c] = drain[c]
    BY <2>1 DEF Inv, TypeOK, QueueIsBounded
  <2>7. \A c \in Drains : DrainInv(c)'
    BY <2>1, <2>6 DEF Inv, DrainInv
  <2>8. 0 <= FlushBatch
    BY SizesAssumption
  <2> QED
    BY <2>1, <2>4, <2>5, <2>6, <2>7, <2>8, EmptyIsEventSeq DEF Inv, TypeOK, QueueIsBounded
<1> QED
  BY <1>1, <1>2, <1>3

\* A failed POST, the batch put back, and a drain that gives up.
LEMMA FailingKeepsInv ==
    ASSUME Inv, NEW d \in Drains, PostFail(d) \/ WriteBack(d) \/ DrainWriteFails(d)
    PROVE  Inv'
<1>1. CASE PostFail(d)
  <2>1. /\ drain' = [drain EXCEPT ![d] = "writeBack"]
        /\ UNCHANGED <<queue, localVC, saver, eventVC, seen, batch, clock, status, online,
                       enqueued, delivered>>
    BY <1>1 DEF PostFail, storage, saving
  <2>2. PICK q \in QueueReads : dseen' = [dseen EXCEPT ![d] = q]
    BY <1>1 DEF PostFail
  <2>3. IsEventSeq(q) /\ Len(q) <= QueueMax
    BY ReadsAreTyped
  <2>4. /\ dseen'[d] = q /\ drain'[d] = "writeBack"
        /\ \A c \in Drains \ {d} : dseen'[c] = dseen[c] /\ drain'[c] = drain[c]
    BY <2>1, <2>2 DEF Inv, TypeOK, QueueIsBounded
  <2>5. \A c \in Drains : DrainInv(c)'
    BY <2>1, <2>3, <2>4 DEF Inv, DrainInv
  <2> QED
    BY <2>1, <2>2, <2>3, <2>4, <2>5 DEF Inv, TypeOK, QueueIsBounded
<1>2. CASE WriteBack(d)
  <2>1. /\ queue' = Trim(dseen[d] \o batch[d])
        /\ EndDrain(d, "error")
        /\ UNCHANGED <<localVC, saver, eventVC, seen, online, enqueued, delivered>>
    BY <1>2 DEF WriteBack, saving
  <2>2. IsEventSeq(dseen[d]) /\ IsEventSeq(batch[d])
    BY DEF Inv, TypeOK, QueueIsBounded
  <2>3. IsEventSeq(queue') /\ Len(queue') <= QueueMax
    BY <2>1, <2>2, EventSeqConcat, TrimIs
  <2> QED
    BY <2>1, <2>3, EndDrainKeepsInv DEF Inv, TypeOK, QueueIsBounded
<1>3. CASE DrainWriteFails(d)
  <2>1. /\ EndDrain(d, "error")
        /\ UNCHANGED <<queue, localVC, saver, eventVC, seen, online, enqueued, delivered>>
    BY <1>3 DEF DrainWriteFails, storage, saving
  <2> QED
    BY <2>1, EndDrainKeepsInv DEF Inv, TypeOK, QueueIsBounded
<1> QED
  BY <1>1, <1>2, <1>3

LEMMA KillKeepsInv ==
    ASSUME Inv, Kill
    PROVE  Inv'
<1>1. 0 <= QueueMax /\ 0 <= FlushBatch
  BY SizesAssumption
<1>2. UNCHANGED <<queue, localVC, eventVC, enqueued, delivered>>
  BY DEF Kill, storage
<1>3. saver' \in [EventIds -> {"idle", "saving", "writing", "queued", "dropped"}]
  BY DEF Kill, Inv, TypeOK, QueueIsBounded
<1>4. \A d \in Drains : DrainInv(d)'
  BY <1>1, EmptyIsEventSeq DEF Kill, DrainInv
<1> QED
  BY <1>1, <1>2, <1>3, <1>4, EmptyIsEventSeq, EmptyIsClock DEF Kill, Inv, TypeOK, QueueIsBounded

LEMMA NetworkKeepsInv ==
    ASSUME Inv, Mount \/ GoOffline \/ \E d \in Drains : ManualSync(d) \/ GoOnline(d)
    PROVE  Inv'
<1>1. CASE Mount \/ GoOffline
  BY <1>1 DEF Mount, GoOffline, storage, saving, draining, Inv, TypeOK, QueueIsBounded, DrainInv
<1>2. ASSUME NEW d \in Drains, ManualSync(d) \/ GoOnline(d), BeginDrain(d) PROVE Inv'
  <2>1. /\ online' \in {online, "yes"}
        /\ UNCHANGED <<queue, localVC, saver, eventVC, seen, dseen, batch, clock, enqueued,
                       delivered>>
    BY <1>2 DEF ManualSync, GoOnline, BeginDrain, storage, saving
  <2> QED
    BY <1>2, <2>1, BeginDrainKeepsInv DEF Inv, TypeOK, QueueIsBounded
<1>3. ASSUME NEW d \in Drains, GoOnline(d), UNCHANGED <<draining, status>> PROVE Inv'
  BY <1>3 DEF GoOnline, storage, saving, draining, Inv, TypeOK, QueueIsBounded, DrainInv
<1> QED
  BY <1>1, <1>2, <1>3 DEF ManualSync, GoOnline

LEMMA NextKeepsInv == Inv /\ [Next]_vars => Inv'
<1> SUFFICES ASSUME Inv, [Next]_vars PROVE Inv'
  OBVIOUS
<1>1. CASE User \/ Mount
  BY <1>1, SavingKeepsInv, NetworkKeepsInv, KillKeepsInv DEF User
<1>2. ASSUME NEW e \in EventIds, SaverStep(e) PROVE Inv'
  BY <1>2, SavingKeepsInv, EnqueueWriteKeepsInv DEF SaverStep
<1>3. ASSUME NEW d \in Drains, Local(d) PROVE Inv'
  BY <1>3, DequeueReadKeepsInv, DequeueWriteKeepsInv, ClockStepsKeepInv, FailingKeepsInv DEF Local
<1>4. ASSUME NEW d \in Drains, Answered(d) PROVE Inv'
  BY <1>4, ClockStepsKeepInv, FailingKeepsInv DEF Answered
<1>5. CASE UNCHANGED vars
  BY <1>5 DEF vars, storage, saving, draining, Inv, TypeOK, QueueIsBounded, DrainInv
<1> QED
  BY <1>1, <1>2, <1>3, <1>4, <1>5 DEF Next

LEMMA InvHolds == Spec => []Inv
  BY InitInv, NextKeepsInv, PTL DEF Spec

\* The type invariant of the device.
THEOREM TypeCorrect == Spec => []TypeOK
<1>1. Inv => TypeOK
  BY DEF Inv
<1> QED
  BY <1>1, InvHolds, PTL

(***************************************************************************)
(* The stored queue never exceeds its maximum and no batch the flush size, *)
(* through any overlap of savers and drains, kills and storage that        *)
(* throws, for any two sizes (enqueue, dequeueBatch).                      *)
(***************************************************************************)
THEOREM QueueStaysBounded == Spec => []QueueIsBounded
<1>1. Inv => QueueIsBounded
  BY DEF Inv
<1> QED
  BY <1>1, InvHolds, PTL

----------------------------------------------------------------------------
\* 'idle' over a queue with events is never the last word: some drain goes on.
IdleInv ==
    /\ "storage" \notin faults /\ online # "starting"
    /\ status = "idle" /\ \A d \in Drains : drain[d] = "off"
    => queue = <<>>

LEMMA NextKeepsIdle ==
    ASSUME Inv, IdleInv, Next
    PROVE  IdleInv'
<1>1. faults' = faults
  BY DEF Next
<1>2. drain \in [Drains -> {"off", "readQueue", "writeRest", "readClock", "post",
                            "saveClock", "writeBack"}]
  BY DEF Inv, TypeOK, QueueIsBounded
<1>3. ASSUME UNCHANGED <<queue, drain, status>>, online # "starting" \/ online' = online
      PROVE  IdleInv'
  BY <1>1, <1>3 DEF IdleInv
<1>4. ASSUME status' \in {"syncing", "error", "offline"} PROVE IdleInv'
  BY <1>4 DEF IdleInv
<1>5. ASSUME NEW d \in Drains, drain'[d] # "off" PROVE IdleInv'
  BY <1>5 DEF IdleInv
<1>6. ASSUME NEW e \in EventIds, Save(e) \/ SaveFails(e) \/ MakeEvent(e) \/ EnqueueFails(e)
      PROVE  IdleInv'
  BY <1>3, <1>6 DEF Save, SaveFails, MakeEvent, EnqueueFails, storage, draining
<1>7. ASSUME NEW d \in Drains, BeginDrain(d) PROVE IdleInv'
  BY <1>4, <1>7 DEF BeginDrain
<1>8. ASSUME NEW d \in Drains, EndDrain(d, "error") PROVE IdleInv'
  BY <1>4, <1>8 DEF EndDrain
<1>9. ASSUME NEW d \in Drains, DequeueRead(d) PROVE IdleInv'
  <2>1. queue' = queue /\ online' = online
    BY <1>9 DEF DequeueRead, storage
  <2>2. PICK q \in QueueReads :
           \/ q = <<>>
           \/ drain' = [drain EXCEPT ![d] = "writeRest"]
    BY <1>9 DEF DequeueRead
  <2>3. "storage" \notin faults => q = queue
    BY DEF QueueReads
  <2>4. CASE q = <<>>
    BY <1>1, <2>1, <2>3, <2>4 DEF IdleInv
  <2>5. CASE drain' = [drain EXCEPT ![d] = "writeRest"]
    BY <1>2, <1>5, <2>5
  <2> QED
    BY <2>2, <2>4, <2>5
<1>10. ASSUME NEW d \in Drains, DequeueWrite(d) \/ ReadClock(d) \/ SaveClock(d) \/ PostFail(d)
              \/ \E vc \in ReplyClocks : PostOk(d, vc)
       PROVE  IdleInv'
  BY <1>2, <1>5, <1>10 DEF DequeueWrite, ReadClock, SaveClock, PostFail, PostOk
<1>11. CASE User \/ Mount
  <2>1. ASSUME NEW d \in Drains, GoOnline(d), UNCHANGED <<draining, status>> PROVE IdleInv'
    BY <1>3, <2>1 DEF GoOnline, draining, storage
  <2>2. Kill => IdleInv'
    BY DEF Kill, IdleInv
  <2> QED
    BY <1>4, <1>6, <1>7, <1>11, <2>1, <2>2 DEF User, Mount, ManualSync, GoOnline, GoOffline
<1>12. ASSUME NEW e \in EventIds, SaverStep(e) PROVE IdleInv'
  BY <1>6, <1>7, <1>12 DEF SaverStep, EnqueueWrite
<1>13. ASSUME NEW d \in Drains, Local(d) \/ Answered(d) PROVE IdleInv'
  BY <1>8, <1>9, <1>10, <1>13 DEF Local, Answered, WriteBack, DrainWriteFails
<1> QED
  BY <1>11, <1>12, <1>13 DEF Next

(***************************************************************************)
(* When AsyncStorage works, 'idle' with nothing under way means an empty   *)
(* queue, however drains overlap.  (A save about to write does not matter: *)
(* it starts a drain with the write.)                                      *)
(***************************************************************************)
THEOREM IdleIsDrained == Spec => []IdleMeansDrained
<1>1. Init => IdleInv
  BY DEF Init, IdleInv
<1>2. Inv /\ IdleInv /\ [Next]_vars => IdleInv'
  <2>1. CASE UNCHANGED vars
    BY <2>1 DEF vars, storage, draining, IdleInv
  <2> QED
    BY <2>1, NextKeepsIdle
<1>3. IdleInv => IdleMeansDrained
  BY DEF IdleInv, IdleMeansDrained, AllQuiet
<1> QED
  BY <1>1, <1>2, <1>3, InvHolds, PTL DEF Spec

----------------------------------------------------------------------------
\* One step of the property, as a formula of its own.
Explained(e) == Kept(e) /\ ~Kept(e)' => StaleWrite \/ Overflow \/ StorageThrew \/ Kill

\* Nothing is lost by a step that takes no event from where it was.
LEMMA KeptInPlace ==
    ASSUME NEW e \in EventIds,
           e \in Ids(queue) => Kept(e)',
           saver[e] = "writing" => Kept(e)',
           \A d \in Drains : e \in Ids(batch[d]) => Kept(e)',
           delivered \subseteq delivered'
    PROVE  Explained(e)
  BY DEF Explained, Kept

LEMMA EnqueueWriteExplained ==
    ASSUME Inv, NEW e \in EventIds, NEW d \in Drains, EnqueueWrite(e, d),
           NEW x \in EventIds
    PROVE  Explained(x)
<1> DEFINE ev == [id |-> e, vc |-> eventVC[e]]
<1>1. /\ saver[e] = "writing"
      /\ queue' = Trim(Append(seen[e], ev))
      /\ saver' = [saver EXCEPT ![e] = "queued"]
      /\ batch' = batch /\ delivered' = delivered
  BY DEF EnqueueWrite, BeginDrain
<1>2. IsEvent(ev) /\ IsEventSeq(seen[e]) /\ ev.id = e
  BY DEF Inv, TypeOK, QueueIsBounded, IsEvent
<1> HIDE DEF ev
<1>3. saver'[e] = "queued" /\ \A y \in EventIds \ {e} : saver'[y] = saver[y]
  BY <1>1 DEF Inv, TypeOK, QueueIsBounded
<1>4. SaverWrites(e)
  BY <1>1, <1>3 DEF SaverWrites
<1>5. CASE seen[e] # queue
  BY <1>4, <1>5 DEF Explained, StaleWrite
<1>6. CASE Len(seen[e]) >= QueueMax
  BY <1>4, <1>6 DEF Explained, Overflow
<1>7. CASE seen[e] = queue /\ ~(Len(seen[e]) >= QueueMax)
  <2>1. Len(seen[e]) + 1 <= QueueMax
    BY <1>2, <1>7, EventSeqPlaces, SizesAssumption
  <2> DEFINE longer == Append(queue, ev)
  <2>2. /\ IsEventSeq(longer) /\ Len(longer) <= QueueMax
        /\ Ids(longer) = Ids(queue) \cup {e}
        /\ queue' = Trim(longer)
    BY <1>1, <1>2, <1>7, <2>1, EventSeqAppend
  <2> HIDE DEF longer
  <2>3. Ids(queue') = Ids(queue) \cup {e}
    BY <2>2, TrimIs
  <2> QED
    BY <1>1, <1>3, <2>3, KeptInPlace DEF Kept
<1> QED
  BY <1>5, <1>6, <1>7

LEMMA DequeueExplained ==
    ASSUME Inv, NEW d \in Drains, DequeueRead(d) \/ DequeueWrite(d),
           NEW x \in EventIds
    PROVE  Explained(x)
<1>1. saver' = saver /\ delivered' = delivered
  BY DEF DequeueRead, DequeueWrite, saving
<1>2. CASE DequeueRead(d)
  <2>1. drain[d] = "readQueue" /\ queue' = queue
    BY <1>2 DEF DequeueRead, storage
  <2>2. \A c \in Drains \ {d} : batch'[c] = batch[c]
    BY <1>2 DEF DequeueRead, EndDrain, Inv, TypeOK, QueueIsBounded
  <2>3. Ids(batch[d]) = {}
    BY <2>1, EmptyIsEventSeq DEF Inv, DrainInv
  <2>4. \A c \in Drains : x \in Ids(batch[c]) => x \in Ids(batch'[c])
    BY <2>2, <2>3
  <2> QED
    BY <1>1, <2>1, <2>4, KeptInPlace DEF Kept
<1>3. CASE DequeueWrite(d)
  <2>1. /\ drain[d] = "writeRest"
        /\ queue' = SubSeq(dseen[d], Len(batch[d]) + 1, Len(dseen[d]))
        /\ drain'[d] = "readClock"
        /\ batch' = batch
    BY <1>3 DEF DequeueWrite, Inv, TypeOK, QueueIsBounded
  <2>2. IsEventSeq(dseen[d]) /\ batch[d] = SubSeq(dseen[d], 1, BatchLen(dseen[d]))
    BY <2>1 DEF Inv, TypeOK, QueueIsBounded, DrainInv
  <2>3. CASE dseen[d] # queue
    BY <2>1, <2>3 DEF Explained, StaleWrite, RestWritten
  <2>4. CASE dseen[d] = queue
    <3>1. Ids(queue) \subseteq Ids(batch[d]) \cup Ids(queue')
      BY <2>1, <2>2, <2>4, SplitKeepsAll
    <3> QED
      BY <1>1, <2>1, <3>1, KeptInPlace DEF Kept
  <2> QED
    BY <2>3, <2>4
<1> QED
  BY <1>2, <1>3

LEMMA WriteBackExplained ==
    ASSUME Inv, NEW d \in Drains, WriteBack(d),
           NEW x \in EventIds
    PROVE  Explained(x)
<1>1. /\ drain[d] = "writeBack" /\ drain'[d] = "off"
      /\ queue' = Trim(dseen[d] \o batch[d])
      /\ saver' = saver /\ online' = online /\ delivered' = delivered
      /\ \A c \in Drains \ {d} : batch'[c] = batch[c]
  BY DEF WriteBack, EndDrain, saving, Inv, TypeOK, QueueIsBounded
<1>2. BatchWritten(d)
  BY <1>1 DEF BatchWritten
<1>3. IsEventSeq(dseen[d]) /\ IsEventSeq(batch[d])
  BY DEF Inv, TypeOK, QueueIsBounded
<1>4. CASE dseen[d] # queue
  BY <1>2, <1>4 DEF Explained, StaleWrite
<1>5. CASE Len(dseen[d]) + Len(batch[d]) > QueueMax
  BY <1>2, <1>5 DEF Explained, Overflow
<1>6. CASE dseen[d] = queue /\ ~(Len(dseen[d]) + Len(batch[d]) > QueueMax)
  <2>1. Len(dseen[d]) + Len(batch[d]) <= QueueMax
    BY <1>3, <1>6, EventSeqPlaces, SizesAssumption
  <2> DEFINE longer == queue \o batch[d]
  <2>2. /\ IsEventSeq(longer) /\ Len(longer) <= QueueMax
        /\ Ids(longer) = Ids(queue) \cup Ids(batch[d])
        /\ queue' = Trim(longer)
    BY <1>1, <1>3, <1>6, <2>1, EventSeqConcat
  <2> HIDE DEF longer
  <2>3. Ids(queue') = Ids(queue) \cup Ids(batch[d])
    BY <2>2, TrimIs
  <2> QED
    BY <1>1, <2>3, KeptInPlace DEF Kept
<1> QED
  BY <1>4, <1>5, <1>6

\* A setItem that throws says so, and the other steps move nothing out of its place.
LEMMA OthersExplained ==
    ASSUME Inv,
           \/ \E e \in EventIds : Save(e) \/ SaveFails(e) \/ MakeEvent(e) \/ EnqueueFails(e)
           \/ \E d \in Drains : \/ ReadClock(d) \/ SaveClock(d) \/ PostFail(d) \/ DrainWriteFails(d)
                                \/ ManualSync(d) \/ GoOnline(d)
                                \/ \E vc \in ReplyClocks : PostOk(d, vc)
           \/ GoOffline \/ Mount,
           NEW x \in EventIds
    PROVE  Explained(x)
<1>1. ASSUME UNCHANGED <<queue, batch, delivered>>, saver[x] = "writing" => saver'[x] = "writing"
      PROVE  Explained(x)
  BY <1>1, KeptInPlace DEF Kept
<1>2. ASSUME NEW e \in EventIds, Save(e) \/ SaveFails(e) \/ MakeEvent(e) PROVE Explained(x)
  BY <1>1, <1>2 DEF Save, SaveFails, MakeEvent, storage, draining, Inv, TypeOK, QueueIsBounded
<1>3. ASSUME NEW e \in EventIds, EnqueueFails(e) PROVE Explained(x)
  <2>1. "storage" \in faults /\ saver[e] = "writing" /\ saver'[e] = "dropped" /\ queue' = queue
    BY <1>3 DEF EnqueueFails, storage, Inv, TypeOK, QueueIsBounded
  <2> QED
    BY <2>1 DEF Explained, StorageThrew
<1>4. ASSUME NEW d \in Drains, DrainWriteFails(d) PROVE Explained(x)
  <2>1. "storage" \in faults /\ drain[d] # "off" /\ drain'[d] = "off" /\ queue' = queue
    BY <1>4 DEF DrainWriteFails, EndDrain, storage, Inv, TypeOK, QueueIsBounded
  <2> QED
    BY <2>1 DEF Explained, StorageThrew
<1>5. ASSUME NEW d \in Drains, \/ ReadClock(d) \/ SaveClock(d) \/ PostFail(d)
                               \/ ManualSync(d) \/ GoOnline(d) \/ GoOffline
      PROVE  Explained(x)
  BY <1>1, <1>5 DEF ReadClock, SaveClock, PostFail, ManualSync, GoOnline, GoOffline,
                    BeginDrain, storage, saving, draining
<1>6. ASSUME NEW d \in Drains, NEW vc \in ReplyClocks, PostOk(d, vc) PROVE Explained(x)
  <2>1. /\ delivered' = delivered \cup Ids(batch[d])
        /\ \A c \in Drains \ {d} : batch'[c] = batch[c]
        /\ queue' = queue /\ saver' = saver
    BY <1>6 DEF PostOk, Ids, storage, saving, Inv, TypeOK, QueueIsBounded
  <2> QED
    BY <2>1, KeptInPlace DEF Kept
<1>7. CASE GoOffline \/ Mount
  BY <1>1, <1>7 DEF GoOffline, Mount, storage, saving, draining
<1> QED
  BY <1>2, <1>3, <1>4, <1>5, <1>6, <1>7

(***************************************************************************)
(* An event leaves the device undelivered only by a kill, a stale write,   *)
(* an overflow or a setItem that throws: a failed POST alone loses nothing.*)
(***************************************************************************)
THEOREM EveryLossIsExplained == Spec => LossIsExplained
<1>1. ASSUME Inv, [Next]_vars, NEW x \in EventIds PROVE Explained(x) \/ UNCHANGED vars
  <2>1. CASE User \/ Mount
    BY <1>1, <2>1, OthersExplained DEF User, Explained
  <2>2. ASSUME NEW e \in EventIds, SaverStep(e) PROVE Explained(x)
    BY <1>1, <2>2, OthersExplained, EnqueueWriteExplained DEF SaverStep
  <2>3. ASSUME NEW d \in Drains, Local(d) \/ Answered(d) PROVE Explained(x)
    BY <1>1, <2>3, OthersExplained, DequeueExplained, WriteBackExplained DEF Local, Answered
  <2> QED
    BY <1>1, <2>1, <2>2, <2>3 DEF Next
<1>2. Inv /\ [Next]_vars =>
         [\A e \in EventIds : Kept(e) /\ ~Kept(e)' =>
             StaleWrite \/ Overflow \/ StorageThrew \/ Kill]_vars
  BY <1>1 DEF Explained
<1> QED
  BY <1>2, InvHolds, PTL DEF Spec, LossIsExplained
====
