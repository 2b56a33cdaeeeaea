---- MODULE SyncServerProofs ----
(***************************************************************************)
(* Proofs about POST /sync/batch, for every set of devices, events,        *)
(* requests, request bodies, unstorable events and faults, and any         *)
(* SYNC_BATCH_MAX_SIZE.                                                    *)
(*                                                                         *)
(* The invariant is a loop invariant of processSyncBatch, kept for every   *)
(* handler while the others change the tables under it.  It survives the   *)
(* interleaving because rows and processed_event_ids only grow and because *)
(* a handler's locals are its own.                                         *)
(***************************************************************************)
EXTENDS SyncServer, TLAPS

\* Facts about the clock operations; ClockCausalityProofs says more of them.
\* A counter read with "?? 0" is a natural number, also where it is missing.
LEMMA AtNat ==
    ASSUME NEW vc, IsClock(vc), NEW d
    PROVE  At(vc, d) \in Nat
  BY DEF IsClock, At

LEMMA EmptyIsClock ==
    /\ IsClock(EmptyClock)
    /\ \A d : At(EmptyClock, d) = 0
  BY DEF IsClock, EmptyClock, At

\* merge() is the element-wise maximum, a missing counter being 0.
LEMMA MergeIs ==
    ASSUME NEW v, NEW w, IsClock(v), IsClock(w)
    PROVE  /\ IsClock(merge(v, w))
           /\ \A d : At(merge(v, w), d) =
                        IF At(v, d) <= At(w, d) THEN At(w, d) ELSE At(v, d)
  BY DEF IsClock, At, merge

LEMMA LeqTransitive ==
    ASSUME NEW u, NEW v, NEW w, IsClock(u), IsClock(v), IsClock(w),
           Leq(u, v), Leq(v, w)
    PROVE  Leq(u, w)
<1> SUFFICES ASSUME NEW d \in Devices PROVE At(u, d) <= At(w, d)
  BY DEF Leq
<1>1. At(u, d) \in Nat /\ At(v, d) \in Nat /\ At(w, d) \in Nat
  BY AtNat
<1>2. At(u, d) <= At(v, d) /\ At(v, d) <= At(w, d)
  BY DEF Leq
<1> QED
  BY <1>1, <1>2

\* merge() is the least upper bound of two clocks: it is above both, and
\* below whatever is above both.  So no sync takes knowledge back and none
\* invents any.
LEMMA MergeIsLub ==
    ASSUME NEW v, NEW w, NEW u, IsClock(v), IsClock(w), IsClock(u)
    PROVE  /\ Leq(v, merge(v, w)) /\ Leq(w, merge(v, w))
           /\ Leq(v, u) /\ Leq(w, u) => Leq(merge(v, w), u)
  BY MergeIs, AtNat DEF Leq

\* On the devices a clock mentions or not: Dominates looks only at mentioned
\* counters, and that is enough.
LEMMA DominatesIs ==
    ASSUME NEW v, NEW w, IsClock(v), IsClock(w)
    PROVE  Dominates(v, w) <=> \E d \in Devices : At(v, d) > At(w, d)
  BY DEF IsClock, At, Dominates

\* The four answers of compare() are the four relations of the element-wise
\* order: exactly one fits, and it is the one returned.
LEMMA CompareIs ==
    ASSUME NEW v, NEW w, IsClock(v), IsClock(w)
    PROVE  /\ compare(v, w) = "equal"      <=>  Leq(v, w) /\  Leq(w, v)
           /\ compare(v, w) = "before"     <=>  Leq(v, w) /\ ~Leq(w, v)
           /\ compare(v, w) = "after"      <=> ~Leq(v, w) /\  Leq(w, v)
           /\ compare(v, w) = "concurrent" <=> ~Leq(v, w) /\ ~Leq(w, v)
  BY DominatesIs, AtNat DEF compare, Leq

----------------------------------------------------------------------------
Fresh(r) ==
    /\ next[r] = 1
    /\ toInsert[r] = <<>>
    /\ conflicts[r] = <<>>
    /\ skipped[r] = 0

\* What the loop has made of the i-th event of the batch.
Handled(r, i) ==
    \/ Batch(r)[i].id \in processed
    \/ \E k \in DOMAIN toInsert[r] : toInsert[r][k].id = Batch(r)[i].id
    \/ \E k \in DOMAIN conflicts[r] : conflicts[r][k] = Batch(r)[i].id

LoopInv(r) ==
    /\ next[r] \in 1..Len(Batch(r)) + 1
    /\ pc[r] = "load" => next[r] = 1
    /\ pc[r] = "check" => next[r] <= Len(Batch(r))
    /\ pc[r] \in {"insert", "mark", "persist", "answered"} => next[r] = Len(Batch(r)) + 1
    /\ \A i \in 1..next[r] - 1 : Handled(r, i)
    /\ pc[r] = "mark" => \A k \in DOMAIN toInsert[r] : Stored(toInsert[r][k].id)
    /\ pc[r] \in {"persist", "answered"} =>
          \A k \in DOMAIN toInsert[r] : toInsert[r][k].id \in processed
    /\ Len(toInsert[r]) + skipped[r] = next[r] - 1
    /\ Len(conflicts[r]) <= skipped[r]

HandlerInv(r) ==
    /\ pc[r] = "new" => Fresh(r)
    /\ pc[r] \notin {"new", "failed"} => LoopInv(r)

Inv ==
    /\ TypeOK
    /\ ProcessedAreStored
    /\ \A r \in ReqIds : HandlerInv(r)

----------------------------------------------------------------------------
\* A typed sequence, place by place.
LEMMA EventSeqPlaces ==
    ASSUME NEW s, IsEventSeq(s)
    PROVE  Len(s) \in Nat /\ DOMAIN s = 1..Len(s)
<1> DEFINE S == {s[i] : i \in DOMAIN s}
<1>1. s \in Seq(S)
  BY DEF IsEventSeq
<1> HIDE DEF S
<1> QED
  BY <1>1

LEMMA EventSeqAppend ==
    ASSUME NEW s, NEW e, IsEventSeq(s), IsEvent(e)
    PROVE  /\ IsEventSeq(Append(s, e))
           /\ Len(Append(s, e)) = Len(s) + 1
           /\ DOMAIN Append(s, e) = 1..Len(s) + 1
           /\ \A i \in 1..Len(s) : Append(s, e)[i] = s[i]
           /\ Append(s, e)[Len(s) + 1] = e
<1> DEFINE S == {s[i] : i \in DOMAIN s} \cup {e}
           t == Append(s, e)
           T == {t[i] : i \in DOMAIN t}
<1>1. Len(s) \in Nat /\ DOMAIN s = 1..Len(s)
  BY EventSeqPlaces
<1>2. s \in Seq(S)
  <2> DEFINE R == {s[i] : i \in DOMAIN s}
  <2>1. s \in Seq(R) /\ R \subseteq S
    BY DEF IsEventSeq
  <2> HIDE DEF R, S
  <2> QED
    BY <2>1
<1>3. e \in S
  OBVIOUS
<1> HIDE DEF S
<1>4. /\ t \in Seq(S)
      /\ Len(t) = Len(s) + 1
      /\ DOMAIN t = 1..Len(s) + 1
      /\ \A i \in 1..Len(s) : t[i] = s[i]
      /\ t[Len(s) + 1] = e
  BY <1>1, <1>2, <1>3
<1> HIDE DEF t
<1>5. \A i \in 1..Len(s) + 1 : IsEvent(t[i])
  BY <1>1, <1>4 DEF IsEventSeq
<1>6. t \in Seq(T)
  <2>1. \A i \in 1..Len(t) : t[i] \in T
    BY <1>4
  <2> HIDE DEF T
  <2> QED
    BY <1>4, <2>1
<1>7. IsEventSeq(t)
  BY <1>4, <1>5, <1>6 DEF IsEventSeq
<1> QED
  BY <1>4, <1>7 DEF t

\* The accepted part of a batch, place by place.
LEMMA BatchPlaces ==
    ASSUME NEW r \in ReqIds, IsRequest(request[r])
    PROVE  /\ Len(Batch(r)) \in Nat
           /\ DOMAIN Batch(r) = 1..Len(Batch(r))
           /\ \A i \in 1..Len(Batch(r)) : IsEvent(Batch(r)[i])
<1> DEFINE s == request[r].events
           S == {s[i] : i \in DOMAIN s}
           n == IF Len(s) <= BatchMax THEN Len(s) ELSE BatchMax
<1>1. s \in Seq(S) /\ \A i \in DOMAIN s : IsEvent(s[i])
  BY DEF IsRequest
<1>2. Batch(r) = SubSeq(s, 1, n)
  BY DEF Batch
<1> HIDE DEF s, S
<1>3. Len(s) \in Nat /\ DOMAIN s = 1..Len(s)
  BY <1>1
<1>4. n \in 0..Len(s)
  BY <1>3, BatchMaxAssumption
<1> HIDE DEF n
<1>5. /\ Len(SubSeq(s, 1, n)) = n
      /\ DOMAIN SubSeq(s, 1, n) = 1..n
      /\ \A i \in 1..n : SubSeq(s, 1, n)[i] = s[i]
  BY <1>1, <1>3, <1>4
<1> QED
  BY <1>1, <1>2, <1>3, <1>4, <1>5

LEMMA EmptyIsEventSeq == IsEventSeq(<<>>) /\ DOMAIN <<>> = {} /\ Len(<<>>) = 0
<1>1. DOMAIN <<>> = {} /\ <<>> \in Seq({<<>>[i] : i \in DOMAIN <<>>}) /\ Len(<<>>) = 0
  OBVIOUS
<1> QED
  BY <1>1 DEF IsEventSeq

----------------------------------------------------------------------------
\* Every step of one handler leaves the locals of the others alone and only adds
\* to the tables, which is all their loop invariants need.
LEMMA OthersKeepInv ==
    ASSUME NEW r \in ReqIds,
           HandlerInv(r),
           pc'[r] = pc[r] \/ pc'[r] = "failed",
           request'[r] = request[r], next'[r] = next[r],
           toInsert'[r] = toInsert[r], conflicts'[r] = conflicts[r],
           skipped'[r] = skipped[r],
           rows \subseteq rows', processed \subseteq processed'
    PROVE  HandlerInv(r)'
<1>1. Batch(r)' = Batch(r)
  BY DEF Batch
<1>2. CASE pc'[r] = "failed"
  BY <1>2 DEF HandlerInv
<1>3. CASE pc'[r] = pc[r] /\ pc[r] = "new"
  BY <1>3 DEF HandlerInv, Fresh
<1>4. CASE pc'[r] = pc[r] /\ pc[r] \notin {"new", "failed"}
  <2>1. LoopInv(r)
    BY <1>4 DEF HandlerInv
  <2>2. \A i \in 1..next[r] - 1 : Handled(r, i)'
    BY <1>1, <2>1 DEF LoopInv, Handled
  <2>3. \A id : Stored(id) => Stored(id)'
    BY DEF Stored
  <2>4. LoopInv(r)'
    BY <1>1, <1>4, <2>1, <2>2, <2>3 DEF LoopInv
  <2> QED
    BY <1>4, <2>4 DEF HandlerInv
<1>5. CASE pc'[r] = pc[r] /\ pc[r] = "failed"
  BY <1>5 DEF HandlerInv
<1> QED
  BY <1>2, <1>3, <1>4, <1>5

LEMMA StoredGrows ==
    ASSUME rows \subseteq rows', processed' = processed, ProcessedAreStored
    PROVE  ProcessedAreStored'
  BY DEF ProcessedAreStored, Stored

LEMMA InitInv == Init => Inv
<1> SUFFICES ASSUME Init PROVE Inv
  OBVIOUS
<1>1. TypeOK
  <2>1. \A r \in ReqIds : pc[r] = "new"
    BY DEF Init
  <2>2. conflicts \in [ReqIds -> Seq(EventIds)]
    BY DEF Init
  <2> QED
    BY <2>1, <2>2, EmptyIsClock, EmptyIsEventSeq DEF Init, TypeOK, Awaiting
<1>2. ProcessedAreStored
  BY DEF Init, ProcessedAreStored
<1>3. \A r \in ReqIds : HandlerInv(r)
  BY DEF Init, HandlerInv, Fresh
<1> QED
  BY <1>1, <1>2, <1>3 DEF Inv

LEMMA ArriveKeepsInv ==
    ASSUME Inv, NEW r \in ReqIds, NEW q, IsRequest(q), Arrive(r, q)
    PROVE  Inv'
<1>1. /\ pc[r] = "new"
      /\ pc' = [pc EXCEPT ![r] = "load"]
      /\ request' = [request EXCEPT ![r] = q]
      /\ UNCHANGED <<rows, processed, syncVectors, serverVC, next, toInsert, conflicts, skipped>>
  BY DEF Arrive, tables, locals
<1>2. TypeOK'
  BY <1>1 DEF Inv, TypeOK, Awaiting
<1>3. ProcessedAreStored'
  BY <1>1, StoredGrows DEF Inv
<1>4. /\ pc'[r] = "load" /\ IsRequest(request'[r])
      /\ \A t \in ReqIds \ {r} : pc'[t] = pc[t] /\ request'[t] = request[t]
  BY <1>1 DEF Inv, TypeOK
<1>5. HandlerInv(r)'
  <2>1. Len(Batch(r)') \in Nat
    BY <1>4, BatchPlaces
  <2>2. Fresh(r)
    BY <1>1 DEF Inv, HandlerInv
  <2>3. LoopInv(r)'
    BY <1>1, <1>4, <2>1, <2>2 DEF LoopInv, Fresh
  <2> QED
    BY <1>4, <2>3 DEF HandlerInv
<1>6. \A t \in ReqIds \ {r} : HandlerInv(t)'
  BY <1>1, <1>4, OthersKeepInv DEF Inv
<1> QED
  BY <1>2, <1>3, <1>5, <1>6 DEF Inv

\* Where the loop leads: to the next event, or out of it.
LEMMA AfterEventLeads ==
    ASSUME NEW r \in ReqIds, NEW n, NEW ins
    PROVE  /\ AfterEvent(r, n, ins) \in {"check", "persist", "insert"}
           /\ n < Len(Batch(r)) => AfterEvent(r, n, ins) = "check"
           /\ ~(n < Len(Batch(r))) =>
                 AfterEvent(r, n, ins) = IF ins = <<>> THEN "persist" ELSE "insert"
  BY DEF AfterEvent

LEMMA LoadClockKeepsInv ==
    ASSUME Inv, NEW r \in ReqIds, LoadClock(r)
    PROVE  Inv'
<1>1. /\ pc[r] = "load"
      /\ serverVC' = [serverVC EXCEPT ![r] = syncVectors[request[r].deviceId]]
      /\ pc' = [pc EXCEPT ![r] = AfterEvent(r, 0, <<>>)]
      /\ UNCHANGED <<rows, processed, syncVectors, request, next, toInsert, conflicts, skipped>>
  BY DEF LoadClock, tables
<1>2. IsRequest(request[r]) /\ request[r].deviceId \in Devices
  BY <1>1 DEF Inv, TypeOK, IsRequest
<1>3. Len(Batch(r)) \in Nat
  BY <1>2, BatchPlaces
<1>4. AfterEvent(r, 0, <<>>) = IF 0 < Len(Batch(r)) THEN "check" ELSE "persist"
  BY AfterEventLeads
<1>5. TypeOK'
  BY <1>1, <1>2, <1>4 DEF Inv, TypeOK, Awaiting
<1>6. ProcessedAreStored'
  BY <1>1, StoredGrows DEF Inv
<1>7. /\ pc'[r] = AfterEvent(r, 0, <<>>)
      /\ \A t \in ReqIds \ {r} : pc'[t] = pc[t]
  BY <1>1 DEF Inv, TypeOK
<1>8. HandlerInv(r)'
  <2>1. LoopInv(r) /\ next[r] = 1
    BY <1>1 DEF Inv, HandlerInv, LoopInv
  <2>2. Batch(r)' = Batch(r)
    BY <1>1 DEF Batch
  <2>3. Len(toInsert[r]) = 0 /\ IsEventSeq(toInsert[r])
    <3>1. IsEventSeq(toInsert[r]) /\ Len(conflicts[r]) \in Nat /\ skipped[r] \in Nat
      BY DEF Inv, TypeOK
    <3>2. Len(toInsert[r]) \in Nat
      BY <3>1, EventSeqPlaces
    <3> QED
      BY <2>1, <3>1, <3>2 DEF LoopInv
  <2>4. DOMAIN toInsert[r] = {}
    BY <2>3, EventSeqPlaces
  <2>5. LoopInv(r)'
    BY <1>1, <1>3, <1>4, <1>7, <2>1, <2>2, <2>4 DEF LoopInv
  <2> QED
    BY <1>4, <1>7, <2>5 DEF HandlerInv
<1>9. \A t \in ReqIds \ {r} : HandlerInv(t)'
  BY <1>1, <1>7, OthersKeepInv DEF Inv
<1> QED
  BY <1>5, <1>6, <1>8, <1>9 DEF Inv

\* A conflict record more.
LEMMA ConflictsAppend ==
    ASSUME NEW s \in Seq(EventIds), NEW id \in EventIds
    PROVE  /\ Append(s, id) \in Seq(EventIds)
           /\ Len(s) \in Nat
           /\ Len(Append(s, id)) = Len(s) + 1
           /\ DOMAIN s = 1..Len(s)
           /\ DOMAIN Append(s, id) = 1..Len(s) + 1
           /\ \A i \in 1..Len(s) : Append(s, id)[i] = s[i]
           /\ Append(s, id)[Len(s) + 1] = id
  OBVIOUS

\* The three ways of one turn of the loop, as far as the invariant goes: the
\* event is handled, counted once, and nothing collected is lost.
LEMMA TurnOfLoop ==
    ASSUME Inv, NEW r \in ReqIds, CheckEvent(r)
    PROVE  /\ next[r] \in 1..Len(Batch(r))
           /\ IsEventSeq(toInsert'[r]) /\ DOMAIN toInsert' = ReqIds
           /\ conflicts' \in [ReqIds -> Seq(EventIds)]
           /\ skipped' \in [ReqIds -> Nat]
           /\ \A t \in ReqIds \ {r} : /\ toInsert'[t] = toInsert[t]
                                      /\ conflicts'[t] = conflicts[t]
                                      /\ skipped'[t] = skipped[t]
           /\ \A id : (\E k \in DOMAIN toInsert[r] : toInsert[r][k].id = id) =>
                      \E k \in DOMAIN toInsert'[r] : toInsert'[r][k].id = id
           /\ \A id : (\E k \in DOMAIN conflicts[r] : conflicts[r][k] = id) =>
                      \E k \in DOMAIN conflicts'[r] : conflicts'[r][k] = id
           /\ \/ Batch(r)[next[r]].id \in processed
              \/ \E k \in DOMAIN toInsert'[r] : toInsert'[r][k].id = Batch(r)[next[r]].id
              \/ \E k \in DOMAIN conflicts'[r] : conflicts'[r][k] = Batch(r)[next[r]].id
           /\ Len(toInsert'[r]) + skipped'[r] = Len(toInsert[r]) + skipped[r] + 1
           /\ Len(conflicts'[r]) <= skipped'[r]
<1> DEFINE e == Batch(r)[next[r]]
<1>1. /\ pc[r] = "check"
      /\ \/ e.id \in processed /\ SkipProcessed(r)
         \/ Supersede(r, e)
         \/ Accept(r, e)
  BY DEF CheckEvent
<1>2. IsRequest(request[r]) /\ LoopInv(r)
  BY <1>1 DEF Inv, TypeOK, HandlerInv
<1>3. next[r] \in 1..Len(Batch(r))
  BY <1>1, <1>2, BatchPlaces DEF LoopInv
<1>4. IsEvent(e) /\ e.id \in EventIds
  BY <1>2, <1>3, BatchPlaces DEF IsEvent
<1>5. /\ DOMAIN toInsert = ReqIds /\ IsEventSeq(toInsert[r])
      /\ conflicts \in [ReqIds -> Seq(EventIds)] /\ conflicts[r] \in Seq(EventIds)
      /\ skipped \in [ReqIds -> Nat] /\ skipped[r] \in Nat
  BY DEF Inv, TypeOK
<1>6. Len(toInsert[r]) \in Nat /\ DOMAIN toInsert[r] = 1..Len(toInsert[r])
  BY <1>5, EventSeqPlaces
<1>7. Len(conflicts[r]) \in Nat /\ Len(conflicts[r]) <= skipped[r]
  BY <1>2, <1>5 DEF LoopInv
<1> HIDE DEF e
<1>8. CASE e.id \in processed /\ SkipProcessed(r)
  BY <1>3, <1>5, <1>6, <1>7, <1>8 DEF SkipProcessed, e
<1>9. CASE Supersede(r, e)
  <2>1. /\ skipped' = [skipped EXCEPT ![r] = @ + 1]
        /\ conflicts' = [conflicts EXCEPT ![r] = Append(@, e.id)]
        /\ toInsert' = toInsert
    BY <1>9 DEF Supersede
  <2>2. conflicts'[r] = Append(conflicts[r], e.id) /\ skipped'[r] = skipped[r] + 1
    BY <1>5, <2>1
  <2>3. /\ conflicts'[r] \in Seq(EventIds)
        /\ Len(conflicts'[r]) = Len(conflicts[r]) + 1
        /\ DOMAIN conflicts[r] = 1..Len(conflicts[r])
        /\ DOMAIN conflicts'[r] = 1..Len(conflicts[r]) + 1
        /\ \A i \in 1..Len(conflicts[r]) : conflicts'[r][i] = conflicts[r][i]
        /\ conflicts'[r][Len(conflicts[r]) + 1] = e.id
    BY <1>4, <1>5, <2>2, ConflictsAppend
  <2>4. conflicts' \in [ReqIds -> Seq(EventIds)] /\ skipped' \in [ReqIds -> Nat]
    BY <1>5, <2>1, <2>3, <2>2
  <2>5. \A t \in ReqIds \ {r} : conflicts'[t] = conflicts[t] /\ skipped'[t] = skipped[t]
    BY <1>5, <2>1
  <2>6. \A id : (\E k \in DOMAIN conflicts[r] : conflicts[r][k] = id) =>
                \E k \in DOMAIN conflicts'[r] : conflicts'[r][k] = id
    BY <1>7, <2>3
  <2>7. \E k \in DOMAIN conflicts'[r] : conflicts'[r][k] = e.id
    BY <1>7, <2>3
  <2>8. Len(conflicts'[r]) <= skipped'[r]
    BY <1>5, <1>7, <2>2, <2>3
  <2>9. Len(toInsert'[r]) + skipped'[r] = Len(toInsert[r]) + skipped[r] + 1
    BY <1>5, <1>6, <2>1, <2>2
  <2> QED
    BY <1>3, <1>5, <2>1, <2>4, <2>5, <2>6, <2>7, <2>8, <2>9 DEF e
<1>10. CASE Accept(r, e)
  <2>1. /\ toInsert' = [toInsert EXCEPT ![r] = Append(@, e)]
        /\ conflicts' = conflicts /\ skipped' = skipped
    BY <1>10 DEF Accept
  <2>2. toInsert'[r] = Append(toInsert[r], e) /\ DOMAIN toInsert' = ReqIds
    BY <1>5, <2>1
  <2>3. /\ IsEventSeq(toInsert'[r])
        /\ Len(toInsert'[r]) = Len(toInsert[r]) + 1
        /\ DOMAIN toInsert'[r] = 1..Len(toInsert[r]) + 1
        /\ \A i \in 1..Len(toInsert[r]) : toInsert'[r][i] = toInsert[r][i]
        /\ toInsert'[r][Len(toInsert[r]) + 1] = e
    BY <1>4, <1>5, <2>2, EventSeqAppend
  <2>4. \A t \in ReqIds \ {r} : toInsert'[t] = toInsert[t]
    BY <1>5, <2>1
  <2>5. \A id : (\E k \in DOMAIN toInsert[r] : toInsert[r][k].id = id) =>
                \E k \in DOMAIN toInsert'[r] : toInsert'[r][k].id = id
    BY <1>6, <2>3
  <2>6. \E k \in DOMAIN toInsert'[r] : toInsert'[r][k].id = e.id
    BY <1>6, <2>3
  <2>7. Len(toInsert'[r]) + skipped'[r] = Len(toInsert[r]) + skipped[r] + 1
    BY <1>5, <1>6, <2>1, <2>3
  <2> QED
    BY <1>3, <1>5, <1>7, <2>1, <2>2, <2>3, <2>4, <2>5, <2>6, <2>7 DEF e
<1> QED
  BY <1>1, <1>8, <1>9, <1>10 DEF e

LEMMA CheckEventKeepsInv ==
    ASSUME Inv, NEW r \in ReqIds, CheckEvent(r)
    PROVE  Inv'
<1>1. /\ pc[r] = "check"
      /\ next' = [next EXCEPT ![r] = @ + 1]
      /\ pc' = [pc EXCEPT ![r] = AfterEvent(r, next[r], toInsert'[r])]
      /\ UNCHANGED <<rows, processed, syncVectors, request, serverVC>>
  BY DEF CheckEvent, tables
<1>2. IsRequest(request[r]) /\ LoopInv(r) /\ Len(Batch(r)) \in Nat
  BY <1>1, BatchPlaces DEF Inv, TypeOK, HandlerInv
<1>3. AfterEvent(r, next[r], toInsert'[r]) \in {"check", "persist", "insert"}
  BY AfterEventLeads
<1>4. /\ pc'[r] = AfterEvent(r, next[r], toInsert'[r])
      /\ next'[r] = next[r] + 1
      /\ \A t \in ReqIds \ {r} : pc'[t] = pc[t] /\ next'[t] = next[t]
  BY <1>1 DEF Inv, TypeOK
<1>5. TypeOK'
  <2>1. \A t \in ReqIds : IsEventSeq(toInsert'[t])
    BY TurnOfLoop DEF Inv, TypeOK
  <2>2. pc' \in [ReqIds -> Awaiting \cup {"new", "answered", "failed"}]
    BY <1>1, <1>3 DEF Inv, TypeOK, Awaiting
  <2>3. next' \in [ReqIds -> Nat]
    BY <1>1 DEF Inv, TypeOK
  <2> QED
    BY <1>1, <1>4, <2>1, <2>2, <2>3, TurnOfLoop DEF Inv, TypeOK
<1>6. ProcessedAreStored'
  BY <1>1, StoredGrows DEF Inv
<1>7. HandlerInv(r)'
  <2>1. Batch(r)' = Batch(r)
    BY <1>1 DEF Batch
  <2>2. next[r] \in 1..Len(Batch(r))
    BY TurnOfLoop
  <2>3. ASSUME NEW i \in 1..next[r] PROVE Handled(r, i)'
    <3> DEFINE id == Batch(r)[i].id
    <3>1. \/ id \in processed
          \/ \E k \in DOMAIN toInsert[r] : toInsert[r][k].id = id
          \/ \E k \in DOMAIN conflicts[r] : conflicts[r][k] = id
          \/ i = next[r]
      BY <1>2, <2>2 DEF LoopInv, Handled
    <3>2. \/ id \in processed
          \/ \E k \in DOMAIN toInsert'[r] : toInsert'[r][k].id = id
          \/ \E k \in DOMAIN conflicts'[r] : conflicts'[r][k] = id
      <4>1. CASE i = next[r]
        BY <4>1, TurnOfLoop
      <4> HIDE DEF id
      <4>2. CASE \E k \in DOMAIN toInsert[r] : toInsert[r][k].id = id
        BY <4>2, TurnOfLoop
      <4>3. CASE \E k \in DOMAIN conflicts[r] : conflicts[r][k] = id
        BY <4>3, TurnOfLoop
      <4> QED
        BY <3>1, <4>1, <4>2, <4>3
    <3>3. processed' = processed
      BY <1>1
    <3> QED
      BY <2>1, <3>2, <3>3 DEF Handled
  <2>4. next'[r] \in 1..Len(Batch(r)) + 1 /\ \A i \in 1..next'[r] - 1 : Handled(r, i)'
    BY <1>2, <1>4, <2>2, <2>3
  <2>5. next[r] < Len(Batch(r)) => pc'[r] = "check"
    BY <1>4, AfterEventLeads
  <2>6. ~(next[r] < Len(Batch(r))) =>
           pc'[r] = IF toInsert'[r] = <<>> THEN "persist" ELSE "insert"
    BY <1>4, AfterEventLeads
  <2>7. /\ pc'[r] = "check" => next'[r] <= Len(Batch(r))
        /\ pc'[r] \in {"insert", "mark", "persist", "answered"} => next'[r] = Len(Batch(r)) + 1
        /\ pc'[r] \in {"check", "persist", "insert"}
        /\ pc'[r] = "persist" => toInsert'[r] = <<>>
    BY <1>2, <1>3, <1>4, <2>2, <2>5, <2>6
  <2>8. /\ Len(toInsert'[r]) + skipped'[r] = next'[r] - 1
        /\ Len(conflicts'[r]) <= skipped'[r]
    <3>1. Len(toInsert[r]) + skipped[r] = next[r] - 1
      BY <1>2 DEF LoopInv
    <3>2. /\ Len(toInsert'[r]) + skipped'[r] = Len(toInsert[r]) + skipped[r] + 1
          /\ Len(conflicts'[r]) <= skipped'[r]
      BY TurnOfLoop
    <3> QED
      BY <1>2, <1>4, <2>2, <3>1, <3>2
  <2>9. LoopInv(r)'
    BY <2>1, <2>4, <2>7, <2>8, EmptyIsEventSeq DEF LoopInv
  <2> QED
    BY <2>7, <2>9 DEF HandlerInv
<1>8. \A t \in ReqIds \ {r} : HandlerInv(t)'
  BY <1>1, <1>4, TurnOfLoop, OthersKeepInv DEF Inv
<1> QED
  BY <1>5, <1>6, <1>7, <1>8 DEF Inv

LEMMA NewRowsAre ==
    ASSUME NEW r \in ReqIds, IsEventSeq(toInsert[r])
    PROVE  /\ NewRows(r) \subseteq [event : EventIds, by : ReqIds, at : Nat]
           /\ \A k \in DOMAIN toInsert[r] : \E row \in NewRows(r) : row.event = toInsert[r][k].id
<1>1. DOMAIN toInsert[r] \subseteq Nat
  BY EventSeqPlaces
<1>2. \A k \in DOMAIN toInsert[r] : toInsert[r][k].id \in EventIds
  BY DEF IsEventSeq, IsEvent
<1>3. ASSUME NEW row \in NewRows(r)
      PROVE  row \in [event : EventIds, by : ReqIds, at : Nat]
  BY <1>1, <1>2 DEF NewRows
<1>4. ASSUME NEW k \in DOMAIN toInsert[r]
      PROVE  \E row \in NewRows(r) : row.event = toInsert[r][k].id
  <2>1. [event |-> toInsert[r][k].id, by |-> r, at |-> k] \in NewRows(r)
    BY DEF NewRows
  <2> QED
    BY <2>1
<1> QED
  BY <1>3, <1>4

LEMMA InsertEventsKeepsInv ==
    ASSUME Inv, NEW r \in ReqIds, InsertEvents(r)
    PROVE  Inv'
<1>1. /\ pc[r] = "insert"
      /\ rows' = rows \cup NewRows(r)
      /\ pc' = [pc EXCEPT ![r] = "mark"] \/ pc' = [pc EXCEPT ![r] = "failed"]
      /\ UNCHANGED <<processed, syncVectors, request, serverVC, next, toInsert, conflicts, skipped>>
  BY DEF InsertEvents, Continue, locals
<1>2. IsEventSeq(toInsert[r]) /\ LoopInv(r)
  BY <1>1 DEF Inv, TypeOK, HandlerInv
<1>3. TypeOK'
  BY <1>1, <1>2, NewRowsAre DEF Inv, TypeOK, Awaiting
<1>4. ProcessedAreStored'
  BY <1>1, StoredGrows DEF Inv
<1>5. /\ pc'[r] \in {"mark", "failed"}
      /\ \A t \in ReqIds \ {r} : pc'[t] = pc[t]
  BY <1>1 DEF Inv, TypeOK
<1>6. HandlerInv(r)'
  <2>1. Batch(r)' = Batch(r)
    BY <1>1 DEF Batch
  <2>2. \A k \in DOMAIN toInsert[r] : Stored(toInsert[r][k].id)'
    BY <1>1, <1>2, NewRowsAre DEF Stored
  <2>3. \A i \in 1..next[r] - 1 : Handled(r, i)'
    BY <1>1, <1>2, <2>1 DEF LoopInv, Handled
  <2>4. CASE pc'[r] = "mark"
    BY <1>1, <1>2, <2>1, <2>2, <2>3, <2>4 DEF LoopInv, HandlerInv
  <2> QED
    BY <1>5, <2>4 DEF HandlerInv
<1>7. \A t \in ReqIds \ {r} : HandlerInv(t)'
  BY <1>1, <1>5, OthersKeepInv DEF Inv
<1> QED
  BY <1>3, <1>4, <1>6, <1>7 DEF Inv

LEMMA MarkProcessedKeepsInv ==
    ASSUME Inv, NEW r \in ReqIds, MarkProcessed(r)
    PROVE  Inv'
<1> DEFINE marked == {toInsert[r][i].id : i \in DOMAIN toInsert[r]}
<1>1. /\ pc[r] = "mark"
      /\ processed' = processed \cup marked
      /\ pc' = [pc EXCEPT ![r] = "persist"] \/ pc' = [pc EXCEPT ![r] = "failed"]
      /\ UNCHANGED <<rows, syncVectors, request, serverVC, next, toInsert, conflicts, skipped>>
  BY DEF MarkProcessed, Continue, locals
<1>2. IsEventSeq(toInsert[r]) /\ LoopInv(r)
  BY <1>1 DEF Inv, TypeOK, HandlerInv
<1>3. marked \subseteq EventIds
  BY <1>2 DEF IsEventSeq, IsEvent
<1>4. \A id \in marked : Stored(id)
  BY <1>1, <1>2 DEF LoopInv
<1>5. \A k \in DOMAIN toInsert[r] : toInsert[r][k].id \in marked
  OBVIOUS
<1> HIDE DEF marked
<1>6. TypeOK'
  BY <1>1, <1>3 DEF Inv, TypeOK, Awaiting
<1>7. ProcessedAreStored'
  BY <1>1, <1>4 DEF Inv, ProcessedAreStored, Stored
<1>8. /\ pc'[r] \in {"persist", "failed"}
      /\ \A t \in ReqIds \ {r} : pc'[t] = pc[t]
  BY <1>1 DEF Inv, TypeOK
<1>9. HandlerInv(r)'
  <2>1. Batch(r)' = Batch(r)
    BY <1>1 DEF Batch
  <2>2. \A i \in 1..next[r] - 1 : Handled(r, i)'
    BY <1>1, <1>2, <2>1 DEF LoopInv, Handled
  <2>3. CASE pc'[r] = "persist"
    BY <1>1, <1>2, <1>5, <2>1, <2>2, <2>3 DEF LoopInv, HandlerInv
  <2> QED
    BY <1>8, <2>3 DEF HandlerInv
<1>10. \A t \in ReqIds \ {r} : HandlerInv(t)'
  BY <1>1, <1>8, OthersKeepInv DEF Inv
<1> QED
  BY <1>6, <1>7, <1>9, <1>10 DEF Inv

LEMMA PersistClockKeepsInv ==
    ASSUME Inv, NEW r \in ReqIds, PersistClock(r)
    PROVE  Inv'
<1> DEFINE vc == merge(serverVC[r], request[r].clientVectorClock)
<1>1. /\ pc[r] = "persist"
      /\ syncVectors' = [syncVectors EXCEPT ![request[r].deviceId] = vc]
      /\ pc' = [pc EXCEPT ![r] = "answered"] \/ pc' = [pc EXCEPT ![r] = "failed"]
      /\ UNCHANGED <<rows, processed, request, serverVC, next, toInsert, conflicts, skipped>>
  BY DEF PersistClock, Answer, Continue, locals
<1>2. LoopInv(r) /\ IsClock(serverVC[r]) /\ IsClock(request[r].clientVectorClock)
  BY <1>1 DEF Inv, TypeOK, HandlerInv, IsRequest
<1>3. IsClock(vc)
  BY <1>2, MergeIs
<1> HIDE DEF vc
<1>4. TypeOK'
  BY <1>1, <1>3 DEF Inv, TypeOK, Awaiting
<1>5. ProcessedAreStored'
  BY <1>1, StoredGrows DEF Inv
<1>6. /\ pc'[r] \in {"answered", "failed"}
      /\ \A t \in ReqIds \ {r} : pc'[t] = pc[t]
  BY <1>1 DEF Inv, TypeOK
<1>7. HandlerInv(r)'
  <2>1. Batch(r)' = Batch(r)
    BY <1>1 DEF Batch
  <2>2. \A i \in 1..next[r] - 1 : Handled(r, i)'
    BY <1>1, <1>2, <2>1 DEF LoopInv, Handled
  <2>3. CASE pc'[r] = "answered"
    BY <1>1, <1>2, <2>1, <2>2, <2>3 DEF LoopInv, HandlerInv
  <2> QED
    BY <1>6, <2>3 DEF HandlerInv
<1>8. \A t \in ReqIds \ {r} : HandlerInv(t)'
  BY <1>1, <1>6, OthersKeepInv DEF Inv
<1> QED
  BY <1>4, <1>5, <1>7, <1>8 DEF Inv

\* Failing queries, rejected inserts and crashes only end handlers.
LEMMA FailingKeepsInv ==
    ASSUME Inv,
           pc' \in [ReqIds -> Awaiting \cup {"new", "answered", "failed"}],
           \A r \in ReqIds : pc'[r] = pc[r] \/ (pc'[r] = "failed" /\ pc[r] # "new"),
           UNCHANGED <<tables, request, locals>>
    PROVE  Inv'
<1>1. UNCHANGED <<rows, processed, syncVectors, request, serverVC, next, toInsert,
                  conflicts, skipped>>
  BY DEF tables, locals
<1>2. TypeOK'
  BY <1>1 DEF Inv, TypeOK
<1>3. ProcessedAreStored'
  BY <1>1, StoredGrows DEF Inv
<1>4. \A r \in ReqIds : HandlerInv(r)'
  BY <1>1, OthersKeepInv DEF Inv
<1> QED
  BY <1>2, <1>3, <1>4 DEF Inv

LEMMA StepKeepsInv ==
    ASSUME Inv, NEW r \in ReqIds, Step(r) \/ QueryFails(r)
    PROVE  Inv'
<1>1. pc \in [ReqIds -> Awaiting \cup {"new", "answered", "failed"}]
  BY DEF Inv, TypeOK
<1>2. CASE InsertRejected(r)
  BY <1>1, <1>2, FailingKeepsInv DEF InsertRejected
<1>3. CASE QueryFails(r)
  BY <1>1, <1>3, FailingKeepsInv DEF QueryFails, Awaiting
<1> QED
  BY <1>2, <1>3, LoadClockKeepsInv, CheckEventKeepsInv, InsertEventsKeepsInv,
     MarkProcessedKeepsInv, PersistClockKeepsInv DEF Step

LEMMA CrashKeepsInv ==
    ASSUME Inv, Crash
    PROVE  Inv'
<1>1. pc \in [ReqIds -> Awaiting \cup {"new", "answered", "failed"}]
  BY DEF Inv, TypeOK
<1>2. pc' = [r \in ReqIds |-> IF r \in InFlight THEN "failed" ELSE pc[r]]
  BY DEF Crash
<1>3. \A r \in InFlight : pc[r] # "new"
  BY DEF InFlight, Awaiting
<1> QED
  BY <1>1, <1>2, <1>3, FailingKeepsInv DEF Crash

\* Nothing but the tables and the handlers matters.
LEMMA StutterKeepsInv ==
    ASSUME Inv, UNCHANGED <<tables, pc, request, locals>>
    PROVE  Inv'
<1>1. pc \in [ReqIds -> Awaiting \cup {"new", "answered", "failed"}]
  BY DEF Inv, TypeOK
<1> QED
  BY <1>1, FailingKeepsInv

LEMMA NextKeepsInv == Inv /\ [Next]_vars => Inv'
  BY ArriveKeepsInv, RequestsAssumption, StepKeepsInv, CrashKeepsInv, StutterKeepsInv DEF Next, vars

LEMMA InvHolds == Spec => []Inv
  BY InitInv, NextKeepsInv, PTL DEF Spec

----------------------------------------------------------------------------
(***************************************************************************)
(* The type invariant of the sync handler.                                 *)
(***************************************************************************)
THEOREM TypeCorrect == Spec => []TypeOK
<1>1. Inv => TypeOK
  BY DEF Inv
<1> QED
  BY <1>1, InvHolds, PTL

(***************************************************************************)
(* processed_event_ids never runs ahead of productivity_events: no retry   *)
(* skips an event that is not stored, whichever handlers fail where.       *)
(***************************************************************************)
THEOREM MarkedIsStored == Spec => []ProcessedAreStored
<1>1. Inv => ProcessedAreStored
  BY DEF Inv
<1> QED
  BY <1>1, InvHolds, PTL

\* What the loop has handled is settled once everything collected is marked.
LEMMA InvSettles == Inv => AnsweredIsSettled
<1> SUFFICES ASSUME Inv,
                    NEW r \in ReqIds, pc[r] = "answered",
                    NEW i \in DOMAIN Batch(r)
             PROVE  \/ Stored(Batch(r)[i].id)
                    \/ \E k \in DOMAIN conflicts[r] : conflicts[r][k] = Batch(r)[i].id
  BY DEF AnsweredIsSettled
<1>1. IsRequest(request[r]) /\ LoopInv(r)
  BY DEF Inv, TypeOK, HandlerInv
<1>2. i \in 1..next[r] - 1
  BY <1>1, BatchPlaces DEF LoopInv
<1>3. Handled(r, i)
  BY <1>1, <1>2 DEF LoopInv
<1>4. Batch(r)[i].id \in processed \/
         \E k \in DOMAIN conflicts[r] : conflicts[r][k] = Batch(r)[i].id
  BY <1>1, <1>3 DEF LoopInv, Handled
<1> QED
  BY <1>4 DEF Inv, ProcessedAreStored

(***************************************************************************)
(* A 200 settles every event of the accepted part of the batch: stored, or *)
(* named in conflicts.                                                     *)
(***************************************************************************)
THEOREM AnswerSettles == Spec => []AnsweredIsSettled
  BY InvSettles, InvHolds, PTL

(***************************************************************************)
(* The counts of an answer partition the batch.                            *)
(***************************************************************************)
THEOREM AnswerCounts == Spec => []AnswerAddsUp
<1>1. Inv => AnswerAddsUp
  <2> SUFFICES ASSUME Inv, NEW r \in ReqIds, pc[r] = "answered"
               PROVE  /\ Answer(r).applied + Answer(r).skipped = Len(Batch(r))
                      /\ Len(Answer(r).conflicts) <= Answer(r).skipped
    BY DEF AnswerAddsUp
  <2>1. IsRequest(request[r]) /\ LoopInv(r)
    BY DEF Inv, TypeOK, HandlerInv
  <2>2. Len(Batch(r)) \in Nat
    BY <2>1, BatchPlaces
  <2>3. /\ Answer(r).applied = Len(toInsert[r])
        /\ Answer(r).skipped = skipped[r]
        /\ Answer(r).conflicts = conflicts[r]
    BY DEF Answer
  <2> QED
    BY <2>1, <2>2, <2>3 DEF LoopInv
<1> QED
  BY <1>1, InvHolds, PTL

----------------------------------------------------------------------------
\* The handler that has stored an event and not marked it.
Cause(r, id) ==
    /\ \E i \in DOMAIN toInsert[r] : toInsert[r][i].id = id
    /\ pc[r] = "mark" \/ ("query" \in faults /\ pc[r] = "failed")

LEMMA UnmarkedIs ==
    UnmarkedHasCause <=>
        \A row \in rows : row.event \in processed \/ \E r \in ReqIds : Cause(r, row.event)
  BY DEF UnmarkedHasCause, Cause

\* A cause lasts until its own handler marks the event.
LEMMA CauseStays ==
    ASSUME NEW r, NEW id, Cause(r, id),
           UNCHANGED faults,
           toInsert'[r] = toInsert[r],
           \/ pc'[r] = pc[r]
           \/ "query" \in faults /\ pc'[r] = "failed"
    PROVE  Cause(r, id)'
  BY DEF Cause

LEMMA NextKeepsCause ==
    ASSUME Inv, UnmarkedHasCause, Next
    PROVE  UnmarkedHasCause'
<1>1. UNCHANGED faults
  BY DEF Next
<1>2. pc \in [ReqIds -> Awaiting \cup {"new", "answered", "failed"}] /\ DOMAIN toInsert = ReqIds
  BY DEF Inv, TypeOK
\* Steps that add no row and touch no handler with a cause.
<1>3. ASSUME rows' = rows, processed' = processed,
             \A t \in ReqIds : \A id : Cause(t, id) =>
                /\ toInsert'[t] = toInsert[t]
                /\ \/ pc'[t] = pc[t]
                   \/ "query" \in faults /\ pc'[t] = "failed"
      PROVE  UnmarkedHasCause'
  <2>1. \A t \in ReqIds : \A id : Cause(t, id) => Cause(t, id)'
    BY <1>1, <1>3, CauseStays
  <2>2. \A row \in rows' : row.event \in processed' \/ \E t \in ReqIds : Cause(t, row.event)
    BY <1>3, UnmarkedIs
  <2>3. \A row \in rows' : row.event \in processed' \/ \E t \in ReqIds : Cause(t, row.event)'
    BY <2>1, <2>2
  <2> QED
    BY <2>3 DEF UnmarkedHasCause, Cause
<1>4. ASSUME NEW r \in ReqIds, NEW q \in Requests, Arrive(r, q) PROVE UnmarkedHasCause'
  BY <1>2, <1>3, <1>4 DEF Arrive, tables, locals, Cause
<1>5. ASSUME NEW r \in ReqIds, LoadClock(r) PROVE UnmarkedHasCause'
  BY <1>2, <1>3, <1>5 DEF LoadClock, tables, Cause
<1>6. ASSUME NEW r \in ReqIds, CheckEvent(r) PROVE UnmarkedHasCause'
  <2>1. /\ pc[r] = "check"
        /\ pc' = [pc EXCEPT ![r] = AfterEvent(r, next[r], toInsert'[r])]
        /\ rows' = rows /\ processed' = processed
    BY <1>6 DEF CheckEvent, tables
  <2>2. \A t \in ReqIds \ {r} : pc'[t] = pc[t] /\ toInsert'[t] = toInsert[t]
    BY <1>2, <1>6, <2>1, TurnOfLoop
  <2>3. \A id : ~Cause(r, id)
    BY <2>1 DEF Cause
  <2> QED
    BY <1>3, <2>1, <2>2, <2>3
<1>7. ASSUME NEW r \in ReqIds, InsertEvents(r) PROVE UnmarkedHasCause'
  <2>1. /\ pc[r] = "insert"
        /\ rows' = rows \cup NewRows(r)
        /\ \/ pc' = [pc EXCEPT ![r] = "mark"]
           \/ "query" \in faults /\ pc' = [pc EXCEPT ![r] = "failed"]
        /\ processed' = processed /\ toInsert' = toInsert
    BY <1>7 DEF InsertEvents, Continue, locals
  <2>2. /\ pc'[r] = "mark" \/ ("query" \in faults /\ pc'[r] = "failed")
        /\ \A t \in ReqIds \ {r} : pc'[t] = pc[t]
    BY <1>2, <2>1
  <2>3. \A id : ~Cause(r, id)
    BY <2>1 DEF Cause
  <2>4. \A t \in ReqIds : \A id : Cause(t, id) => Cause(t, id)'
    BY <1>1, <2>1, <2>2, <2>3, CauseStays
  <2>5. ASSUME NEW row \in NewRows(r) PROVE Cause(r, row.event)'
    <3>1. \E i \in DOMAIN toInsert[r] : toInsert[r][i].id = row.event
      BY DEF NewRows
    <3> QED
      BY <1>1, <2>1, <2>2, <3>1 DEF Cause
  <2>6. \A row \in rows' : row.event \in processed' \/ \E t \in ReqIds : Cause(t, row.event)'
    BY <2>1, <2>4, <2>5, UnmarkedIs
  <2> QED
    BY <2>6 DEF UnmarkedHasCause, Cause
<1>8. ASSUME NEW r \in ReqIds, InsertRejected(r) PROVE UnmarkedHasCause'
  BY <1>2, <1>3, <1>8 DEF InsertRejected, tables, locals, Cause
<1>9. ASSUME NEW r \in ReqIds, MarkProcessed(r) PROVE UnmarkedHasCause'
  <2>1. /\ processed' = processed \cup {toInsert[r][i].id : i \in DOMAIN toInsert[r]}
        /\ rows' = rows /\ toInsert' = toInsert
        /\ \A t \in ReqIds \ {r} : pc'[t] = pc[t]
    BY <1>2, <1>9 DEF MarkProcessed, Continue, locals
  <2>2. \A t \in ReqIds \ {r} : \A id : Cause(t, id) => Cause(t, id)'
    BY <1>1, <2>1, CauseStays
  <2>3. \A id : Cause(r, id) => id \in processed'
    BY <2>1 DEF Cause
  <2>4. \A row \in rows' : row.event \in processed' \/ \E t \in ReqIds : Cause(t, row.event)'
    BY <2>1, <2>2, <2>3, UnmarkedIs
  <2> QED
    BY <2>4 DEF UnmarkedHasCause, Cause
<1>10. ASSUME NEW r \in ReqIds, PersistClock(r) PROVE UnmarkedHasCause'
  BY <1>2, <1>3, <1>10 DEF PersistClock, Continue, locals, Cause
<1>11. ASSUME NEW r \in ReqIds, QueryFails(r) PROVE UnmarkedHasCause'
  BY <1>2, <1>3, <1>11 DEF QueryFails, tables, locals
<1>12. CASE Crash
  BY <1>2, <1>3, <1>12 DEF Crash, tables, locals
<1> QED
  BY <1>4, <1>5, <1>6, <1>7, <1>8, <1>9, <1>10, <1>11, <1>12 DEF Next, Step

(***************************************************************************)
(* A stored event a retry would not recognise belongs to a handler between *)
(* the insert and the mark, or to one that failed there.                   *)
(***************************************************************************)
THEOREM UnmarkedIsExplained == Spec => []UnmarkedHasCause
<1>1. Init => UnmarkedHasCause
  BY DEF Init, UnmarkedHasCause
<1>2. Inv /\ UnmarkedHasCause /\ [Next]_vars => UnmarkedHasCause'
  <2>1. CASE UNCHANGED vars
    BY <2>1 DEF vars, tables, locals, UnmarkedHasCause
  <2> QED
    BY <2>1, NextKeepsCause
<1> QED
  BY <1>1, <1>2, InvHolds, PTL DEF Spec

----------------------------------------------------------------------------
\* What the devices have reported so far: the value of a counter, in a request of
\* a device.
reports ==
    {<<request[r].deviceId, c, At(request[r].clientVectorClock, c)>> :
        r \in {t \in ReqIds : pc[t] # "new"}, c \in Devices}

\* Every counter of the clock vc was reported by device d.
OwnClock(vc, d) == \A c \in Devices : At(vc, c) > 0 => <<d, c, At(vc, c)>> \in reports

\* What a handler has loaded is its own device's.
LoadedIsOwn ==
    \A r \in ReqIds : /\ pc[r] = "new" => \A c \in Devices : ~(At(serverVC[r], c) > 0)
                      /\ pc[r] # "new" => OwnClock(serverVC[r], request[r].deviceId)

RowInv == (\A d \in Devices : OwnClock(syncVectors[d], d)) /\ LoadedIsOwn

LEMMA RowInvSuffices == RowInv => RowIsOwnDevices
<1> SUFFICES ASSUME RowInv, NEW d \in Devices, NEW c \in Devices, At(syncVectors[d], c) > 0
             PROVE  \E r \in ReqIds :
                       /\ pc[r] # "new"
                       /\ request[r].deviceId = d
                       /\ At(request[r].clientVectorClock, c) = At(syncVectors[d], c)
  BY DEF RowIsOwnDevices
<1> DEFINE v == At(syncVectors[d], c)
<1>1. <<d, c, v>> \in reports
  BY DEF RowInv, OwnClock
<1> HIDE DEF v
<1>2. \E r \in {t \in ReqIds : pc[t] # "new"}, b \in Devices :
         <<d, c, v>> = <<request[r].deviceId, b, At(request[r].clientVectorClock, b)>>
  BY <1>1 DEF reports
<1> QED
  BY <1>2 DEF v

LEMMA RequestsStay ==
    ASSUME Inv, Next
    PROVE  \A r \in ReqIds : pc[r] # "new" => pc'[r] # "new" /\ request'[r] = request[r]
<1>1. pc \in [ReqIds -> Awaiting \cup {"new", "answered", "failed"}] /\ DOMAIN request = ReqIds
  BY DEF Inv, TypeOK
<1>2. CASE \E r \in ReqIds, q \in Requests : Arrive(r, q)
  BY <1>1, <1>2 DEF Arrive
<1>3. ASSUME NEW r \in ReqIds, LoadClock(r)
      PROVE  \A t \in ReqIds : pc[t] # "new" => pc'[t] # "new" /\ request'[t] = request[t]
  BY <1>1, <1>3, AfterEventLeads DEF LoadClock
<1>4. ASSUME NEW r \in ReqIds, CheckEvent(r)
      PROVE  \A t \in ReqIds : pc[t] # "new" => pc'[t] # "new" /\ request'[t] = request[t]
  BY <1>1, <1>4, AfterEventLeads DEF CheckEvent
<1>5. CASE \E r \in ReqIds : InsertEvents(r) \/ InsertRejected(r) \/ MarkProcessed(r)
                             \/ PersistClock(r) \/ QueryFails(r)
  BY <1>1, <1>5 DEF InsertEvents, InsertRejected, MarkProcessed, PersistClock, QueryFails, Continue
<1>6. CASE Crash
  BY <1>1, <1>6 DEF Crash
<1> QED
  BY <1>2, <1>3, <1>4, <1>5, <1>6 DEF Next, Step

LEMMA ReportsGrow ==
    ASSUME Inv, Next
    PROVE  reports \subseteq reports'
<1> SUFFICES ASSUME NEW x \in reports PROVE x \in reports'
  OBVIOUS
<1>1. PICK r \in {t \in ReqIds : pc[t] # "new"}, c \in Devices :
         x = <<request[r].deviceId, c, At(request[r].clientVectorClock, c)>>
  BY DEF reports
<1>2. pc'[r] # "new" /\ request'[r] = request[r]
  BY RequestsStay
<1> QED
  BY <1>1, <1>2 DEF reports

LEMMA NextKeepsRow ==
    ASSUME Inv, RowInv, Next
    PROVE  RowInv'
<1>1. /\ reports \subseteq reports'
      /\ \A r \in ReqIds : pc[r] # "new" => pc'[r] # "new" /\ request'[r] = request[r]
  BY RequestsStay, ReportsGrow
<1>2. /\ DOMAIN syncVectors = Devices /\ DOMAIN serverVC = ReqIds /\ DOMAIN request = ReqIds
      /\ pc \in [ReqIds -> Awaiting \cup {"new", "answered", "failed"}]
  BY DEF Inv, TypeOK
\* Each part survives a step that leaves its variable alone, and a received
\* request finds nothing loaded.
<1>3. syncVectors' = syncVectors => \A d \in Devices : OwnClock(syncVectors[d], d)'
  BY <1>1 DEF RowInv, OwnClock
<1>4. ASSUME NEW r \in ReqIds, serverVC'[r] = serverVC[r]
      PROVE  /\ pc'[r] = "new" => \A c \in Devices : ~(At(serverVC'[r], c) > 0)
             /\ pc'[r] # "new" => OwnClock(serverVC[r], request[r].deviceId)'
  <2>1. CASE pc[r] = "new"
    BY <1>4, <2>1 DEF RowInv, LoadedIsOwn, OwnClock
  <2>2. CASE pc[r] # "new"
    BY <1>1, <1>4, <2>2 DEF RowInv, LoadedIsOwn, OwnClock
  <2> QED
    BY <2>1, <2>2
<1>5. serverVC' = serverVC => LoadedIsOwn'
  BY <1>4 DEF LoadedIsOwn
<1>6. CASE syncVectors' = syncVectors /\ serverVC' = serverVC
  BY <1>3, <1>5, <1>6 DEF RowInv
<1>7. ASSUME NEW r \in ReqIds, LoadClock(r) PROVE RowInv'
  <2>1. /\ pc[r] = "load"
        /\ serverVC' = [serverVC EXCEPT ![r] = syncVectors[request[r].deviceId]]
        /\ syncVectors' = syncVectors /\ request' = request
    BY <1>7 DEF LoadClock, tables
  <2>2. request[r].deviceId \in Devices
    BY <2>1 DEF Inv, TypeOK, IsRequest
  <2>3. /\ serverVC'[r] = syncVectors[request[r].deviceId]
        /\ \A t \in ReqIds \ {r} : serverVC'[t] = serverVC[t]
    BY <1>2, <2>1
  <2>4. pc'[r] # "new" /\ OwnClock(serverVC[r], request[r].deviceId)'
    BY <1>1, <2>1, <2>2, <2>3 DEF RowInv, OwnClock
  <2>5. LoadedIsOwn'
    BY <1>4, <2>3, <2>4 DEF LoadedIsOwn
  <2> QED
    BY <1>3, <2>1, <2>5 DEF RowInv
<1>8. ASSUME NEW r \in ReqIds, PersistClock(r) PROVE RowInv'
  <2> DEFINE v == serverVC[r]
             w == request[r].clientVectorClock
             d == request[r].deviceId
  <2>1. /\ pc[r] = "persist"
        /\ syncVectors' = [syncVectors EXCEPT ![d] = merge(v, w)]
        /\ serverVC' = serverVC /\ request' = request
    BY <1>8 DEF PersistClock, Answer, locals
  <2>2. IsClock(v) /\ IsClock(w) /\ d \in Devices
    BY <2>1 DEF Inv, TypeOK, IsRequest
  <2>3. OwnClock(v, d)
    BY <2>1 DEF RowInv, LoadedIsOwn
  <2>4. \A c \in Devices : <<d, c, At(w, c)>> \in reports
    BY <2>1 DEF reports
  <2>5. \A c \in Devices : At(merge(v, w), c) \in {At(v, c), At(w, c)}
    BY <2>2, MergeIs
  <2>6. \A c \in Devices : At(merge(v, w), c) > 0 => <<d, c, At(merge(v, w), c)>> \in reports
    BY <2>3, <2>4, <2>5 DEF OwnClock
  <2>7. /\ syncVectors'[d] = merge(v, w)
        /\ \A b \in Devices \ {d} : syncVectors'[b] = syncVectors[b]
    BY <1>2, <2>1, <2>2
  <2> HIDE DEF v, w, d
  <2>8. ASSUME NEW b \in Devices PROVE OwnClock(syncVectors[b], b)'
    <3>1. CASE b = d
      BY <1>1, <2>6, <2>7, <3>1 DEF OwnClock
    <3>2. CASE b # d
      BY <1>1, <2>7, <3>2 DEF RowInv, OwnClock
    <3> QED
      BY <3>1, <3>2
  <2> QED
    BY <1>5, <2>1, <2>8 DEF RowInv
<1>9. ASSUME NEW r \in ReqIds, ~LoadClock(r), ~PersistClock(r),
             Step(r) \/ QueryFails(r) \/ \E q \in Requests : Arrive(r, q)
      PROVE  syncVectors' = syncVectors /\ serverVC' = serverVC
  BY <1>9 DEF Step, QueryFails, Arrive, CheckEvent, InsertEvents, InsertRejected,
              MarkProcessed, tables, locals
<1>10. CASE Crash
  BY <1>6, <1>10 DEF Crash, tables, locals
<1> QED
  BY <1>6, <1>7, <1>8, <1>9, <1>10 DEF Next

(***************************************************************************)
(* Every counter in a device's row of sync_vectors came in with a request  *)
(* of that device: the rows of two devices never meet.                     *)
(***************************************************************************)
THEOREM RowsNeverMeet == Spec => []RowIsOwnDevices
<1>1. Init => RowInv
  BY EmptyIsClock DEF Init, RowInv, LoadedIsOwn, OwnClock
<1>2. Inv /\ RowInv /\ [Next]_vars => RowInv'
  <2>1. CASE UNCHANGED vars
    BY <2>1 DEF vars, tables, locals, RowInv, LoadedIsOwn, OwnClock, reports
  <2> QED
    BY <2>1, NextKeepsRow
<1> QED
  BY <1>1, <1>2, RowInvSuffices, InvHolds, PTL DEF Spec

----------------------------------------------------------------------------
\* A handler's step is its own: it was awaiting a query, and the others stay put.
LEMMA StepIsOwn ==
    ASSUME Inv, NEW r \in ReqIds, Step(r) \/ QueryFails(r)
    PROVE  /\ pc[r] \in Awaiting
           /\ request' = request
           /\ pc'[r] # "load" /\ pc'[r] # "new"
           /\ pc'[r] \in {"check", "insert", "mark", "persist"} =>
                 pc[r] \in {"load", "check", "insert", "mark"}
           /\ \A t \in ReqIds \ {r} :
                 /\ pc'[t] = pc[t] /\ serverVC'[t] = serverVC[t]
                 /\ toInsert'[t] = toInsert[t] /\ conflicts'[t] = conflicts[t]
<1>1. pc \in [ReqIds -> Awaiting \cup {"new", "answered", "failed"}] /\ DOMAIN serverVC = ReqIds
  BY DEF Inv, TypeOK
<1>2. CASE LoadClock(r)
  BY <1>1, <1>2, AfterEventLeads DEF LoadClock, Awaiting
<1>3. CASE CheckEvent(r)
  <2>1. /\ pc[r] = "check" /\ request' = request /\ serverVC' = serverVC
        /\ pc' = [pc EXCEPT ![r] = AfterEvent(r, next[r], toInsert'[r])]
    BY <1>3 DEF CheckEvent
  <2>2. AfterEvent(r, next[r], toInsert'[r]) \in {"check", "persist", "insert"}
    BY AfterEventLeads
  <2> QED
    BY <1>1, <1>3, <2>1, <2>2, TurnOfLoop DEF Awaiting
<1>4. CASE InsertEvents(r) \/ InsertRejected(r) \/ MarkProcessed(r) \/ PersistClock(r) \/ QueryFails(r)
  BY <1>1, <1>4 DEF InsertEvents, InsertRejected, MarkProcessed, PersistClock, QueryFails,
                    Continue, Awaiting, locals
<1> QED
  BY <1>2, <1>3, <1>4 DEF Step

LEMMA ArrivalIsOwn ==
    ASSUME Inv, NEW r \in ReqIds, NEW q, Arrive(r, q)
    PROVE  /\ pc[r] = "new" /\ pc'[r] = "load" /\ request'[r] = q
           /\ UNCHANGED <<tables, locals>>
           /\ \A t \in ReqIds \ {r} : pc'[t] = pc[t] /\ request'[t] = request[t]
  BY DEF Arrive, Inv, TypeOK

\* Without overlap one handler is under way at a time, so what it loaded is still
\* the stored row when it merges.
Alone == \A r, t \in ReqIds : pc[r] \in Awaiting /\ pc[t] \in Awaiting => r = t

LoadedIsCurrent ==
    \A r \in ReqIds : pc[r] \in {"check", "insert", "mark", "persist"} =>
        serverVC[r] = syncVectors[request[r].deviceId]

NoOverlapInv == "overlap" \notin faults => Alone /\ LoadedIsCurrent

LEMMA NextKeepsNoOverlap ==
    ASSUME Inv, NoOverlapInv, Next
    PROVE  NoOverlapInv'
<1> SUFFICES ASSUME "overlap" \notin faults PROVE Alone' /\ LoadedIsCurrent'
  BY DEF Next, NoOverlapInv
<1>1. Alone /\ LoadedIsCurrent
  BY DEF NoOverlapInv
<1>2. ASSUME NEW r \in ReqIds, NEW q \in Requests, Arrive(r, q) PROVE Alone' /\ LoadedIsCurrent'
  <2>1. \A t \in ReqIds : pc[t] \notin Awaiting
    BY <1>2 DEF Arrive, InFlight
  <2>2. pc'[r] = "load" /\ \A t \in ReqIds \ {r} : pc'[t] \notin Awaiting
    BY <1>2, <2>1, ArrivalIsOwn
  <2> QED
    BY <2>2 DEF Alone, LoadedIsCurrent, Awaiting
<1>3. ASSUME NEW r \in ReqIds, Step(r) \/ QueryFails(r) PROVE Alone' /\ LoadedIsCurrent'
  <2>1. \A t \in ReqIds \ {r} : pc[t] \notin Awaiting /\ pc'[t] \notin Awaiting
    BY <1>1, <1>3, StepIsOwn DEF Alone
  <2>2. Alone'
    BY <2>1 DEF Alone
  <2>3. pc'[r] \in {"check", "insert", "mark", "persist"} =>
           serverVC'[r] = syncVectors'[request'[r].deviceId]
    <3>1. CASE LoadClock(r)
      BY <3>1 DEF LoadClock, tables, Inv, TypeOK
    <3>2. CASE ~LoadClock(r) /\ ~PersistClock(r)
      <4>1. serverVC' = serverVC /\ syncVectors' = syncVectors
        BY <1>3, <3>2 DEF Step, QueryFails, CheckEvent, InsertEvents, InsertRejected,
                          MarkProcessed, tables, locals
      <4>2. pc'[r] \in {"check", "insert", "mark", "persist"} => pc[r] # "load"
        BY <1>3, <3>2 DEF Step, QueryFails, CheckEvent, InsertEvents, InsertRejected,
                          MarkProcessed, Inv, TypeOK
      <4>3. pc'[r] \in {"check", "insert", "mark", "persist"} =>
               pc[r] \in {"check", "insert", "mark", "persist"}
        BY <1>3, <4>2, StepIsOwn
      <4> QED
        BY <1>1, <1>3, <4>1, <4>3, StepIsOwn DEF LoadedIsCurrent
    <3>3. CASE PersistClock(r)
      BY <1>3, <3>3, StepIsOwn DEF PersistClock
    <3> QED
      BY <3>1, <3>2, <3>3
  <2>4. LoadedIsCurrent'
    BY <2>1, <2>3 DEF LoadedIsCurrent, Awaiting
  <2> QED
    BY <2>2, <2>4
<1>4. CASE Crash
  <2>1. \A t \in ReqIds : pc'[t] \notin Awaiting
    BY <1>4 DEF Crash, InFlight, Awaiting
  <2> QED
    BY <2>1 DEF Alone, LoadedIsCurrent, Awaiting
<1> QED
  BY <1>2, <1>3, <1>4 DEF Next

LEMMA NoOverlapHolds == Spec => []NoOverlapInv
<1>1. Init => NoOverlapInv
  BY DEF Init, NoOverlapInv, Alone, LoadedIsCurrent, Awaiting
<1>2. Inv /\ NoOverlapInv /\ [Next]_vars => NoOverlapInv'
  <2>1. CASE UNCHANGED vars
    BY <2>1 DEF vars, tables, locals, NoOverlapInv, Alone, LoadedIsCurrent
  <2> QED
    BY <2>1, NextKeepsNoOverlap
<1> QED
  BY <1>1, <1>2, InvHolds, PTL DEF Spec

\* Without overlap the row of a device only moves forward.
LEMMA RowsMoveForward ==
    ASSUME Inv, NoOverlapInv, Next, "overlap" \notin faults, NEW d \in Devices
    PROVE  Leq(syncVectors[d], syncVectors'[d])
<1>1. DOMAIN syncVectors = Devices /\ IsClock(syncVectors[d])
  BY DEF Inv, TypeOK
<1>2. CASE syncVectors' = syncVectors
  BY <1>1, <1>2, AtNat DEF Leq
<1>3. ASSUME NEW r \in ReqIds, PersistClock(r) PROVE Leq(syncVectors[d], syncVectors'[d])
  <2>1. /\ pc[r] = "persist"
        /\ syncVectors' = [syncVectors EXCEPT ![request[r].deviceId] =
                              merge(serverVC[r], request[r].clientVectorClock)]
    BY <1>3 DEF PersistClock, Answer
  <2>2. serverVC[r] = syncVectors[request[r].deviceId]
    BY <2>1 DEF NoOverlapInv, LoadedIsCurrent
  <2>3. IsClock(serverVC[r]) /\ IsClock(request[r].clientVectorClock)
    BY <2>1 DEF Inv, TypeOK, IsRequest
  <2>4. Leq(serverVC[r], merge(serverVC[r], request[r].clientVectorClock))
    BY <2>3, MergeIsLub
  <2>5. CASE d = request[r].deviceId
    BY <1>1, <2>1, <2>2, <2>4, <2>5
  <2>6. CASE d # request[r].deviceId
    BY <1>1, <1>2, <2>1, <2>6, AtNat DEF Leq
  <2> QED
    BY <2>5, <2>6
<1>4. ASSUME NEW r \in ReqIds, Step(r) \/ QueryFails(r), ~PersistClock(r)
      PROVE  syncVectors' = syncVectors
  BY <1>4 DEF Step, QueryFails, LoadClock, CheckEvent, InsertEvents, InsertRejected,
              MarkProcessed, tables
<1>5. CASE (\E r \in ReqIds, q \in Requests : Arrive(r, q)) \/ Crash
  BY <1>2, <1>5 DEF Arrive, Crash, tables
<1> QED
  BY <1>2, <1>3, <1>4, <1>5 DEF Next

(***************************************************************************)
(* Without overlap the stored row never falls behind a clock the server    *)
(* has acknowledged, failing queries and restarts included.                *)
(***************************************************************************)
THEOREM AcknowledgedClockStays == Spec => []AnsweredClockKept
<1>1. Init => AnsweredClockKept
  BY DEF Init, AnsweredClockKept
<1>2. ASSUME Inv, NoOverlapInv, AnsweredClockKept, Next, "overlap" \notin faults,
             NEW r \in ReqIds, pc'[r] = "answered"
      PROVE  Leq(request'[r].clientVectorClock, syncVectors'[request'[r].deviceId])
  <2>1. CASE pc[r] = "answered"
    <3>1. request'[r] = request[r] /\ IsRequest(request[r])
      BY <1>2, <2>1, RequestsStay DEF Inv, TypeOK
    <3> DEFINE w == request[r].clientVectorClock
               d == request[r].deviceId
    <3>2. IsClock(w) /\ d \in Devices /\ Leq(w, syncVectors[d])
      BY <1>2, <2>1, <3>1 DEF AnsweredClockKept, IsRequest
    <3>3. IsClock(syncVectors[d]) /\ IsClock(syncVectors'[d])
      BY <1>2, <3>2, NextKeepsInv DEF Inv, TypeOK
    <3>4. Leq(syncVectors[d], syncVectors'[d])
      BY <1>2, <3>2, RowsMoveForward
    <3> HIDE DEF w, d
    <3>5. Leq(w, syncVectors'[d])
      BY <3>2, <3>3, <3>4, LeqTransitive
    <3> QED
      BY <3>1, <3>5 DEF w, d
  <2>2. CASE pc[r] # "answered"
    <3>1. PersistClock(r)
      <4>1. ASSUME NEW t \in ReqIds, NEW q \in Requests, Arrive(t, q) PROVE FALSE
        BY <1>2, <2>2, <4>1, ArrivalIsOwn
      <4>2. ~Crash
        BY <1>2, <2>2 DEF Crash
      <4>3. PICK t \in ReqIds : Step(t) \/ QueryFails(t)
        BY <1>2, <4>1, <4>2 DEF Next
      <4>4. t = r
        BY <1>2, <2>2, <4>3, StepIsOwn
      <4>5. pc \in [ReqIds -> Awaiting \cup {"new", "answered", "failed"}]
        BY <1>2 DEF Inv, TypeOK
      <4>6. ~LoadClock(r)
        BY <1>2, <4>5, AfterEventLeads DEF LoadClock
      <4>7. ~CheckEvent(r)
        BY <1>2, <4>5, AfterEventLeads DEF CheckEvent
      <4> QED
        BY <1>2, <4>3, <4>4, <4>5, <4>6, <4>7 DEF Step, QueryFails, InsertEvents, InsertRejected,
                                                  MarkProcessed, Continue
    <3>2. /\ syncVectors' = [syncVectors EXCEPT ![request[r].deviceId] =
                                merge(serverVC[r], request[r].clientVectorClock)]
          /\ request' = request /\ pc[r] = "persist"
      BY <3>1 DEF PersistClock, Answer
    <3>3. IsClock(serverVC[r]) /\ IsRequest(request[r]) /\ DOMAIN syncVectors = Devices
      BY <1>2, <3>2 DEF Inv, TypeOK
    <3>4. Leq(request[r].clientVectorClock, merge(serverVC[r], request[r].clientVectorClock))
      BY <3>3, MergeIsLub DEF IsRequest
    <3> QED
      BY <3>2, <3>3, <3>4 DEF IsRequest
  <2> QED
    BY <2>1, <2>2
<1>3. Inv /\ NoOverlapInv /\ AnsweredClockKept /\ [Next]_vars => AnsweredClockKept'
  <2>1. CASE UNCHANGED vars
    BY <2>1 DEF vars, tables, AnsweredClockKept
  <2>2. Next => faults' = faults
    BY DEF Next
  <2> QED
    BY <1>2, <2>1, <2>2 DEF AnsweredClockKept
<1> QED
  BY <1>1, <1>3, InvHolds, NoOverlapHolds, PTL DEF Spec

----------------------------------------------------------------------------
\* A handler that has loaded its clock or comes to load it has collected nothing.
LEMMA LoadingHasNothing ==
    ASSUME Inv, NEW r \in ReqIds, pc[r] \in {"new", "load"}
    PROVE  DOMAIN toInsert[r] = {} /\ DOMAIN conflicts[r] = {}
<1>1. IsEventSeq(toInsert[r]) /\ conflicts[r] \in Seq(EventIds) /\ skipped[r] \in Nat
  BY DEF Inv, TypeOK
<1>2. DOMAIN toInsert[r] = 1..Len(toInsert[r]) /\ Len(toInsert[r]) \in Nat
  BY <1>1, EventSeqPlaces
<1>3. DOMAIN conflicts[r] = 1..Len(conflicts[r]) /\ Len(conflicts[r]) \in Nat
  BY <1>1
<1>4. CASE pc[r] = "new"
  BY <1>4, EmptyIsEventSeq DEF Inv, HandlerInv, Fresh
<1>5. CASE pc[r] = "load"
  <2>1. LoopInv(r) /\ next[r] = 1
    BY <1>5 DEF Inv, HandlerInv, LoopInv
  <2>2. Len(toInsert[r]) + skipped[r] = 0 /\ Len(conflicts[r]) <= skipped[r]
    BY <2>1 DEF LoopInv
  <2>3. Len(toInsert[r]) = 0 /\ Len(conflicts[r]) = 0
    BY <1>1, <1>2, <1>3, <2>2
  <2> QED
    BY <1>2, <1>3, <2>3
<1> QED
  BY <1>4, <1>5

\* What one turn of the loop may add to either list, and why.
LEMMA TurnAdds ==
    ASSUME Inv, NEW r \in ReqIds, CheckEvent(r)
    PROVE  LET e == Batch(r)[next[r]] IN
           /\ \A k \in DOMAIN toInsert'[r] :
                 \/ k \in DOMAIN toInsert[r] /\ toInsert'[r][k] = toInsert[r][k]
                 \/ /\ toInsert'[r][k] = e
                    /\ e.id \notin processed /\ ~happenedBefore(e.vc, serverVC[r])
           /\ \A k \in DOMAIN conflicts'[r] :
                 \/ k \in DOMAIN conflicts[r] /\ conflicts'[r][k] = conflicts[r][k]
                 \/ /\ conflicts'[r][k] = e.id
                    /\ e.id \notin processed /\ happenedBefore(e.vc, serverVC[r])
<1> DEFINE e == Batch(r)[next[r]]
<1>1. /\ pc[r] = "check"
      /\ \/ SkipProcessed(r)
         \/ e.id \notin processed /\ happenedBefore(e.vc, serverVC[r]) /\ Supersede(r, e)
         \/ e.id \notin processed /\ ~happenedBefore(e.vc, serverVC[r]) /\ Accept(r, e)
  BY DEF CheckEvent
<1>2. /\ DOMAIN toInsert = ReqIds /\ IsEventSeq(toInsert[r])
      /\ DOMAIN conflicts = ReqIds /\ conflicts[r] \in Seq(EventIds)
  BY DEF Inv, TypeOK
<1>3. IsEvent(e)
  <2>1. next[r] \in 1..Len(Batch(r)) /\ IsRequest(request[r])
    BY <1>1, TurnOfLoop DEF Inv, TypeOK
  <2> QED
    BY <2>1, BatchPlaces
<1> HIDE DEF e
<1>4. CASE SkipProcessed(r)
  BY <1>4 DEF SkipProcessed, e
<1>5. CASE e.id \notin processed /\ happenedBefore(e.vc, serverVC[r]) /\ Supersede(r, e)
  <2>1. toInsert' = toInsert /\ conflicts'[r] = Append(conflicts[r], e.id)
    BY <1>2, <1>5 DEF Supersede
  <2>2. e.id \in EventIds
    BY <1>3 DEF IsEvent
  <2>3. /\ Len(conflicts[r]) \in Nat /\ DOMAIN conflicts[r] = 1..Len(conflicts[r])
        /\ DOMAIN conflicts'[r] = 1..Len(conflicts[r]) + 1
        /\ \A i \in 1..Len(conflicts[r]) : conflicts'[r][i] = conflicts[r][i]
        /\ conflicts'[r][Len(conflicts[r]) + 1] = e.id
    BY <1>2, <2>1, <2>2, ConflictsAppend
  <2>4. \A k \in DOMAIN conflicts'[r] : k \in 1..Len(conflicts[r]) \/ k = Len(conflicts[r]) + 1
    BY <2>3
  <2> QED
    BY <1>5, <2>1, <2>3, <2>4 DEF e
<1>6. CASE e.id \notin processed /\ ~happenedBefore(e.vc, serverVC[r]) /\ Accept(r, e)
  <2>1. conflicts' = conflicts /\ toInsert'[r] = Append(toInsert[r], e)
    BY <1>2, <1>6 DEF Accept
  <2>2. /\ Len(toInsert[r]) \in Nat /\ DOMAIN toInsert[r] = 1..Len(toInsert[r])
        /\ DOMAIN toInsert'[r] = 1..Len(toInsert[r]) + 1
        /\ \A i \in 1..Len(toInsert[r]) : toInsert'[r][i] = toInsert[r][i]
        /\ toInsert'[r][Len(toInsert[r]) + 1] = e
    BY <1>2, <1>3, <2>1, EventSeqAppend, EventSeqPlaces
  <2>3. \A k \in DOMAIN toInsert'[r] : k \in 1..Len(toInsert[r]) \/ k = Len(toInsert[r]) + 1
    BY <2>2
  <2> QED
    BY <1>6, <2>1, <2>2, <2>3 DEF e
<1> QED
  BY <1>1, <1>4, <1>5, <1>6 DEF e

\* Undisturbed and unfailing, a handler that looks at its events finds every stored
\* one marked: the only unmarked rows would be of a handler between its insert and
\* its mark.
LEMMA StoredIsMarked ==
    ASSUME Inv, NoOverlapInv, UnmarkedHasCause, faults = {},
           NEW r \in ReqIds, pc[r] \in Awaiting \ {"mark"},
           NEW id, Stored(id)
    PROVE  id \in processed
<1> SUFFICES ASSUME id \notin processed PROVE FALSE
  OBVIOUS
<1>1. PICK row \in rows : row.event = id
  BY DEF Stored
<1>2. PICK t \in ReqIds : pc[t] = "mark"
  BY <1>1 DEF UnmarkedHasCause
<1> QED
  BY <1>2 DEF NoOverlapInv, Alone, Awaiting

\* What is about to be inserted is not stored yet.
CollectedIsNew ==
    \A r \in ReqIds : pc[r] \in {"check", "insert"} =>
        \A k \in DOMAIN toInsert[r] : ~Stored(toInsert[r][k].id)

OnceInv == faults = {} =>
    /\ CollectedIsNew
    /\ \A x, y \in rows : x.event = y.event => x.by = y.by

LEMMA NextKeepsOnce ==
    ASSUME Inv, NoOverlapInv, UnmarkedHasCause, OnceInv, Next
    PROVE  OnceInv'
<1> DEFINE Once == \A x, y \in rows : x.event = y.event => x.by = y.by
<1> SUFFICES ASSUME faults = {} PROVE CollectedIsNew' /\ Once'
  BY DEF Next, OnceInv
<1>1. CollectedIsNew /\ Once
  BY DEF OnceInv
<1>2. rows' = rows => Once' /\ \A id : Stored(id)' => Stored(id)
  BY <1>1 DEF Stored
<1> HIDE DEF Once
<1>3. ASSUME NEW r \in ReqIds, NEW q \in Requests, Arrive(r, q) PROVE CollectedIsNew' /\ Once'
  <2>1. rows' = rows /\ toInsert' = toInsert
    BY <1>3 DEF Arrive, tables, locals
  <2> QED
    BY <1>1, <1>2, <1>3, <2>1, ArrivalIsOwn DEF CollectedIsNew
<1>4. ASSUME NEW r \in ReqIds, Step(r) \/ QueryFails(r) PROVE CollectedIsNew' /\ Once'
  <2>1. \A t \in ReqIds \ {r} : pc'[t] \notin {"check", "insert"}
    BY <1>4, StepIsOwn DEF NoOverlapInv, Alone, Awaiting
  <2>2. CASE InsertEvents(r)
    <3>1. /\ pc[r] = "insert"
          /\ rows' = rows \cup NewRows(r)
          /\ pc'[r] = "mark"
      BY <2>2 DEF InsertEvents, Continue, Inv, TypeOK
    <3>2. \A x \in NewRows(r) : x.by = r /\ ~Stored(x.event)
      BY <1>1, <3>1 DEF NewRows, CollectedIsNew
    <3>3. \A x \in NewRows(r), y \in rows : x.event # y.event
      BY <3>2 DEF Stored
    <3>4. Once'
      BY <1>1, <3>1, <3>2, <3>3 DEF Once
    <3> QED
      BY <2>1, <3>1, <3>4 DEF CollectedIsNew
  <2>3. CASE ~InsertEvents(r)
    <3>1. rows' = rows
      BY <1>4, <2>3 DEF Step, QueryFails, LoadClock, CheckEvent, InsertRejected,
                        MarkProcessed, PersistClock, tables
    <3>2. ASSUME pc'[r] \in {"check", "insert"}, NEW k \in DOMAIN toInsert'[r]
          PROVE  ~Stored(toInsert'[r][k].id)
      <4>1. LoadClock(r) \/ CheckEvent(r)
        BY <1>4, <2>3, <3>2 DEF Step, QueryFails, InsertRejected, MarkProcessed, PersistClock,
                                Continue, Inv, TypeOK
      <4>2. CASE LoadClock(r)
        BY <3>2, <4>2, LoadingHasNothing DEF LoadClock
      <4>3. CASE CheckEvent(r)
        <5>1. pc[r] = "check"
          BY <4>3 DEF CheckEvent
        <5>2. \/ k \in DOMAIN toInsert[r] /\ toInsert'[r][k] = toInsert[r][k]
              \/ toInsert'[r][k].id \notin processed
          BY <3>2, <4>3, TurnAdds
        <5>3. pc[r] \in Awaiting \ {"mark"}
          BY <5>1 DEF Awaiting
        <5> QED
          BY <1>1, <5>1, <5>2, <5>3, StoredIsMarked DEF CollectedIsNew
      <4> QED
        BY <4>1, <4>2, <4>3
    <3> QED
      BY <1>2, <2>1, <3>1, <3>2 DEF CollectedIsNew
  <2> QED
    BY <2>2, <2>3
<1>5. ~Crash
  BY DEF Crash
<1> QED
  BY <1>3, <1>4, <1>5 DEF Next

LEMMA OnceHolds == Spec => []OnceInv
<1>1. Init => OnceInv
  BY DEF Init, OnceInv, CollectedIsNew
<1>2. Inv /\ NoOverlapInv /\ UnmarkedHasCause /\ OnceInv /\ [Next]_vars => OnceInv'
  <2>1. CASE UNCHANGED vars
    BY <2>1 DEF vars, tables, locals, OnceInv, CollectedIsNew, Stored
  <2> QED
    BY <2>1, NextKeepsOnce
<1> QED
  BY <1>1, <1>2, InvHolds, NoOverlapHolds, UnmarkedIsExplained, PTL DEF Spec

(***************************************************************************)
(* Without overlap and failing queries no event is stored by two requests: *)
(* there the lookup in processed_event_ids is enough, rejected inserts     *)
(* included.                                                               *)
(***************************************************************************)
THEOREM StoredByOneRequest == Spec => []OneRequestPerEvent
<1>1. OnceInv => OneRequestPerEvent
  BY DEF OnceInv, OneRequestPerEvent
<1> QED
  BY <1>1, OnceHolds, PTL

----------------------------------------------------------------------------
\* A clock that is behind stays behind what the other grows to.
LEMMA BeforeGrows ==
    ASSUME NEW u, NEW v, NEW w, IsClock(u), IsClock(v), IsClock(w),
           happenedBefore(u, v), Leq(v, w)
    PROVE  happenedBefore(u, w)
<1>1. Leq(u, v) /\ ~Leq(v, u)
  BY CompareIs DEF happenedBefore
<1>2. Leq(u, w)
  BY <1>1, LeqTransitive
<1>3. Leq(w, u) => Leq(v, u)
  BY LeqTransitive
<1> QED
  BY <1>1, <1>2, <1>3, CompareIs DEF happenedBefore

\* The accepted part of a batch is its beginning.
LEMMA BatchIsPrefix ==
    ASSUME NEW r \in ReqIds, IsRequest(request[r]), NEW i \in 1..Len(Batch(r))
    PROVE  i \in DOMAIN request[r].events /\ Batch(r)[i] = request[r].events[i]
<1> DEFINE s == request[r].events
           S == {s[j] : j \in DOMAIN s}
           n == IF Len(s) <= BatchMax THEN Len(s) ELSE BatchMax
<1>1. s \in Seq(S)
  BY DEF IsRequest
<1>2. Batch(r) = SubSeq(s, 1, n)
  BY DEF Batch
<1> HIDE DEF s, S
<1>3. Len(s) \in Nat /\ DOMAIN s = 1..Len(s)
  BY <1>1
<1>4. n \in 0..Len(s)
  BY <1>3, BatchMaxAssumption
<1> HIDE DEF n
<1>5. Len(SubSeq(s, 1, n)) = n /\ \A j \in 1..n : SubSeq(s, 1, n)[j] = s[j]
  BY <1>1, <1>3, <1>4
<1> QED
  BY <1>2, <1>3, <1>4, <1>5 DEF s

\* The event of a request that a list entry of its handler stands for.
Carries(r, i, id) == i \in DOMAIN request[r].events /\ request[r].events[i].id = id

\* A collected event is one of the request's and not behind the stored row.
CollectedIsRecent ==
    \A r \in ReqIds : pc[r] \in {"check", "insert"} =>
        \A k \in DOMAIN toInsert[r] : \E i :
            /\ Carries(r, i, toInsert[r][k].id)
            /\ ~happenedBefore(request[r].events[i].vc, serverVC[r])

\* A discarded event is one of the request's, behind the stored row, and has no row.
DiscardedIsBehind ==
    \A r \in ReqIds : pc[r] # "new" =>
        \A k \in DOMAIN conflicts[r] :
            /\ \E i : /\ Carries(r, i, conflicts[r][k])
                      /\ happenedBefore(request[r].events[i].vc, syncVectors[request[r].deviceId])
            /\ ~Stored(conflicts[r][k])

BodiesAreRequests == \A r \in ReqIds : pc[r] # "new" => request[r] \in Requests

DiscardInv == faults = {} => BodiesAreRequests /\ CollectedIsRecent /\ DiscardedIsBehind

\* One origin: what one request has discarded, none has collected.
LEMMA CollectedIsNotDiscarded ==
    ASSUME Inv, NoOverlapInv, faults = {},
           BodiesAreRequests, CollectedIsRecent, DiscardedIsBehind,
           NEW r \in ReqIds, pc[r] = "insert", NEW k \in DOMAIN toInsert[r],
           NEW t \in ReqIds, pc[t] # "new", NEW l \in DOMAIN conflicts[t]
    PROVE  toInsert[r][k].id # conflicts[t][l]
<1> SUFFICES ASSUME toInsert[r][k].id = conflicts[t][l] PROVE FALSE
  OBVIOUS
<1>1. PICK i : /\ Carries(r, i, toInsert[r][k].id)
               /\ ~happenedBefore(request[r].events[i].vc, serverVC[r])
  BY DEF CollectedIsRecent
<1>2. PICK j : /\ Carries(t, j, conflicts[t][l])
               /\ happenedBefore(request[t].events[j].vc, syncVectors[request[t].deviceId])
  BY DEF DiscardedIsBehind
<1>3. request[r] \in Requests /\ request[t] \in Requests
  BY DEF BodiesAreRequests
<1>4. /\ request[r].events[i].vc = request[t].events[j].vc
      /\ request[r].deviceId = request[t].deviceId
  BY <1>1, <1>2, <1>3, OriginAssumption DEF Carries
<1>5. serverVC[r] = syncVectors[request[r].deviceId]
  BY DEF NoOverlapInv, LoadedIsCurrent
<1> QED
  BY <1>1, <1>2, <1>4, <1>5

LEMMA NextKeepsBodies ==
    ASSUME Inv, BodiesAreRequests, Next
    PROVE  BodiesAreRequests'
<1>1. ASSUME NEW r \in ReqIds, NEW q \in Requests, Arrive(r, q) PROVE BodiesAreRequests'
  BY <1>1, ArrivalIsOwn DEF BodiesAreRequests
<1>2. ASSUME NEW r \in ReqIds, Step(r) \/ QueryFails(r) PROVE BodiesAreRequests'
  BY <1>2, StepIsOwn DEF BodiesAreRequests, Awaiting
<1>3. CASE Crash
  BY <1>3 DEF Crash, InFlight, Awaiting, BodiesAreRequests
<1> QED
  BY <1>1, <1>2, <1>3 DEF Next

LEMMA NextKeepsCollected ==
    ASSUME Inv, NoOverlapInv, faults = {}, CollectedIsRecent, Next
    PROVE  CollectedIsRecent'
<1>1. ASSUME NEW r \in ReqIds, NEW q \in Requests, Arrive(r, q) PROVE CollectedIsRecent'
  <2>1. toInsert' = toInsert /\ serverVC' = serverVC
    BY <1>1 DEF Arrive, locals
  <2> QED
    BY <1>1, <2>1, ArrivalIsOwn DEF CollectedIsRecent, Carries
<1>2. ASSUME NEW r \in ReqIds, Step(r) \/ QueryFails(r) PROVE CollectedIsRecent'
  <2>1. /\ request' = request
        /\ \A t \in ReqIds \ {r} : pc'[t] \notin {"check", "insert"}
    BY <1>2, StepIsOwn DEF NoOverlapInv, Alone, Awaiting
  <2>2. ASSUME pc'[r] \in {"check", "insert"}, NEW k \in DOMAIN toInsert'[r]
        PROVE  \E i : /\ Carries(r, i, toInsert'[r][k].id)
                      /\ ~happenedBefore(request[r].events[i].vc, serverVC'[r])
    <3>1. LoadClock(r) \/ CheckEvent(r)
      BY <1>2, <2>2 DEF Step, QueryFails, InsertEvents, InsertRejected, MarkProcessed,
                        PersistClock, Continue, Inv, TypeOK
    <3>2. CASE LoadClock(r)
      BY <2>2, <3>2, LoadingHasNothing DEF LoadClock
    <3>3. CASE CheckEvent(r)
      <4> DEFINE n == next[r]
                 e == request[r].events[n]
      <4>1. pc[r] = "check" /\ serverVC' = serverVC /\ IsRequest(request[r])
        BY <3>3 DEF CheckEvent, Inv, TypeOK
      <4>2. n \in DOMAIN request[r].events /\ Batch(r)[n] = e
        BY <3>3, <4>1, TurnOfLoop, BatchIsPrefix
      <4>3. \/ k \in DOMAIN toInsert[r] /\ toInsert'[r][k] = toInsert[r][k]
            \/ toInsert'[r][k] = e /\ ~happenedBefore(e.vc, serverVC[r])
        BY <2>2, <3>3, <4>2, TurnAdds
      <4>4. CASE k \in DOMAIN toInsert[r] /\ toInsert'[r][k] = toInsert[r][k]
        BY <4>1, <4>4 DEF CollectedIsRecent
      <4>5. CASE toInsert'[r][k] = e /\ ~happenedBefore(e.vc, serverVC[r])
        BY <4>1, <4>2, <4>5 DEF Carries
      <4> QED
        BY <4>3, <4>4, <4>5
    <3> QED
      BY <3>1, <3>2, <3>3
  <2> QED
    BY <2>1, <2>2 DEF CollectedIsRecent, Carries
<1>3. ~Crash
  BY DEF Crash
<1> QED
  BY <1>1, <1>2, <1>3 DEF Next

LEMMA NextKeepsDiscarded ==
    ASSUME Inv, NoOverlapInv, UnmarkedHasCause, faults = {},
           BodiesAreRequests, CollectedIsRecent, DiscardedIsBehind, Next
    PROVE  DiscardedIsBehind'
<1>1. \A r \in ReqIds : pc[r] # "new" => pc'[r] # "new" /\ request'[r] = request[r]
  BY RequestsStay
\* The row that an event is behind only grows.
<1>2. ASSUME NEW r \in ReqIds, pc[r] # "new", NEW i \in DOMAIN request[r].events,
             happenedBefore(request[r].events[i].vc, syncVectors[request[r].deviceId])
      PROVE  happenedBefore(request[r].events[i].vc, syncVectors'[request[r].deviceId])
  <2> DEFINE d == request[r].deviceId
  <2>1. d \in Devices /\ IsClock(request[r].events[i].vc)
    BY <1>2 DEF Inv, TypeOK, IsRequest, IsEvent
  <2>2. IsClock(syncVectors[d]) /\ IsClock(syncVectors'[d])
    BY <2>1, NextKeepsInv DEF Inv, TypeOK
  <2>3. Leq(syncVectors[d], syncVectors'[d])
    BY <2>1, RowsMoveForward
  <2> QED
    BY <1>2, <2>1, <2>2, <2>3, BeforeGrows
\* No step stores what was discarded.
<1>3. ASSUME NEW t \in ReqIds, pc[t] # "new", NEW l \in DOMAIN conflicts[t],
             NEW id, id = conflicts[t][l]
      PROVE  ~Stored(id)'
  <2>1. CASE rows' = rows
    BY <1>3, <2>1 DEF DiscardedIsBehind, Stored
  <2>2. ASSUME NEW r \in ReqIds, InsertEvents(r) PROVE ~Stored(id)'
    <3>1. pc[r] = "insert" /\ rows' = rows \cup NewRows(r)
      BY <2>2 DEF InsertEvents
    <3>2. \A k \in DOMAIN toInsert[r] : toInsert[r][k].id # id
      BY <1>3, <3>1, CollectedIsNotDiscarded
    <3>3. \A x \in NewRows(r) : x.event # id
      BY <3>2 DEF NewRows
    <3> QED
      BY <1>3, <3>1, <3>3 DEF DiscardedIsBehind, Stored
  <2>3. rows' = rows \/ \E r \in ReqIds : InsertEvents(r)
    BY DEF Next, Arrive, Step, QueryFails, LoadClock, CheckEvent, InsertRejected,
           MarkProcessed, PersistClock, Crash, tables
  <2> QED
    BY <2>1, <2>2, <2>3
\* So what was discarded before the step stays as it is.
<1>4. ASSUME NEW t \in ReqIds, pc[t] # "new", NEW l \in DOMAIN conflicts[t],
             NEW id, id = conflicts[t][l]
      PROVE  /\ \E i : /\ Carries(t, i, id)'
                       /\ happenedBefore(request'[t].events[i].vc,
                                         syncVectors'[request'[t].deviceId])
             /\ ~Stored(id)'
  <2>1. PICK i : /\ Carries(t, i, id)
                 /\ happenedBefore(request[t].events[i].vc, syncVectors[request[t].deviceId])
    BY <1>4 DEF DiscardedIsBehind
  <2>2. happenedBefore(request[t].events[i].vc, syncVectors'[request[t].deviceId])
    BY <1>2, <1>4, <2>1 DEF Carries
  <2>3. Carries(t, i, id)' /\ request'[t] = request[t]
    BY <1>1, <1>4, <2>1 DEF Carries
  <2> QED
    BY <1>3, <1>4, <2>2, <2>3
<1>5. ASSUME NEW t \in ReqIds, conflicts'[t] = conflicts[t], pc'[t] # "new",
             NEW l \in DOMAIN conflicts'[t]
      PROVE  /\ \E i : /\ Carries(t, i, conflicts[t][l])'
                       /\ happenedBefore(request'[t].events[i].vc,
                                         syncVectors'[request'[t].deviceId])
             /\ ~Stored(conflicts[t][l])'
  <2>1. CASE pc[t] # "new"
    BY <1>4, <1>5, <2>1
  <2>2. CASE pc[t] = "new"
    BY <1>5, <2>2, LoadingHasNothing
  <2> QED
    BY <2>1, <2>2
<1>6. ASSUME NEW r \in ReqIds, CheckEvent(r), NEW l \in DOMAIN conflicts'[r]
      PROVE  /\ \E i : /\ Carries(r, i, conflicts[r][l])'
                       /\ happenedBefore(request'[r].events[i].vc,
                                         syncVectors'[request'[r].deviceId])
             /\ ~Stored(conflicts[r][l])'
  <2> DEFINE n == next[r]
             e == request[r].events[n]
  <2>1. /\ pc[r] = "check" /\ IsRequest(request[r])
        /\ rows' = rows /\ syncVectors' = syncVectors /\ request' = request
    BY <1>6 DEF CheckEvent, tables, Inv, TypeOK
  <2>2. n \in DOMAIN request[r].events /\ Batch(r)[n] = e
    BY <1>6, <2>1, TurnOfLoop, BatchIsPrefix
  <2>3. \/ l \in DOMAIN conflicts[r] /\ conflicts'[r][l] = conflicts[r][l]
        \/ /\ conflicts'[r][l] = e.id
           /\ e.id \notin processed /\ happenedBefore(e.vc, serverVC[r])
    BY <1>6, <2>2, TurnAdds
  <2>4. CASE l \in DOMAIN conflicts[r] /\ conflicts'[r][l] = conflicts[r][l]
    BY <2>1, <2>4 DEF DiscardedIsBehind, Carries, Stored
  <2>5. CASE /\ conflicts'[r][l] = e.id
             /\ e.id \notin processed /\ happenedBefore(e.vc, serverVC[r])
    <3>1. serverVC[r] = syncVectors[request[r].deviceId]
      BY <2>1 DEF NoOverlapInv, LoadedIsCurrent
    <3>2. ~Stored(e.id)
      BY <2>1, <2>5, StoredIsMarked DEF Awaiting
    <3> QED
      BY <2>1, <2>2, <2>5, <3>1, <3>2 DEF Carries, Stored
  <2> QED
    BY <2>3, <2>4, <2>5
<1>7. ASSUME NEW t \in ReqIds PROVE conflicts'[t] = conflicts[t] \/ CheckEvent(t)
  <2>1. ASSUME NEW r \in ReqIds, Step(r) \/ QueryFails(r)
        PROVE  conflicts'[t] = conflicts[t] \/ CheckEvent(t)
    <3>1. CASE r # t
      BY <2>1, <3>1, StepIsOwn
    <3>2. CASE r = t
      BY <2>1, <3>2 DEF Step, QueryFails, LoadClock, InsertEvents, InsertRejected,
                        MarkProcessed, PersistClock, locals
    <3> QED
      BY <3>1, <3>2
  <2>2. CASE (\E r \in ReqIds, q \in Requests : Arrive(r, q)) \/ Crash
    BY <2>2 DEF Arrive, Crash, locals
  <2> QED
    BY <2>1, <2>2 DEF Next
<1> QED
  BY <1>5, <1>6, <1>7 DEF DiscardedIsBehind

LEMMA DiscardHolds == Spec => []DiscardInv
<1>1. Init => DiscardInv
  BY DEF Init, DiscardInv, BodiesAreRequests, CollectedIsRecent, DiscardedIsBehind
<1>2. Inv /\ NoOverlapInv /\ UnmarkedHasCause /\ DiscardInv /\ [Next]_vars => DiscardInv'
  <2>1. CASE UNCHANGED vars
    BY <2>1 DEF vars, tables, locals, DiscardInv, BodiesAreRequests, CollectedIsRecent,
                DiscardedIsBehind, Carries, Stored
  <2>2. Next => faults' = faults
    BY DEF Next
  <2> QED
    BY <2>1, <2>2, NextKeepsBodies, NextKeepsCollected, NextKeepsDiscarded DEF DiscardInv
<1> QED
  BY <1>1, <1>2, InvHolds, NoOverlapHolds, UnmarkedIsExplained, PTL DEF Spec

(***************************************************************************)
(* Without overlap and failing queries 'event_superseded' is final: the    *)
(* event the client is told was discarded has no row, now or later.  It    *)
(* rests on an event having one clock and one device for life.             *)
(***************************************************************************)
THEOREM DiscardedStaysAbsent == Spec => []DiscardedIsAbsent
<1>1. DiscardInv => DiscardedIsAbsent
  BY DEF DiscardInv, DiscardedIsBehind, DiscardedIsAbsent
<1> QED
  BY <1>1, DiscardHolds, PTL
====
