---- MODULE ClockCausalityProofs ----
(***************************************************************************)
(* Vector clocks tell the causal order, for any number of devices and of   *)
(* events: the operations of vectorClock.ts, used as their comments say,   *)
(* make compare() decide causality.  First what the operations return, for *)
(* any set of devices: the facts every proof about clocks rests on.        *)
(***************************************************************************)
EXTENDS ClockCausality, TLAPS

\* A counter read with "?? 0" is a natural number, also where it is missing.
LEMMA AtNat ==
    ASSUME NEW vc, IsClock(vc), NEW d
    PROVE  At(vc, d) \in Nat
  BY DEF IsClock, At

LEMMA EmptyIsClock ==
    /\ IsClock(EmptyClock)
    /\ \A d : At(EmptyClock, d) = 0
  BY DEF IsClock, EmptyClock, At

\* increment() advances one counter and leaves the others.
LEMMA IncrementIs ==
    ASSUME NEW vc, IsClock(vc), NEW d \in Devices
    PROVE  /\ IsClock(increment(vc, d))
           /\ At(increment(vc, d), d) = At(vc, d) + 1
           /\ \A c : c # d => At(increment(vc, d), c) = At(vc, c)
  BY AtNat DEF IsClock, At, increment

\* merge() is the element-wise maximum, a missing counter being 0.
LEMMA MergeIs ==
    ASSUME NEW v, NEW w, IsClock(v), IsClock(w)
    PROVE  /\ IsClock(merge(v, w))
           /\ \A d : At(merge(v, w), d) =
                        IF At(v, d) <= At(w, d) THEN At(w, d) ELSE At(v, d)
  BY DEF IsClock, At, merge

----------------------------------------------------------------------------
\* On the devices a clock mentions or not: Dominates looks only at mentioned
\* counters, and that is enough.
LEMMA DominatesIs ==
    ASSUME NEW v, NEW w, IsClock(v), IsClock(w)
    PROVE  Dominates(v, w) <=> \E d \in Devices : At(v, d) > At(w, d)
  BY DEF IsClock, At, Dominates

LEMMA DominatesIsNotLeq ==
    ASSUME NEW v, NEW w, IsClock(v), IsClock(w)
    PROVE  Dominates(v, w) <=> ~Leq(v, w)
  BY DominatesIs, AtNat DEF Leq

LEMMA LeqTransitive ==
    ASSUME NEW u, NEW v, NEW w, IsClock(u), IsClock(v), IsClock(w),
           Leq(u, v), Leq(v, w)
    PROVE  Leq(u, w)
<1> SUFFICES ASSUME NEW d \in Devices PROVE At(u, d) <= At(w, d)
  BY DEF Leq
<1>1. At(u, d) \in Nat /\ At(v, d) \in Nat /\ At(w, d) \in Nat
  BY AtNat
<1>2. At(u, d) <= At(v, d) /\ At(v, d) <= At(w, d)
  BY DEF Leq
<1> QED
  BY <1>1, <1>2

(***************************************************************************)
(* merge() is the least upper bound of two clocks: it is above both, and   *)
(* below whatever is above both.  So no sync takes knowledge back and none *)
(* invents any.                                                            *)
(***************************************************************************)
THEOREM MergeIsLub ==
    ASSUME NEW v, NEW w, NEW u, IsClock(v), IsClock(w), IsClock(u)
    PROVE  /\ Leq(v, merge(v, w)) /\ Leq(w, merge(v, w))
           /\ Leq(v, u) /\ Leq(w, u) => Leq(merge(v, w), u)
  BY MergeIs, AtNat DEF Leq

(***************************************************************************)
(* The four answers of compare() are the four relations of the element-wise*)
(* order: exactly one fits, and it is the one returned.                    *)
(***************************************************************************)
THEOREM CompareIs ==
    ASSUME NEW v, NEW w, IsClock(v), IsClock(w)
    PROVE  /\ compare(v, w) = "equal"      <=>  Leq(v, w) /\  Leq(w, v)
           /\ compare(v, w) = "before"     <=>  Leq(v, w) /\ ~Leq(w, v)
           /\ compare(v, w) = "after"      <=> ~Leq(v, w) /\  Leq(w, v)
           /\ compare(v, w) = "concurrent" <=> ~Leq(v, w) /\ ~Leq(w, v)
  BY DominatesIsNotLeq DEF compare

(***************************************************************************)
(* Seen from the other clock, 'before' is 'after' and the other two answers*)
(* stay: two replicas that compare the same clocks never disagree.         *)
(***************************************************************************)
THEOREM CompareIsDual ==
    ASSUME NEW v, NEW w, IsClock(v), IsClock(w)
    PROVE  /\ compare(v, w) = "before"     <=> compare(w, v) = "after"
           /\ compare(v, w) = "equal"      <=> compare(w, v) = "equal"
           /\ compare(v, w) = "concurrent" <=> compare(w, v) = "concurrent"
  BY CompareIs

(***************************************************************************)
(* happenedBefore() is a strict order: no clock precedes itself, and what  *)
(* precedes a predecessor precedes.                                        *)
(***************************************************************************)
THEOREM HappenedBeforeIsOrder ==
    ASSUME NEW u, NEW v, NEW w, IsClock(u), IsClock(v), IsClock(w)
    PROVE  /\ ~happenedBefore(v, v)
           /\ happenedBefore(u, v) /\ happenedBefore(v, w) => happenedBefore(u, w)
<1>1. Leq(u, v) /\ Leq(v, w) => Leq(u, w)
  BY LeqTransitive
<1>2. Leq(w, u) /\ Leq(u, v) => Leq(w, v)
  BY LeqTransitive
<1> QED
  BY <1>1, <1>2, CompareIs DEF happenedBefore

----------------------------------------------------------------------------
\* How often device d has incremented.
Own(d) == At(clock[d], d)

\* A device's own counter numbers its stamps without a gap.
StampsAreNumbered ==
    \A d \in Devices : /\ Own(d) <= MaxEvents
                       /\ \A n \in 1..MaxEvents :
                             n <= Own(d) <=> \E s \in stamps : s.event = <<d, n>>

\* Nobody counts more events of a device than it has made.
Bounded(vc) == \A d \in Devices : At(vc, d) <= Own(d)

\* Who counts an event knows what its device knew when it was made.
Closed(vc) == \A s \in stamps : s.event[2] <= At(vc, s.event[1]) => Leq(s.vc, vc)

\* An event carries its own number, and its name belongs to it alone.
StampsAreTheirs ==
    /\ \A s \in stamps : s.event[2] = At(s.vc, s.event[1])
    /\ \A s, t \in stamps : s.event = t.event => s = t

\* Two events never know of each other.
NoCycle ==
    \A s, t \in stamps :
        s.event[2] <= At(t.vc, s.event[1]) /\ t.event[2] <= At(s.vc, t.event[1]) => s = t

Inv ==
    /\ TypeOK
    /\ ClockIsHistory
    /\ StampsAreNumbered
    /\ \A d \in Devices : Bounded(clock[d]) /\ Closed(clock[d])
    /\ \A s \in stamps : Bounded(s.vc) /\ Closed(s.vc)
    /\ StampsAreTheirs
    /\ NoCycle

----------------------------------------------------------------------------
LEMMA EventNames ==
    ASSUME NEW x \in EventName
    PROVE  /\ x[1] \in Devices /\ x[2] \in 1..MaxEvents /\ x[2] \in Nat
           /\ x = <<x[1], x[2]>>
  BY MaxEventsAssumption DEF EventName

LEMMA PastOfEmpty == PastOf(EmptyClock) = {}
<1> SUFFICES ASSUME NEW x \in EventName, x[2] <= At(EmptyClock, x[1]) PROVE FALSE
  BY DEF PastOf
<1> QED
  BY EventNames, EmptyIsClock

LEMMA InitInv == Init => Inv
<1> SUFFICES ASSUME Init PROVE Inv
  OBVIOUS
<1>1. TypeOK /\ ClockIsHistory
  BY EmptyIsClock, PastOfEmpty DEF Init, TypeOK, ClockIsHistory
<1>2. \A d, e \in Devices : At(clock[e], d) = 0
  BY EmptyIsClock DEF Init
<1>3. stamps = {} /\ (\A d \in Devices : Own(d) = 0) /\ MaxEvents \in Nat
  BY <1>2, MaxEventsAssumption DEF Init, Own
<1>4. StampsAreNumbered
  <2>1. ASSUME NEW d \in Devices
        PROVE  /\ Own(d) <= MaxEvents
               /\ \A n \in 1..MaxEvents :
                     n <= Own(d) <=> \E s \in stamps : s.event = <<d, n>>
    <3>1. Own(d) = 0
      BY <1>3
    <3>2. 0 <= MaxEvents /\ \A n \in 1..MaxEvents : ~(n <= 0)
      BY <1>3
    <3> QED
      BY <1>3, <3>1, <3>2
  <2> QED
    BY <2>1 DEF StampsAreNumbered
<1>5. ASSUME NEW d \in Devices PROVE Bounded(clock[d]) /\ Closed(clock[d])
  <2>1. ASSUME NEW e \in Devices PROVE At(clock[d], e) <= Own(e)
    <3>1. At(clock[d], e) = Own(e) /\ Own(e) \in Nat
      BY <1>2, <1>3
    <3> QED
      BY <3>1
  <2> QED
    BY <1>3, <2>1 DEF Bounded, Closed
<1> QED
  BY <1>1, <1>3, <1>4, <1>5 DEF Inv, StampsAreTheirs, NoCycle

----------------------------------------------------------------------------
\* The past of an incremented clock is one event larger, that of a merge is both
\* pasts.
LEMMA PastOfIncrement ==
    ASSUME NEW vc, IsClock(vc), NEW d \in Devices, NEW n \in 1..MaxEvents,
           n = At(vc, d) + 1
    PROVE  PastOf(increment(vc, d)) = PastOf(vc) \cup {<<d, n>>}
<1> DEFINE w == increment(vc, d)
<1>1. <<d, n>> \in EventName
  BY DEF EventName
<1>2. ASSUME NEW x \in EventName
      PROVE  x[2] <= At(w, x[1]) <=> x[2] <= At(vc, x[1]) \/ x = <<d, n>>
  <2>1. x[1] \in Devices /\ x[2] \in Nat /\ x = <<x[1], x[2]>>
    BY EventNames
  <2>2. At(vc, x[1]) \in Nat /\ n \in Nat
    BY AtNat, MaxEventsAssumption
  <2>3. CASE x[1] = d
    BY <2>1, <2>2, <2>3, IncrementIs
  <2>4. CASE x[1] # d
    BY <2>1, <2>2, <2>4, IncrementIs
  <2> QED
    BY <2>3, <2>4
<1> QED
  BY <1>1, <1>2 DEF PastOf

LEMMA PastOfMerge ==
    ASSUME NEW v, NEW w, IsClock(v), IsClock(w)
    PROVE  PastOf(merge(v, w)) = PastOf(v) \cup PastOf(w)
<1>1. ASSUME NEW x \in EventName
      PROVE  x[2] <= At(merge(v, w), x[1]) <=> x[2] <= At(v, x[1]) \/ x[2] <= At(w, x[1])
  BY EventNames, AtNat, MergeIs
<1> QED
  BY <1>1 DEF PastOf

LEMMA LeqIncrement ==
    ASSUME NEW vc, IsClock(vc), NEW d \in Devices
    PROVE  Leq(vc, increment(vc, d))
  BY AtNat, IncrementIs DEF Leq

LEMMA EmitKeepsInv ==
    ASSUME Inv, NEW d \in Devices, NEW n \in 1..MaxEvents, Emit(d, n)
    PROVE  Inv'
<1> DEFINE vc == increment(clock[d], d)
           past == history[d] \cup {<<d, n>>}
           new == [event |-> <<d, n>>, vc |-> vc, past |-> past]
<1>1. /\ \A k \in 1..n - 1 : \E s \in stamps : s.event = <<d, k>>
      /\ \A s \in stamps : s.event # <<d, n>>
      /\ clock' = [clock EXCEPT ![d] = vc]
      /\ history' = [history EXCEPT ![d] = past]
      /\ stamps' = stamps \cup {new}
  BY DEF Emit
<1>2. IsClock(clock[d]) /\ Own(d) \in Nat /\ MaxEvents \in Nat /\ n \in Nat
  BY AtNat, MaxEventsAssumption DEF Inv, TypeOK, Own
<1>3. n = Own(d) + 1
  <2>1. ~(n <= Own(d)) /\ Own(d) <= MaxEvents
    BY <1>1 DEF Inv, StampsAreNumbered
  <2>2. ASSUME n - 1 > Own(d) PROVE FALSE
    <3>1. n - 1 \in 1..n - 1 /\ n - 1 \in 1..MaxEvents
      BY <1>2, <2>2
    <3>2. n - 1 <= Own(d)
      BY <1>1, <3>1 DEF Inv, StampsAreNumbered
    <3> QED
      BY <1>2, <2>2, <3>2
  <2> QED
    BY <1>2, <2>1, <2>2
<1>4. /\ IsClock(vc)
      /\ At(vc, d) = n
      /\ \A c : c # d => At(vc, c) = At(clock[d], c)
      /\ Leq(clock[d], vc)
  BY <1>2, <1>3, IncrementIs, LeqIncrement DEF Own
<1>5. PastOf(vc) = PastOf(clock[d]) \cup {<<d, n>>}
  BY <1>2, <1>3, PastOfIncrement DEF Own
<1>6. new.event = <<d, n>> /\ new.vc = vc /\ new.past = past /\ <<d, n>>[1] = d /\ <<d, n>>[2] = n
  OBVIOUS
<1> HIDE DEF vc, past, new
<1>7. /\ clock'[d] = vc /\ DOMAIN clock' = Devices
      /\ \A e \in Devices \ {d} : clock'[e] = clock[e]
      /\ history'[d] = past
      /\ \A e \in Devices \ {d} : history'[e] = history[e]
  BY <1>1 DEF Inv, TypeOK
<1>8. /\ Own(d)' = n
      /\ \A e \in Devices \ {d} : Own(e)' = Own(e)
      /\ \A e \in Devices : Own(e) \in Nat /\ Own(e)' \in Nat /\ Own(e) <= Own(e)'
  BY <1>2, <1>3, <1>4, <1>7, AtNat DEF Own, Inv, TypeOK
<1>9. <<d, n>> \in EventName
  BY DEF EventName
<1>10. past = PastOf(vc) /\ past \subseteq EventName
  BY <1>5, <1>9 DEF past, Inv, ClockIsHistory, TypeOK
<1>11. TypeOK'
  BY <1>1, <1>4, <1>6, <1>7, <1>9, <1>10 DEF Inv, TypeOK
<1>12. ClockIsHistory'
  BY <1>1, <1>6, <1>7, <1>10 DEF Inv, ClockIsHistory
<1>13. StampsAreNumbered'
  <2>1. ASSUME NEW e \in Devices
        PROVE  /\ Own(e)' <= MaxEvents
               /\ \A k \in 1..MaxEvents :
                     k <= Own(e)' <=> \E s \in stamps' : s.event = <<e, k>>
    <3>1. CASE e = d
      <4>1. Own(e)' <= MaxEvents
        BY <1>2, <1>8, <3>1
      <4>2. \A k \in 1..MaxEvents : k <= n <=> k <= Own(d) \/ k = n
        BY <1>2, <1>3
      <4>3. \A k \in 1..MaxEvents : k <= Own(d) <=> \E s \in stamps : s.event = <<d, k>>
        BY DEF Inv, StampsAreNumbered
      <4>4. \A k : new.event = <<d, k>> <=> k = n
        BY <1>6
      <4> QED
        BY <1>1, <1>8, <3>1, <4>1, <4>2, <4>3, <4>4
    <3>2. CASE e # d
      <4>1. Own(e)' = Own(e)
        BY <1>8, <3>2
      <4>2. \A k : new.event # <<e, k>>
        BY <1>6, <3>2
      <4>3. /\ Own(e) <= MaxEvents
            /\ \A k \in 1..MaxEvents : k <= Own(e) <=> \E s \in stamps : s.event = <<e, k>>
        BY DEF Inv, StampsAreNumbered
      <4> QED
        BY <1>1, <4>1, <4>2, <4>3
    <3> QED
      BY <3>1, <3>2
  <2> QED
    BY <2>1 DEF StampsAreNumbered
\* Bounds and closure of the new clock, then of the old ones.
<1>14. /\ \A s \in stamps : s.event \in EventName /\ IsClock(s.vc)
       /\ \A e \in Devices : IsClock(clock[e])
  BY DEF Inv, TypeOK
<1>15. \A e \in Devices : At(vc, e) <= Own(e)'
  <2>1. ASSUME NEW e \in Devices, e # d PROVE At(vc, e) <= Own(e)'
    BY <1>4, <1>8, <2>1 DEF Inv, Bounded
  <2> QED
    BY <1>2, <1>4, <1>8, <2>1
<1>16. \A s \in stamps' : s.event[2] <= At(vc, s.event[1]) => Leq(s.vc, vc)
  <2>1. ASSUME NEW s \in stamps, s.event[2] <= At(vc, s.event[1]) PROVE Leq(s.vc, vc)
    <3>1. s.event = <<s.event[1], s.event[2]>> /\ s.event[2] \in Nat /\ s.event[1] \in Devices
      BY <1>14, EventNames
    <3>2. s.event[2] <= At(clock[d], s.event[1])
      <4>1. CASE s.event[1] = d
        BY <1>1, <1>2, <1>3, <1>4, <2>1, <3>1, <4>1 DEF Own
      <4>2. CASE s.event[1] # d
        BY <1>4, <2>1, <4>2
      <4> QED
        BY <4>1, <4>2
    <3>3. Leq(s.vc, clock[d])
      BY <3>2 DEF Inv, Closed
    <3> QED
      BY <1>2, <1>4, <1>14, <3>3, LeqTransitive
  <2>2. Leq(new.vc, vc)
    <3>1. \A c : At(vc, c) \in Nat
      BY <1>4, AtNat
    <3>2. Leq(vc, vc)
      BY <3>1 DEF Leq
    <3> QED
      BY <1>6, <3>2
  <2> QED
    BY <1>1, <2>1, <2>2
<1>17. ASSUME NEW v, IsClock(v), \A e \in Devices : At(v, e) <= Own(e),
              \A s \in stamps : s.event[2] <= At(v, s.event[1]) => Leq(s.vc, v)
       PROVE  /\ \A e \in Devices : At(v, e) <= Own(e)'
              /\ \A s \in stamps' : s.event[2] <= At(v, s.event[1]) => Leq(s.vc, v)
  <2>1. \A e \in Devices : At(v, e) <= Own(e)'
    BY <1>8, <1>17, AtNat
  <2>2. ~(n <= At(v, d))
    BY <1>2, <1>3, <1>17, AtNat
  <2> QED
    BY <1>1, <1>6, <1>17, <2>1, <2>2
<1>18. \A e \in Devices : Bounded(clock[e])' /\ Closed(clock[e])'
  <2>1. ASSUME NEW e \in Devices
        PROVE  /\ \A c \in Devices : At(clock'[e], c) <= Own(c)'
               /\ \A s \in stamps' :
                     s.event[2] <= At(clock'[e], s.event[1]) => Leq(s.vc, clock'[e])
    <3>1. CASE e = d
      BY <1>7, <1>15, <1>16, <3>1
    <3>2. CASE e # d
      BY <1>7, <1>14, <1>17, <3>2 DEF Inv, Bounded, Closed
    <3> QED
      BY <3>1, <3>2
  <2> QED
    BY <2>1 DEF Bounded, Closed
<1>19. \A t \in stamps' : Bounded(t.vc)' /\ Closed(t.vc)'
  <2>1. ASSUME NEW t \in stamps'
        PROVE  /\ \A c \in Devices : At(t.vc, c) <= Own(c)'
               /\ \A s \in stamps' : s.event[2] <= At(t.vc, s.event[1]) => Leq(s.vc, t.vc)
    <3>1. CASE t = new
      BY <1>6, <1>15, <1>16, <3>1
    <3>2. CASE t \in stamps
      BY <1>14, <1>17, <3>2 DEF Inv, Bounded, Closed
    <3> QED
      BY <1>1, <2>1, <3>1, <3>2
  <2> QED
    BY <2>1 DEF Bounded, Closed
<1>20. StampsAreTheirs'
  BY <1>1, <1>4, <1>6 DEF Inv, StampsAreTheirs
<1>21. NoCycle'
  <2>1. \A s \in stamps : ~(new.event[2] <= At(s.vc, new.event[1]))
    <3>1. \A s \in stamps : At(s.vc, d) <= Own(d) /\ At(s.vc, d) \in Nat
      BY <1>14, AtNat DEF Inv, Bounded
    <3> QED
      BY <1>2, <1>3, <1>6, <3>1
  <2> QED
    BY <1>1, <2>1 DEF Inv, NoCycle
<1> QED
  BY <1>11, <1>12, <1>13, <1>18, <1>19, <1>20, <1>21 DEF Inv

LEMMA SyncKeepsInv ==
    ASSUME Inv, NEW d \in Devices, NEW e \in Devices, Sync(d, e)
    PROVE  Inv'
<1> DEFINE v == merge(clock[d], clock[e])
<1>1. /\ clock' = [clock EXCEPT ![d] = v]
      /\ history' = [history EXCEPT ![d] = history[d] \cup history[e]]
      /\ stamps' = stamps
  BY DEF Sync
<1>2. \A c \in Devices : IsClock(clock[c])
  BY DEF Inv, TypeOK
<1>3. /\ IsClock(v)
      /\ \A c : At(v, c) = At(clock[d], c) \/ At(v, c) = At(clock[e], c)
      /\ \A c : At(v, c) >= At(clock[d], c)
      /\ Leq(clock[d], v) /\ Leq(clock[e], v)
  BY <1>2, AtNat, MergeIs, MergeIsLub
<1>4. PastOf(v) = PastOf(clock[d]) \cup PastOf(clock[e])
  BY <1>2, PastOfMerge
<1> HIDE DEF v
<1>5. /\ clock'[d] = v /\ DOMAIN clock' = Devices
      /\ \A c \in Devices \ {d} : clock'[c] = clock[c]
      /\ history'[d] = history[d] \cup history[e]
      /\ \A c \in Devices \ {d} : history'[c] = history[c]
  BY <1>1 DEF Inv, TypeOK
<1>6. \A c \in Devices : Own(c)' = Own(c) /\ At(v, c) <= Own(c)
  <2>1. \A c \in Devices : At(v, c) <= Own(c)
    BY <1>3 DEF Inv, Bounded
  <2>2. At(v, d) = Own(d)
    BY <1>2, <1>3, <2>1, AtNat DEF Own
  <2> QED
    BY <1>5, <2>1, <2>2 DEF Own
<1>7. TypeOK' /\ ClockIsHistory'
  BY <1>1, <1>3, <1>4, <1>5 DEF Inv, TypeOK, ClockIsHistory
<1>8. StampsAreNumbered'
  BY <1>1, <1>6 DEF Inv, StampsAreNumbered
<1>9. ASSUME NEW s \in stamps, s.event[2] <= At(v, s.event[1]) PROVE Leq(s.vc, v)
  <2>1. IsClock(s.vc)
    BY DEF Inv, TypeOK
  <2>2. Leq(s.vc, clock[d]) \/ Leq(s.vc, clock[e])
    BY <1>3, <1>9 DEF Inv, Closed
  <2> QED
    BY <1>2, <1>3, <2>1, <2>2, LeqTransitive
<1>10. \A c \in Devices : Bounded(clock[c])' /\ Closed(clock[c])'
  BY <1>1, <1>5, <1>6, <1>9 DEF Inv, Bounded, Closed
<1>11. \A s \in stamps' : Bounded(s.vc)' /\ Closed(s.vc)'
  BY <1>1, <1>6 DEF Inv, Bounded, Closed
<1> QED
  BY <1>1, <1>7, <1>8, <1>10, <1>11 DEF Inv, StampsAreTheirs, NoCycle

LEMMA NextKeepsInv == Inv /\ [Next]_vars => Inv'
<1> SUFFICES ASSUME Inv, [Next]_vars PROVE Inv'
  OBVIOUS
<1>1. ASSUME NEW d \in Devices, NEW n \in 1..MaxEvents, Emit(d, n) PROVE Inv'
  BY <1>1, EmitKeepsInv
<1>2. ASSUME NEW d \in Devices, NEW e \in Devices, Sync(d, e) PROVE Inv'
  BY <1>2, SyncKeepsInv
<1>3. CASE UNCHANGED vars
  BY <1>3 DEF vars, Inv, TypeOK, ClockIsHistory, StampsAreNumbered, Bounded, Closed, Own,
              StampsAreTheirs, NoCycle
<1> QED
  BY <1>1, <1>2, <1>3 DEF Next

LEMMA InvHolds == Spec => []Inv
  BY InitInv, NextKeepsInv, PTL DEF Spec

----------------------------------------------------------------------------
\* Knowing an event and having at least its clock are the same.
LEMMA PastIsLeq ==
    ASSUME Inv, NEW s \in stamps, NEW t \in stamps
    PROVE  s.event \in t.past <=> Leq(s.vc, t.vc)
<1>1. s.event \in EventName /\ s.event[1] \in Devices /\ s.event[2] \in Nat
  BY EventNames DEF Inv, TypeOK
<1>2. s.event \in t.past <=> s.event[2] <= At(t.vc, s.event[1])
  BY <1>1 DEF Inv, ClockIsHistory, PastOf
<1>3. s.event[2] <= At(t.vc, s.event[1]) => Leq(s.vc, t.vc)
  BY DEF Inv, Closed
<1>4. Leq(s.vc, t.vc) => s.event[2] <= At(t.vc, s.event[1])
  BY <1>1 DEF Leq, Inv, StampsAreTheirs
<1> QED
  BY <1>2, <1>3, <1>4

LEMMA NoMutualPast ==
    ASSUME Inv, NEW s \in stamps, NEW t \in stamps, s.event \in t.past, t.event \in s.past
    PROVE  s = t
<1>1. s.event[2] <= At(t.vc, s.event[1]) /\ t.event[2] <= At(s.vc, t.event[1])
  BY DEF Inv, ClockIsHistory, PastOf
<1> QED
  BY <1>1 DEF Inv, NoCycle

(***************************************************************************)
(* The type invariant.                                                     *)
(***************************************************************************)
THEOREM TypeCorrect == Spec => []TypeOK
<1>1. Inv => TypeOK
  BY DEF Inv
<1> QED
  BY <1>1, InvHolds, PTL

(***************************************************************************)
(* A clock vouches for exactly the events in its device's causal past.     *)
(***************************************************************************)
THEOREM ClockTellsHistory == Spec => []ClockIsHistory
<1>1. Inv => ClockIsHistory
  BY DEF Inv
<1> QED
  BY <1>1, InvHolds, PTL

(***************************************************************************)
(* compare() decides causality between any two events.                     *)
(***************************************************************************)
THEOREM CompareTellsCausality == Spec => []CompareIsCausality
<1>1. Inv => CompareIsCausality
  <2> SUFFICES ASSUME Inv, NEW s \in stamps, NEW t \in stamps
               PROVE  /\ compare(s.vc, t.vc) = "before" <=> s # t /\ s.event \in t.past
                      /\ compare(s.vc, t.vc) = "concurrent" <=>
                            s.event \notin t.past /\ t.event \notin s.past
    BY DEF CompareIsCausality
  <2>1. IsClock(s.vc) /\ IsClock(t.vc)
    BY DEF Inv, TypeOK
  <2>2. /\ s.event \in t.past <=> Leq(s.vc, t.vc)
        /\ t.event \in s.past <=> Leq(t.vc, s.vc)
    BY PastIsLeq
  <2>3. Leq(s.vc, t.vc) /\ Leq(t.vc, s.vc) => s = t
    BY <2>2, NoMutualPast
  <2> QED
    BY <2>1, <2>2, <2>3, CompareIs
<1> QED
  BY <1>1, InvHolds, PTL

(***************************************************************************)
(* Devices that increment before they emit never give two events one clock.*)
(***************************************************************************)
THEOREM StampsDiffer == Spec => []NoEqualStamps
<1>1. Inv => NoEqualStamps
  <2> SUFFICES ASSUME Inv, NEW s \in stamps, NEW t \in stamps,
                      compare(s.vc, t.vc) = "equal"
               PROVE  s = t
    BY DEF NoEqualStamps
  <2>1. IsClock(s.vc) /\ IsClock(t.vc)
    BY DEF Inv, TypeOK
  <2>2. Leq(s.vc, t.vc) /\ Leq(t.vc, s.vc)
    BY <2>1, CompareIs
  <2> QED
    BY <2>2, PastIsLeq, NoMutualPast
<1> QED
  BY <1>1, InvHolds, PTL
====
