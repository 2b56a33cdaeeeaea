---- MODULE ClockCausality ----
(***************************************************************************)
(* What vectorClock.ts is for, against a reference definition of causality.*)
(*                                                                         *)
(* Replicas use the three operations the way their comments say: increment *)
(* "before emitting any event", merge "when merging state after a sync".   *)
(* Beside its clock each replica carries its causal history, the set of    *)
(* events it made or learnt of, which no clock arithmetic touches.  compare*)
(* must then tell exactly what the histories tell.                         *)
(*                                                                         *)
(* The server and the mobile client merge and compare but never increment: *)
(* this module is about the operators, SyncSystem about the program.       *)
(***************************************************************************)
EXTENDS DeviceClocks, FiniteSets

CONSTANT MaxEvents      \* bound: events a device may emit in a run

ASSUME MaxEventsAssumption == MaxEvents \in Nat

VARIABLES
    clock,      \* device -> its vector clock
    history,    \* device -> the events in its causal past, its own included
    stamps      \* every event emitted: its identity, its clock, its past

vars == <<clock, history, stamps>>

EventName == Devices \X (1..MaxEvents)

TypeOK ==
    /\ DOMAIN clock = Devices /\ \A d \in Devices : IsClock(clock[d])
    /\ history \in [Devices -> SUBSET EventName]
    /\ \A s \in stamps : /\ s.event \in EventName
                          /\ IsClock(s.vc)
                          /\ s.past \subseteq EventName

Init ==
    /\ clock = [d \in Devices |-> EmptyClock]
    /\ history = [d \in Devices |-> {}]
    /\ stamps = {}

\* The n-th event of device d, n counted from the stamps and not from a clock.
Emit(d, n) ==
    /\ \A k \in 1..n - 1 : \E s \in stamps : s.event = <<d, k>>
    /\ \A s \in stamps : s.event # <<d, n>>
    /\ LET vc   == increment(clock[d], d)
           past == history[d] \cup {<<d, n>>}
       IN  /\ clock' = [clock EXCEPT ![d] = vc]
           /\ history' = [history EXCEPT ![d] = past]
           /\ stamps' = stamps \cup
                          {[event |-> <<d, n>>, vc |-> vc, past |-> past]}

\* d takes over what e knows.
Sync(d, e) ==
    /\ d # e
    /\ clock' = [clock EXCEPT ![d] = merge(clock[d], clock[e])]
    /\ history' = [history EXCEPT ![d] = history[d] \cup history[e]]
    /\ UNCHANGED stamps

Next ==
    \/ \E d \in Devices, n \in 1..MaxEvents : Emit(d, n)
    \/ \E d, e \in Devices : Sync(d, e)

Spec == Init /\ [][Next]_vars

----------------------------------------------------------------------------
\* The events a clock vouches for: the first vc[d] events of every device d.
PastOf(vc) == {ev \in EventName : ev[2] <= At(vc, ev[1])}

(***************************************************************************)
(* A clock is a faithful summary of a history: nothing it vouches for is   *)
(* unknown to the device and nothing known is left out, through any series *)
(* of increments and merges.  (increment and merge of vectorClock.ts)      *)
(***************************************************************************)
ClockIsHistory ==
    /\ \A d \in Devices : history[d] = PastOf(clock[d])
    /\ \A s \in stamps : s.past = PastOf(s.vc)

(***************************************************************************)
(* compare answers 'before' exactly when the first event is in the causal  *)
(* past of the second, and 'concurrent' exactly when neither knew of the   *)
(* other: the two answers the arbitration in processSyncBatch rests on.    *)
(***************************************************************************)
CompareIsCausality ==
    \A s, t \in stamps :
        /\ compare(s.vc, t.vc) = "before" <=> s # t /\ s.event \in t.past
        /\ compare(s.vc, t.vc) = "concurrent" <=>
               s.event \notin t.past /\ t.event \notin s.past

(***************************************************************************)
(* "'equal' shouldn't occur if devices always increment before emitting"   *)
(* (sync.service.ts:73): two different events never carry equal clocks.    *)
(***************************************************************************)
NoEqualStamps ==
    \A s, t \in stamps : compare(s.vc, t.vc) = "equal" => s = t
====
