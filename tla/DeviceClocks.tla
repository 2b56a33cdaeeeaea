---- MODULE DeviceClocks ----
(***************************************************************************)
(* The vector clocks of packages/server/src/utils/vectorClock.ts.          *)
(*                                                                         *)
(* A clock is a JSON object { deviceId: counter }: a function whose domain *)
(* is the set of devices it mentions.  Two clocks may stand for the same   *)
(* knowledge and yet differ as objects ({} and { a: 0 }), which is why     *)
(* every reader goes through "vc[device] ?? 0", written At(vc, d) here.    *)
(***************************************************************************)
EXTENDS Naturals

CONSTANT Devices

IsClock(vc) == DOMAIN vc \subseteq Devices /\ vc \in [DOMAIN vc -> Nat]

EmptyClock == [d \in {} |-> 0]

\* vc[d] ?? 0
At(vc, d) == IF d \in DOMAIN vc THEN vc[d] ELSE 0

increment(vc, d) ==
    [e \in DOMAIN vc \cup {d} |-> IF e = d THEN At(vc, d) + 1 ELSE vc[e]]

\* Mutant: { ...vc1, ...vc2 }, the later object wins instead of the maximum.
merge_Spread(vc1, vc2) ==
    [d \in DOMAIN vc1 \cup DOMAIN vc2 |->
        IF d \in DOMAIN vc2 THEN vc2[d] ELSE vc1[d]]

\* Only the entries of vc2 are visited; the others are copied from vc1.
merge(vc1, vc2) ==
    [d \in DOMAIN vc1 \cup DOMAIN vc2 |->
        IF d \in DOMAIN vc2 /\ At(vc1, d) <= vc2[d] THEN vc2[d] ELSE vc1[d]]

\* Mutant: without "?? 0" a device missing on one side compares as undefined.
Dominates_NoDefault(vc1, vc2) ==
    \E d \in DOMAIN vc1 \cap DOMAIN vc2 : vc1[d] > vc2[d]

\* "vc1Dominates" of compare: some device's counter is larger in vc1.
Dominates(vc1, vc2) ==
    \E d \in DOMAIN vc1 \cup DOMAIN vc2 : At(vc1, d) > At(vc2, d)

compare(vc1, vc2) ==
    CASE ~Dominates(vc1, vc2) /\ ~Dominates(vc2, vc1) -> "equal"
      [] Dominates(vc1, vc2) /\ ~Dominates(vc2, vc1)  -> "after"
      [] ~Dominates(vc1, vc2) /\ Dominates(vc2, vc1)  -> "before"
      [] Dominates(vc1, vc2) /\ Dominates(vc2, vc1)   -> "concurrent"

\* Mutant: an equal clock counts as older.
happenedBefore_OrEqual(vc1, vc2) == compare(vc1, vc2) \in {"before", "equal"}

happenedBefore(vc1, vc2) == compare(vc1, vc2) = "before"

----------------------------------------------------------------------------
\* Reference order the operators above are judged by: component-wise <=.
Leq(vc1, vc2) == \A d \in Devices : At(vc1, d) <= At(vc2, d)
====
