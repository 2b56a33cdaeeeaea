---- MODULE EventLedger ----
(***************************************************************************)
(* What offline sync promises about events, and all it promises: an event  *)
(* is made on a phone, may reach the server, and is acknowledged only when *)
(* the server has it.  Nothing comes from nowhere and no acknowledgement   *)
(* is taken back; that every event arrives is not promised.                *)
(***************************************************************************)
CONSTANT EventIds

VARIABLES made, stored, acked

ledger == <<made, stored, acked>>

Init == made = {} /\ stored = {} /\ acked = {}

Make(e) ==
    /\ made' = made \cup {e}
    /\ UNCHANGED <<stored, acked>>

Store(S) ==
    /\ S \subseteq made
    /\ stored' = stored \cup S
    /\ UNCHANGED <<made, acked>>

Ack(S) ==
    /\ S \subseteq stored
    /\ acked' = acked \cup S
    /\ UNCHANGED <<made, stored>>

Next ==
    \/ \E e \in EventIds : Make(e)
    \/ \E S \in SUBSET EventIds : Store(S) \/ Ack(S)

Spec == Init /\ [][Next]_ledger
====
