---- MODULE EventIngest ----
(***************************************************************************)
(* What POST /events promises a caller: the request stays open until it is *)
(* answered, and it is answered with success only after its events are in  *)
(* the table.  A failure says nothing: the events may be stored or not.    *)
(***************************************************************************)
CONSTANT Entries        \* one name per POST /events

VARIABLES
    answer,     \* entry -> "none", "open", "accepted" or "failed"
    stored      \* the entries whose events are in productivity_events

ingest == <<answer, stored>>

Init ==
    /\ answer = [e \in Entries |-> "none"]
    /\ stored = {}

Receive(e) ==
    /\ answer[e] = "none"
    /\ answer' = [answer EXCEPT ![e] = "open"]
    /\ UNCHANGED stored

Store(S) ==
    /\ \A e \in S : answer[e] = "open"
    /\ stored' = stored \cup S
    /\ UNCHANGED answer

Answer(S, outcome) ==
    /\ \A e \in S : answer[e] = "open"
    /\ outcome = "accepted" => S \subseteq stored
    /\ answer' = [e \in Entries |-> IF e \in S THEN outcome ELSE answer[e]]
    /\ UNCHANGED stored

Next ==
    \/ \E e \in Entries : Receive(e)
    \/ \E S \in SUBSET Entries :
          Store(S) \/ Answer(S, "accepted") \/ Answer(S, "failed")

Spec == Init /\ [][Next]_ingest
====
