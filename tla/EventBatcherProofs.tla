---- MODULE EventBatcherProofs ----
(***************************************************************************)
(* Proofs about the EventBatcher, for every set of users, entries and      *)
(* events and every batch limit.  Total, the number of events that wait,   *)
(* is never unfolded: what is proved holds wherever the limit lies.        *)
(***************************************************************************)
EXTENDS EventBatcher, TLAPS

Filed(e) ==
    \A v \in EventsOf[e] : [event |-> v, entry |-> e, user |-> UserOf[e]] \in rows

\* A committed statement has written what it carries.
CommittedIsStored ==
    \A s \in inserts : s.committed => \A e \in s.entries : Filed(e)

\* A statement under way carries pending entries of its own user; queued entries
\* are pending too.  Statements and queue are disjoint, so a step that settles
\* one statement leaves every other pending entry where it is.
Inv ==
    /\ TypeOK
    /\ TimerIffQueued
    /\ PendingInOnePlace
    /\ AcceptedIsStored
    /\ UsersKeptApart
    /\ CommittedIsStored

----------------------------------------------------------------------------
\* A queue that grows by one entry, place by place.
LEMMA AppendPlaces ==
    ASSUME NEW q \in Seq(Entries), NEW e \in Entries
    PROVE  /\ Append(q, e) \in Seq(Entries)
           /\ Len(q) \in Nat
           /\ DOMAIN q = 1..Len(q)
           /\ DOMAIN Append(q, e) = 1..Len(q) + 1
           /\ \A i \in 1..Len(q) : Append(q, e)[i] = q[i]
           /\ Append(q, e)[Len(q) + 1] = e
           /\ Append(q, e) # <<>>
  OBVIOUS

\* The entries of a queue that grows by one.
LEMMA RangeOfAppend ==
    ASSUME NEW q \in Seq(Entries), NEW e \in Entries
    PROVE  Range(Append(q, e)) = Range(q) \cup {e}
<1> DEFINE s == Append(q, e)
<1>1. Range(s) = {s[i] : i \in 1..Len(q) + 1}
  BY AppendPlaces DEF Range
<1>2. Range(q) = {q[i] : i \in 1..Len(q)}
  BY AppendPlaces DEF Range
<1>3. /\ Len(q) \in Nat
      /\ \A i \in 1..Len(q) : s[i] = q[i]
      /\ s[Len(q) + 1] = e
  BY AppendPlaces
<1> HIDE DEF s
<1>4. {s[i] : i \in 1..Len(q) + 1} = {q[i] : i \in 1..Len(q)} \cup {e}
  <2>1. ASSUME NEW i \in 1..Len(q) + 1
        PROVE  s[i] \in {q[k] : k \in 1..Len(q)} \cup {e}
    <3>1. CASE i \in 1..Len(q)
      BY <1>3, <3>1
    <3>2. CASE i = Len(q) + 1
      BY <1>3, <3>2
    <3> QED
      BY <1>3, <3>1, <3>2
  <2>2. \A i \in 1..Len(q) : i \in 1..Len(q) + 1 /\ q[i] = s[i]
    BY <1>3
  <2>3. Len(q) + 1 \in 1..Len(q) + 1 /\ s[Len(q) + 1] = e
    BY <1>3
  <2> QED
    BY <2>1, <2>2, <2>3
<1> QED
  BY <1>1, <1>2, <1>4 DEF s

\* An entry that is not in the queue joins it: nothing is there twice.
LEMMA AppendKeepsOnce ==
    ASSUME NEW q \in Seq(Entries), NEW e \in Entries,
           \A i, j \in DOMAIN q : q[i] = q[j] => i = j,
           e \notin Range(q)
    PROVE  \A i, j \in DOMAIN Append(q, e) :
              Append(q, e)[i] = Append(q, e)[j] => i = j
<1> DEFINE s == Append(q, e)
<1>1. /\ Len(q) \in Nat
      /\ DOMAIN q = 1..Len(q)
      /\ DOMAIN s = 1..Len(q) + 1
      /\ \A i \in 1..Len(q) : s[i] = q[i]
      /\ s[Len(q) + 1] = e
  BY AppendPlaces
<1>2. \A i \in 1..Len(q) : q[i] # e
  BY <1>1 DEF Range
<1> HIDE DEF s
<1>3. ASSUME NEW i \in 1..Len(q) + 1, NEW j \in 1..Len(q) + 1, s[i] = s[j]
      PROVE  i = j
  BY <1>1, <1>2, <1>3
<1> QED
  BY <1>1, <1>3 DEF s

\* The statements of a flush: of the right form, under way, one per user, each
\* entry of the queue in exactly one of them, under its own user.
LEMMA ByUserStatements ==
    ASSUME NEW q \in Seq(Entries)
    PROVE  /\ ByUser(q) \subseteq [user : Users, entries : SUBSET Entries, committed : BOOLEAN]
           /\ \A s \in ByUser(q) : /\ ~s.committed
                                   /\ s.entries \subseteq Range(q)
                                   /\ \A e \in s.entries : UserOf[e] = s.user
           /\ \A s, t \in ByUser(q) : s # t => s.entries \cap t.entries = {}
           /\ \A e \in Range(q) : \E s \in ByUser(q) : e \in s.entries
<1>1. Range(q) \subseteq Entries
  BY DEF Range
<1>2. \A e \in Range(q) : UserOf[e] \in Users
  BY <1>1, UserOfAssumption
<1>3. \A s \in ByUser(q) :
         \E u \in {UserOf[e] : e \in Range(q)} :
            s = [user |-> u, entries |-> {e \in Range(q) : UserOf[e] = u},
                 committed |-> FALSE]
  BY DEF ByUser
<1>4. \A u \in {UserOf[e] : e \in Range(q)} :
         [user |-> u, entries |-> {e \in Range(q) : UserOf[e] = u},
          committed |-> FALSE] \in ByUser(q)
  BY DEF ByUser
<1>5. ASSUME NEW s \in ByUser(q)
      PROVE  /\ s \in [user : Users, entries : SUBSET Entries, committed : BOOLEAN]
             /\ ~s.committed
             /\ s.entries \subseteq Range(q)
             /\ \A e \in s.entries : UserOf[e] = s.user
             /\ s = [user |-> s.user, entries |-> s.entries, committed |-> FALSE]
             /\ s.entries = {e \in Range(q) : UserOf[e] = s.user}
  <2>1. PICK u \in {UserOf[e] : e \in Range(q)} :
           s = [user |-> u, entries |-> {e \in Range(q) : UserOf[e] = u},
                committed |-> FALSE]
    BY <1>3
  <2>2. u \in Users /\ {e \in Range(q) : UserOf[e] = u} \in SUBSET Entries
    BY <1>1, <1>2
  <2> QED
    BY <2>1, <2>2
<1>6. ByUser(q) \subseteq [user : Users, entries : SUBSET Entries, committed : BOOLEAN]
  BY <1>5
<1>7. \A s, t \in ByUser(q) : s # t => s.entries \cap t.entries = {}
  <2>1. SUFFICES ASSUME NEW s \in ByUser(q), NEW t \in ByUser(q), s # t
                 PROVE  s.entries \cap t.entries = {}
    OBVIOUS
  <2>2. s.user # t.user
    BY <1>5, <2>1
  <2> QED
    BY <1>5, <2>2
<1>8. \A e \in Range(q) : \E s \in ByUser(q) : e \in s.entries
  <2>1. SUFFICES ASSUME NEW e \in Range(q)
                 PROVE  \E s \in ByUser(q) : e \in s.entries
    OBVIOUS
  <2> DEFINE s == [user |-> UserOf[e], entries |-> {f \in Range(q) : UserOf[f] = UserOf[e]},
                   committed |-> FALSE]
  <2>2. s \in ByUser(q)
    BY <1>4
  <2>3. e \in s.entries
    OBVIOUS
  <2> QED
    BY <2>2, <2>3
<1> QED
  BY <1>5, <1>6, <1>7, <1>8

----------------------------------------------------------------------------
LEMMA InitInv == Init => Inv
<1> SUFFICES ASSUME Init PROVE Inv
  OBVIOUS
<1>1. Range(queue) = {} /\ queue \in Seq(Entries) /\ DOMAIN queue = {}
  BY DEF Init, Range
<1> QED
  BY <1>1 DEF Init, Inv, TypeOK, TimerIffQueued, PendingInOnePlace, AcceptedIsStored,
              UsersKeptApart, CommittedIsStored

\* What a flush does, whoever starts it, when the entries of the flushed queue q
\* become the pending ones that no statement carries.
LEMMA FlushKeepsInv ==
    ASSUME Inv,
           NEW q \in Seq(Entries),
           Flush(q),
           UNCHANGED rows,
           promise' \in [Entries -> {"new", "pending", "resolved", "rejected", "cut"}],
           \A e \in Entries : promise'[e] = "resolved" => promise[e] = "resolved",
           \A e \in Entries : promise'[e] = "pending" <=>
               e \in Range(q) \/ \E s \in inserts : e \in s.entries,
           \A e \in Range(q) : \A s \in inserts : e \notin s.entries
    PROVE  Inv'
<1> USE DEF Inv, Flush
<1>1. TypeOK'
  <2>1. queue' \in Seq(Entries)
    OBVIOUS
  <2>2. inserts' \subseteq [user : Users, entries : SUBSET Entries, committed : BOOLEAN]
    BY ByUserStatements DEF TypeOK
  <2> QED
    BY <2>1, <2>2 DEF TypeOK
<1>2. TimerIffQueued'
  BY DEF TimerIffQueued
<1>3. PendingInOnePlace'
  <2>1. Range(queue') = {} /\ DOMAIN queue' = {}
    BY DEF Range
  <2>2. \A e \in Entries : promise'[e] = "pending" <=> \E s \in inserts' : e \in s.entries
    BY ByUserStatements
  <2>3. \A s, t \in inserts' : s # t => s.entries \cap t.entries = {}
    <3>1. SUFFICES ASSUME NEW s \in inserts', NEW t \in inserts', s # t
                   PROVE  s.entries \cap t.entries = {}
      OBVIOUS
    <3>2. \A x \in ByUser(q), y \in inserts : x.entries \cap y.entries = {}
      BY ByUserStatements
    <3>3. CASE s \in inserts /\ t \in inserts
      BY <3>1, <3>3 DEF PendingInOnePlace
    <3>4. CASE s \in ByUser(q) /\ t \in ByUser(q)
      BY <3>1, <3>4, ByUserStatements
    <3>5. CASE \/ s \in ByUser(q) /\ t \in inserts
               \/ t \in ByUser(q) /\ s \in inserts
      BY <3>2, <3>5
    <3>6. s \in inserts \cup ByUser(q) /\ t \in inserts \cup ByUser(q)
      BY <3>1
    <3> QED
      BY <3>3, <3>4, <3>5, <3>6
  <2> QED
    BY <2>1, <2>2, <2>3 DEF PendingInOnePlace
<1>4. AcceptedIsStored'
  BY DEF AcceptedIsStored
<1>5. UsersKeptApart'
  BY ByUserStatements DEF UsersKeptApart
<1>6. CommittedIsStored'
  BY ByUserStatements DEF CommittedIsStored, Filed
<1> QED
  BY <1>1, <1>2, <1>3, <1>4, <1>5, <1>6

LEMMA EnqueueKeepsInv ==
    ASSUME Inv, NEW e \in Entries, Enqueue(e)
    PROVE  Inv'
<1> DEFINE q == Append(queue, e)
<1>1. /\ promise[e] = "new"
      /\ promise' = [promise EXCEPT ![e] = "pending"]
      /\ UNCHANGED rows
      /\ \/ Flush(q)
         \/ queue' = q /\ timer' = TRUE /\ UNCHANGED inserts
  BY DEF Enqueue
<1>2. queue \in Seq(Entries) /\ promise \in [Entries -> {"new", "pending", "resolved", "rejected", "cut"}]
  BY DEF Inv, TypeOK
<1>3. e \notin Range(queue) /\ \A s \in inserts : e \notin s.entries
  BY <1>1 DEF Inv, PendingInOnePlace
<1>4. q \in Seq(Entries) /\ q # <<>> /\ Range(q) = Range(queue) \cup {e}
  BY <1>2, AppendPlaces, RangeOfAppend
<1>5. /\ promise' \in [Entries -> {"new", "pending", "resolved", "rejected", "cut"}]
      /\ promise'[e] = "pending"
      /\ \A f \in Entries \ {e} : promise'[f] = promise[f]
  BY <1>1, <1>2
<1>6. \A f \in Entries : promise'[f] = "pending" <=>
         f \in Range(q) \/ \E s \in inserts : f \in s.entries
  BY <1>3, <1>4, <1>5 DEF Inv, PendingInOnePlace
<1>7. \A f \in Range(q) : \A s \in inserts : f \notin s.entries
  BY <1>3, <1>4 DEF Inv, PendingInOnePlace
<1>8. \A i, j \in DOMAIN q : q[i] = q[j] => i = j
  BY <1>2, <1>3, AppendKeepsOnce DEF Inv, PendingInOnePlace
<1> HIDE DEF q
<1>9. CASE Flush(q)
  BY <1>1, <1>4, <1>5, <1>6, <1>7, <1>9, FlushKeepsInv
<1>10. CASE queue' = q /\ timer' = TRUE /\ UNCHANGED inserts
  <2>1. TypeOK'
    BY <1>1, <1>4, <1>5, <1>10 DEF Inv, TypeOK
  <2>2. TimerIffQueued'
    BY <1>4, <1>10 DEF TimerIffQueued
  <2>3. PendingInOnePlace'
    BY <1>6, <1>7, <1>8, <1>10 DEF Inv, PendingInOnePlace
  <2>4. AcceptedIsStored' /\ CommittedIsStored' /\ UsersKeptApart'
    BY <1>1, <1>5, <1>10 DEF Inv, AcceptedIsStored, CommittedIsStored, Filed, UsersKeptApart
  <2> QED
    BY <2>1, <2>2, <2>3, <2>4 DEF Inv
<1> QED
  BY <1>1, <1>9, <1>10

LEMMA TimerFiresKeepsInv ==
    ASSUME Inv, TimerFires
    PROVE  Inv'
  BY FlushKeepsInv DEF TimerFires, Inv, TypeOK, PendingInOnePlace

LEMMA CommitKeepsInv ==
    ASSUME Inv, NEW s \in inserts, Commit(s)
    PROVE  Inv'
<1> DEFINE t == [s EXCEPT !.committed = TRUE]
<1> DEFINE new == UNION {{[event |-> v, entry |-> e, user |-> s.user] : v \in EventsOf[e]}
                            : e \in s.entries}
<1>1. /\ inserts' = (inserts \ {s}) \cup {t}
      /\ rows' = rows \cup new
      /\ UNCHANGED <<queue, timer, promise>>
  BY DEF Commit
<1>2. /\ s \in [user : Users, entries : SUBSET Entries, committed : BOOLEAN]
      /\ t \in [user : Users, entries : SUBSET Entries, committed : BOOLEAN]
      /\ t.entries = s.entries /\ t.user = s.user
  BY DEF Inv, TypeOK
<1>3. \A e \in s.entries : e \in Entries /\ UserOf[e] = s.user /\ EventsOf[e] \subseteq EventIds
  BY <1>2, EventsOfAssumption DEF Inv, UsersKeptApart
<1>4. \A row \in new : /\ row \in [event : EventIds, entry : Entries, user : Users]
                       /\ row.user = UserOf[row.entry]
  BY <1>2, <1>3
<1>5. \A e \in s.entries : \A v \in EventsOf[e] :
         [event |-> v, entry |-> e, user |-> UserOf[e]] \in new
  BY <1>3
<1> HIDE DEF t, new
<1>6. TypeOK'
  BY <1>1, <1>2, <1>4 DEF Inv, TypeOK
<1>7. TimerIffQueued'
  BY <1>1 DEF Inv, TimerIffQueued
<1>8. PendingInOnePlace'
  BY <1>1, <1>2 DEF Inv, PendingInOnePlace
<1>9. AcceptedIsStored'
  BY <1>1 DEF Inv, AcceptedIsStored
<1>10. UsersKeptApart'
  BY <1>1, <1>2, <1>3, <1>4 DEF Inv, UsersKeptApart
<1>11. CommittedIsStored'
  BY <1>1, <1>2, <1>5 DEF Inv, CommittedIsStored, Filed
<1> QED
  BY <1>6, <1>7, <1>8, <1>9, <1>10, <1>11 DEF Inv

\* Settling a statement closes its requests and no other.
LEMMA SettleKeepsInv ==
    ASSUME Inv, NEW s \in inserts,
           NEW outcome \in {"resolved", "rejected"},
           outcome = "resolved" => s.committed,
           Settle(s, outcome)
    PROVE  Inv'
<1>1. /\ promise' = [e \in Entries |-> IF e \in s.entries THEN outcome ELSE promise[e]]
      /\ inserts' = inserts \ {s}
      /\ UNCHANGED <<queue, timer, rows>>
  BY DEF Settle
<1>2. TypeOK'
  BY <1>1 DEF Inv, TypeOK
<1>3. TimerIffQueued'
  BY <1>1 DEF Inv, TimerIffQueued
<1>4. PendingInOnePlace'
  BY <1>1 DEF Inv, PendingInOnePlace
<1>5. AcceptedIsStored'
  BY <1>1 DEF Inv, AcceptedIsStored, CommittedIsStored, Filed
<1>6. UsersKeptApart' /\ CommittedIsStored'
  BY <1>1 DEF Inv, UsersKeptApart, CommittedIsStored, Filed
<1> QED
  BY <1>2, <1>3, <1>4, <1>5, <1>6 DEF Inv

LEMMA CrashKeepsInv ==
    ASSUME Inv, Crash
    PROVE  Inv'
<1>1. /\ queue' = <<>> /\ timer' = FALSE /\ inserts' = {}
      /\ promise' = [e \in Entries |-> IF promise[e] = "pending" THEN "cut" ELSE promise[e]]
      /\ UNCHANGED rows
  BY DEF Crash
<1>2. Range(queue') = {} /\ DOMAIN queue' = {}
  BY <1>1 DEF Range
<1>3. TypeOK'
  <2>1. queue' \in Seq(Entries)
    BY <1>1
  <2>2. promise' \in [Entries -> {"new", "pending", "resolved", "rejected", "cut"}]
    BY <1>1 DEF Inv, TypeOK
  <2> QED
    BY <1>1, <2>1, <2>2 DEF Inv, TypeOK
<1> QED
  BY <1>1, <1>2, <1>3 DEF Inv, TimerIffQueued, PendingInOnePlace, AcceptedIsStored,
                          UsersKeptApart, CommittedIsStored

LEMMA NextKeepsInv == Inv /\ [Next]_vars => Inv'
<1> SUFFICES ASSUME Inv, [Next]_vars PROVE Inv'
  OBVIOUS
<1>1. ASSUME NEW e \in Entries, Enqueue(e) PROVE Inv'
  BY <1>1, EnqueueKeepsInv
<1>2. CASE TimerFires
  BY <1>2, TimerFiresKeepsInv
<1>3. ASSUME NEW s \in inserts, Commit(s) PROVE Inv'
  BY <1>3, CommitKeepsInv
<1>4. ASSUME NEW s \in inserts, Resolve(s) PROVE Inv'
  BY <1>4, SettleKeepsInv DEF Resolve
<1>5. ASSUME NEW s \in inserts, Reject(s) PROVE Inv'
  BY <1>5, SettleKeepsInv DEF Reject
<1>6. CASE Crash
  BY <1>6, CrashKeepsInv
<1>7. CASE UNCHANGED vars
  BY <1>7 DEF vars, Inv, TypeOK, TimerIffQueued, PendingInOnePlace, AcceptedIsStored,
              UsersKeptApart, CommittedIsStored, Filed
<1> QED
  BY <1>1, <1>2, <1>3, <1>4, <1>5, <1>6, <1>7 DEF Next, StatementStep

LEMMA InvHolds == Spec => []Inv
  BY InitInv, NextKeepsInv, PTL DEF Spec

----------------------------------------------------------------------------
(***************************************************************************)
(* The type invariant of the batcher, for all users, entries and limits.   *)
(***************************************************************************)
THEOREM TypeCorrect == Spec => []TypeOK
<1>1. Inv => TypeOK
  BY DEF Inv
<1> QED
  BY <1>1, InvHolds, PTL

(***************************************************************************)
(* No entry is left in the queue without a timer, and none runs over an    *)
(* empty queue, wherever the limit lies and however flushes alternate.     *)
(***************************************************************************)
THEOREM TimerIsRight == Spec => []TimerIffQueued
<1>1. Inv => TimerIffQueued
  BY DEF Inv
<1> QED
  BY <1>1, InvHolds, PTL

(***************************************************************************)
(* An open request is in the queue or in one statement, and there once.    *)
(***************************************************************************)
THEOREM PendingIsOnce == Spec => []PendingInOnePlace
<1>1. Inv => PendingInOnePlace
  BY DEF Inv
<1> QED
  BY <1>1, InvHolds, PTL

(***************************************************************************)
(* A 202 is given only for events that have their rows.                    *)
(***************************************************************************)
THEOREM AcceptedStays == Spec => []AcceptedIsStored
<1>1. Inv => AcceptedIsStored
  BY DEF Inv
<1> QED
  BY <1>1, InvHolds, PTL

(***************************************************************************)
(* No row is filed under another user than the one who sent it.            *)
(***************************************************************************)
THEOREM UsersStayApart == Spec => []UsersKeptApart
<1>1. Inv => UsersKeptApart
  BY DEF Inv
<1> QED
  BY <1>1, InvHolds, PTL

----------------------------------------------------------------------------
\* The abstract state, as the controllers see it.
answers == [e \in Entries |-> CASE promise[e] = "new"      -> "none"
                                [] promise[e] = "pending"  -> "open"
                                [] promise[e] = "resolved" -> "accepted"
                                [] OTHER                   -> "failed"]
kept == {row.entry : row \in rows}

LEMMA InitRefines == Init => Ingest!Init
  BY DEF Init, Ingest!Init

\* Settling a statement is an Answer to its requests; those of a committed one
\* are stored.
LEMMA SettleRefines ==
    ASSUME Inv, NEW s \in inserts,
           NEW outcome \in {"resolved", "rejected"},
           outcome = "resolved" => s.committed,
           Settle(s, outcome)
    PROVE  Ingest!Next
<1> DEFINE seen == IF outcome = "resolved" THEN "accepted" ELSE "failed"
<1>1. /\ promise' = [e \in Entries |-> IF e \in s.entries THEN outcome ELSE promise[e]]
      /\ UNCHANGED rows
  BY DEF Settle
<1>2. s.entries \subseteq Entries /\ \A e \in s.entries : promise[e] = "pending"
  BY DEF Inv, TypeOK, PendingInOnePlace
<1>3. \A e \in s.entries : answers[e] = "open"
  BY <1>2 DEF answers
<1>4. outcome = "resolved" => s.entries \subseteq kept
  <2>1. SUFFICES ASSUME outcome = "resolved", NEW e \in s.entries PROVE e \in kept
    OBVIOUS
  <2>2. PICK v \in EventsOf[e] : TRUE
    BY <1>2, EventsOfAssumption
  <2>3. [event |-> v, entry |-> e, user |-> UserOf[e]] \in rows
    BY <2>1, <2>2 DEF Inv, CommittedIsStored, Filed
  <2> QED
    BY <2>3 DEF kept
<1>5. answers' = [e \in Entries |-> IF e \in s.entries THEN seen ELSE answers[e]]
  BY <1>1, <1>2 DEF answers
<1>6. kept' = kept
  BY <1>1 DEF kept
<1>7. Ingest!Answer(s.entries, seen)
  BY <1>3, <1>4, <1>5, <1>6 DEF Ingest!Answer, answers, kept
<1> QED
  BY <1>2, <1>7 DEF Ingest!Next

LEMMA CommitRefines ==
    ASSUME Inv, NEW s \in inserts, Commit(s)
    PROVE  Ingest!Next
<1>1. /\ rows' = rows \cup
            UNION {{[event |-> v, entry |-> e, user |-> s.user] : v \in EventsOf[e]}
                      : e \in s.entries}
      /\ UNCHANGED promise
  BY DEF Commit
<1>2. s.entries \subseteq Entries /\ \A e \in s.entries : promise[e] = "pending"
  BY DEF Inv, TypeOK, PendingInOnePlace
<1>3. \A e \in s.entries : answers[e] = "open"
  BY <1>2 DEF answers
<1>4. kept' = kept \cup s.entries
  <2>1. ASSUME NEW e \in kept' PROVE e \in kept \cup s.entries
    BY <1>1, <2>1 DEF kept
  <2>2. kept \subseteq kept'
    BY <1>1 DEF kept
  <2>3. ASSUME NEW e \in s.entries PROVE e \in kept'
    <3>1. PICK v \in EventsOf[e] : TRUE
      BY <1>2, EventsOfAssumption
    <3>2. [event |-> v, entry |-> e, user |-> s.user] \in rows'
      BY <1>1, <3>1
    <3> QED
      BY <3>2 DEF kept
  <2> QED
    BY <2>1, <2>2, <2>3
<1>5. answers' = answers
  BY <1>1 DEF answers
<1>6. Ingest!Store(s.entries)
  BY <1>3, <1>4, <1>5 DEF Ingest!Store, answers, kept
<1> QED
  BY <1>2, <1>6 DEF Ingest!Next

\* A crash answers every open request with a failure.
LEMMA CrashRefines ==
    ASSUME Inv, Crash
    PROVE  Ingest!Next
<1> DEFINE S == {e \in Entries : promise[e] = "pending"}
<1>1. /\ promise' = [e \in Entries |-> IF promise[e] = "pending" THEN "cut" ELSE promise[e]]
      /\ UNCHANGED rows
  BY DEF Crash
<1>2. answers' = [e \in Entries |-> IF e \in S THEN "failed" ELSE answers[e]]
  BY <1>1 DEF answers
<1>3. \A e \in S : answers[e] = "open"
  BY DEF answers
<1>4. Ingest!Answer(S, "failed")
  BY <1>1, <1>2, <1>3 DEF Ingest!Answer, answers
<1> QED
  BY <1>4 DEF Ingest!Next

LEMMA EnqueueRefines ==
    ASSUME Inv, NEW e \in Entries, Enqueue(e)
    PROVE  Ingest!Next
<1>1. /\ promise[e] = "new"
      /\ promise' = [promise EXCEPT ![e] = "pending"]
      /\ UNCHANGED rows
  BY DEF Enqueue
<1>2. promise \in [Entries -> {"new", "pending", "resolved", "rejected", "cut"}]
  BY DEF Inv, TypeOK
<1>3. answers' = [answers EXCEPT ![e] = "open"]
  BY <1>1, <1>2 DEF answers
<1>4. Ingest!Receive(e)
  BY <1>1, <1>3 DEF Ingest!Receive, answers
<1> QED
  BY <1>4 DEF Ingest!Next

LEMMA NextRefines == Inv /\ [Next]_vars => [Ingest!Next]_(Ingest!ingest)
<1> SUFFICES ASSUME Inv, [Next]_vars PROVE [Ingest!Next]_(Ingest!ingest)
  OBVIOUS
<1>1. ASSUME NEW e \in Entries, Enqueue(e) PROVE Ingest!Next
  BY <1>1, EnqueueRefines
<1>2. CASE TimerFires
  BY <1>2 DEF TimerFires, Ingest!ingest
<1>3. ASSUME NEW s \in inserts, Commit(s) PROVE Ingest!Next
  BY <1>3, CommitRefines
<1>4. ASSUME NEW s \in inserts, Resolve(s) PROVE Ingest!Next
  BY <1>4, SettleRefines DEF Resolve
<1>5. ASSUME NEW s \in inserts, Reject(s) PROVE Ingest!Next
  BY <1>5, SettleRefines DEF Reject
<1>6. CASE Crash
  BY <1>6, CrashRefines
<1>7. CASE UNCHANGED vars
  BY <1>7 DEF vars, Ingest!ingest
<1> QED
  BY <1>1, <1>2, <1>3, <1>4, <1>5, <1>6, <1>7 DEF Next, StatementStep

(***************************************************************************)
(* The batcher implements EventIngest: seen from the controllers each      *)
(* request is received, stored and answered by itself, and success is      *)
(* answered only for what is stored.                                       *)
(***************************************************************************)
THEOREM BatcherRefinesIngest == Spec => ImplementsIngest
  BY InitRefines, NextRefines, InvHolds, PTL DEF Spec, ImplementsIngest, Ingest!Spec
====
