---- MODULE TaskBoardProofs ----
(***************************************************************************)
(* Proofs about the task list of a phone and the table behind it, for any  *)
(* calls, titles, statuses, priorities, clocks and faults.                 *)
(*                                                                         *)
(* The list is the table because a phone that waits for one answer at a    *)
(* time can tell what it has missed: the invariant says of each kind of    *)
(* answer under way what the list becomes when it arrives.                 *)
(***************************************************************************)
EXTENDS TaskBoard, FiniteSetTheorems, TLAPS

\* A write is missed, covered by a list, or in the table only after it was handled.
HandledOnce ==
    \A c \in Calls : sent[c].at \in {"off", "sent", "late"} =>
        /\ c \notin unseen
        /\ \A d \in Calls : c \notin covers[d]
        /\ c \notin Ids(tasks)

OneWaits == \A c, d \in Calls : Waiting(c) /\ Waiting(d) => c = d

\* created_at is later than that of every row in the table.
RowsAreOld == IsFiniteSet(tasks) /\ \A row \in tasks : row.created <= inserts

\* What the phone creates or changes keeps the default, or the task's priority.
PhoneSetsNoPriority ==
    \A c \in Calls :
        /\ sent[c].at # "off"
        /\ sent[c].by = "phone" /\ sent[c].op \in {"create", "update"}
        => sent[c].input.priority = None

Arriving(c, op) == sent[c].at = "done" /\ Waiting(c) /\ sent[c].op = op

\* What the list would be once the answer under way has arrived.
ListComes ==
    \A c \in Calls :
        Arriving(c, "fetch") /\ unseen \subseteq covers[c] => Shows(answer[c], tasks)

RowComes ==
    \A c \in Calls : Arriving(c, "create") /\ fetched /\ unseen \subseteq {c} =>
        Shows(answer[c] \o items, tasks)

PatchComes ==
    \A c \in Calls :
        Arriving(c, "update") /\ answer[c] # <<>> /\ fetched /\ unseen \subseteq {c} =>
            Shows(Put(items, answer[c][1]), tasks)

ToldInv ==
    "overlap" \notin faults =>
        /\ OneWaits
        /\ ListComes
        /\ RowComes
        /\ PatchComes
        /\ ToldListIsTable

Inv == TypeOK /\ HandledOnce /\ RowsAreOld /\ PhoneSetsNoPriority /\ ToldInv

----------------------------------------------------------------------------
\* What the operators on rows return.
LEMMA PutIs ==
    ASSUME NEW rows \in Seq(Row), NEW row \in Row
    PROVE  /\ Put(rows, row) \in Seq(Row)
           /\ Len(Put(rows, row)) = Len(rows)
           /\ \A i \in 1..Len(rows) : Put(rows, row)[i].id = rows[i].id
<1>1. /\ Len(rows) \in Nat
      /\ DOMAIN rows = 1..Len(rows)
      /\ \A i \in 1..Len(rows) : rows[i] \in Row
  OBVIOUS
<1>2. Put(rows, row) \in [1..Len(rows) -> Row]
  BY <1>1 DEF Put
<1>3. Put(rows, row) \in Seq(Row) /\ Len(Put(rows, row)) = Len(rows)
  BY <1>1, <1>2
<1> QED
  BY <1>1, <1>3 DEF Put

LEMMA PatchedIs ==
    ASSUME NEW row \in Row, NEW input \in Patch
    PROVE  /\ Patched(row, input) \in Row
           /\ Patched(row, input).id = row.id
           /\ Patched(row, input).created = row.created
           /\ input.priority = None => Patched(row, input).priority = row.priority
  BY DEF Row, Patch, Patched, Coalesce

LEMMA NewTaskIs ==
    ASSUME TypeOK, NEW c \in Calls, ToHandle(c, "create")
    PROVE  /\ NewTask(c) \in Row
           /\ NewTask(c).id = c
           /\ NewTask(c).created = inserts + 1
           /\ sent[c].input.priority = None => NewTask(c).priority = DefaultPriority
<1>1. sent[c].input \in New /\ inserts \in Nat
  BY DEF TypeOK, ToHandle
<1>2. /\ sent[c].input.title \in Titles
      /\ sent[c].input.priority \in Priorities \cup {None}
  BY <1>1 DEF New
<1>3. Coalesce(sent[c].input.priority, DefaultPriority) \in Priorities
  BY <1>2, PrioritiesAssumption DEF Coalesce
<1> QED
  BY <1>1, <1>2, <1>3, ClocksAssumption, StatusesAssumption DEF NewTask, Row, Coalesce

\* A row in front of the others.
LEMMA InFrontIs ==
    ASSUME NEW rows \in Seq(Row), NEW row \in Row
    PROVE  /\ <<row>> \o rows \in Seq(Row)
           /\ Len(<<row>> \o rows) = Len(rows) + 1
           /\ (<<row>> \o rows)[1] = row
           /\ \A i \in 2..Len(rows) + 1 : (<<row>> \o rows)[i] = rows[i - 1]
  OBVIOUS

\* An arrangement of a finite set has each of its members once.
LEMMA ArrangementIs ==
    ASSUME NEW table \in SUBSET Row, IsFiniteSet(table), NEW rows \in SetToSeqs(table)
    PROVE  rows \in Seq(Row) /\ Range(rows) = table /\ IsInjective(rows)
<1> DEFINE n == Cardinality(table)
<1>1. n \in Nat
  BY FS_CardinalityType
<1>2. rows \in [1..n -> table] /\ \A i, j \in 1..n : i # j => rows[i] # rows[j]
  BY DEF SetToSeqs
<1>3. Cardinality(1..n) = n
  BY <1>1, FS_Interval
<1>4. IsInjective(rows)
  BY <1>2 DEF IsInjective
<1>5. rows \in Injection(1..n, table)
  BY <1>2, <1>4 DEF Injection
<1>6. rows \in Surjection(1..n, table)
  BY <1>3, <1>5, FS_Injection
<1>7. \A row \in table : \E i \in 1..n : rows[i] = row
  BY <1>6 DEF Surjection
<1>8. Range(rows) = table
  BY <1>2, <1>7 DEF Range
<1> QED
  BY <1>1, <1>2, <1>4, <1>8

\* The list that shows the table shows it with a new, latest row when that row is put
\* in front, if it is of the default priority.
LEMMA ShownInFront ==
    ASSUME NEW rows \in Seq(Row), NEW table \in SUBSET Row, NEW row \in Row,
           Shows(rows, table), row.id \notin Ids(table),
           row.priority = DefaultPriority,
           \A other \in table : other.created < row.created
    PROVE  Shows(<<row>> \o rows, table \cup {row})
<1> DEFINE new == <<row>> \o rows
<1>1. /\ new \in Seq(Row) /\ Len(new) = Len(rows) + 1 /\ new[1] = row
      /\ \A i \in 2..Len(rows) + 1 : new[i] = rows[i - 1]
  BY InFrontIs
<1> HIDE DEF new
<1>2. /\ Len(rows) \in Nat /\ DOMAIN rows = 1..Len(rows)
      /\ DOMAIN new = 1..Len(rows) + 1
  BY <1>1
<1>3. \A i \in 2..Len(rows) + 1 : i - 1 \in DOMAIN rows /\ new[i] = rows[i - 1]
  BY <1>1, <1>2
<1>4. /\ \A i \in DOMAIN rows : rows[i] \in table
      /\ \A other \in table : \E i \in DOMAIN rows : rows[i] = other
  BY DEF Shows, Range
<1>5. \A other \in table : other # row
  BY DEF Ids
<1>6. Range(new) = table \cup {row}
  <2>1. \A i \in DOMAIN new : new[i] \in table \cup {row}
    <3> SUFFICES ASSUME NEW i \in DOMAIN new PROVE new[i] \in table \cup {row}
      OBVIOUS
    <3>1. i = 1 \/ i \in 2..Len(rows) + 1
      BY <1>2
    <3> QED
      BY <1>1, <1>3, <1>4, <3>1
  <2>2. \A other \in table : \E i \in DOMAIN new : new[i] = other
    <3> SUFFICES ASSUME NEW other \in table PROVE \E i \in DOMAIN new : new[i] = other
      OBVIOUS
    <3>1. PICK i \in DOMAIN rows : rows[i] = other
      BY <1>4
    <3>2. i + 1 \in 2..Len(rows) + 1 /\ (i + 1) - 1 = i /\ i + 1 \in DOMAIN new
      BY <1>2
    <3>3. new[i + 1] = rows[(i + 1) - 1]
      BY <1>3, <3>2
    <3> QED
      BY <3>1, <3>2, <3>3
  <2>3. 1 \in DOMAIN new
    BY <1>2
  <2> QED
    BY <1>1, <2>1, <2>2, <2>3 DEF Range
<1>7. ASSUME NEW i \in DOMAIN new, NEW j \in DOMAIN new, i < j
      PROVE  /\ new[i] # new[j]
             /\ i # 1 => i - 1 \in DOMAIN rows /\ new[i] = rows[i - 1] /\ i - 1 < j - 1
             /\ j - 1 \in DOMAIN rows /\ new[j] = rows[j - 1]
  <2>1. j \in 2..Len(rows) + 1 /\ (i = 1 \/ i \in 2..Len(rows) + 1)
    BY <1>2, <1>7
  <2>2. i # 1 => i - 1 # j - 1 /\ i - 1 < j - 1
    BY <1>2, <1>7
  <2>3. \A k, l \in DOMAIN rows : rows[k] = rows[l] => k = l
    BY DEF Shows, IsInjective
  <2> QED
    BY <1>1, <1>3, <1>4, <1>5, <2>1, <2>2, <2>3
<1>8. IsInjective(new)
  <2>1. \A i, j \in DOMAIN new : i # j => i < j \/ j < i
    BY <1>2
  <2> QED
    BY <1>7, <2>1 DEF IsInjective
<1>9. ASSUME \A other \in table \cup {row} : other.priority >= DefaultPriority
      PROVE  Sorted(new)
  <2>1. \A k, l \in DOMAIN rows : k < l => Before(rows[k], rows[l])
    BY <1>9 DEF Shows, Sorted
  <2>2. ASSUME NEW other \in table PROVE Before(row, other)
    <3>1. other \in Row /\ row \in Row /\ other.created < row.created
      OBVIOUS
    <3>2. other.priority >= DefaultPriority
      BY <1>9
    <3>3. /\ other.priority \in Priorities
          /\ other.created \in Nat /\ row.created \in Nat
      BY <3>1 DEF Row
    <3>4. other.priority \in Nat
      <4>1. \A p \in Priorities : p \in 1..4
        BY PrioritiesAssumption, Zenon
      <4> QED
        BY <3>3, <4>1
    <3> QED
      BY <3>1, <3>2, <3>3, <3>4 DEF Before, DefaultPriority
  <2>3. ASSUME NEW i \in DOMAIN new, NEW j \in DOMAIN new, i < j
        PROVE  Before(new[i], new[j])
    BY <1>1, <1>4, <1>7, <2>1, <2>2, <2>3
  <2> QED
    BY <2>3 DEF Sorted
<1> QED
  BY <1>6, <1>8, <1>9 DEF Shows, new

\* The list that shows the table shows it with a row changed when the row takes the
\* place of the old one, if the change is not to what the order depends on.
LEMMA ShownInPlace ==
    ASSUME NEW rows \in Seq(Row), NEW table \in SUBSET Row, Shows(rows, table),
           \A one, other \in table : one.id = other.id => one = other,
           NEW old \in table, NEW row \in Row,
           row.id = old.id, row.created = old.created, row.priority = old.priority
    PROVE  Shows(Put(rows, row), (table \ {old}) \cup {row})
<1> DEFINE new == Put(rows, row)
<1>1. /\ \A i \in DOMAIN rows : rows[i] \in table
      /\ \A other \in table : \E i \in DOMAIN rows : rows[i] = other
      /\ \A k, l \in DOMAIN rows : rows[k] = rows[l] => k = l
  BY DEF Shows, Range, IsInjective
<1>2. DOMAIN new = DOMAIN rows /\ DOMAIN rows = 1..Len(rows)
  BY DEF Put
<1>3. PICK at \in DOMAIN rows : rows[at] = old
  BY <1>1
<1>4. \A i \in DOMAIN rows : rows[i].id = row.id <=> i = at
  BY <1>1, <1>3
<1>5. \A i \in DOMAIN rows : \A j \in 1..i - 1 : j \in DOMAIN rows /\ j # i
  BY <1>2
<1>6. \A i \in DOMAIN rows : new[i] = IF i = at THEN row ELSE rows[i]
  BY <1>4, <1>5 DEF Put
<1> HIDE DEF new
<1>7. \A i \in DOMAIN rows : i # at => rows[i] # old /\ rows[i].id # row.id
  BY <1>3, <1>4, <1>1
<1>8. Range(new) = (table \ {old}) \cup {row}
  <2>1. \A i \in DOMAIN new : new[i] \in (table \ {old}) \cup {row}
    BY <1>1, <1>2, <1>6, <1>7
  <2>2. \A other \in table \ {old} : \E i \in DOMAIN new : new[i] = other
    BY <1>1, <1>2, <1>3, <1>6
  <2>3. new[at] = row /\ at \in DOMAIN new
    BY <1>2, <1>6
  <2> QED
    BY <2>1, <2>2, <2>3 DEF Range
<1>9. IsInjective(new)
  BY <1>1, <1>2, <1>6, <1>7 DEF IsInjective
<1>10. \A i \in DOMAIN rows : /\ new[i].priority = rows[i].priority
                               /\ new[i].created = rows[i].created
  BY <1>3, <1>6
<1>11. ASSUME \A other \in (table \ {old}) \cup {row} : other.priority >= DefaultPriority
       PROVE  Sorted(new)
  <2>1. \A other \in table : other.priority >= DefaultPriority
    BY <1>11
  <2>2. \A k, l \in DOMAIN rows : k < l => Before(rows[k], rows[l])
    BY <2>1 DEF Shows, Sorted
  <2> QED
    BY <1>2, <1>10, <2>2 DEF Sorted, Before
<1> QED
  BY <1>8, <1>9, <1>11 DEF Shows, new

----------------------------------------------------------------------------
LEMMA InitInv == Init => Inv
<1> SUFFICES ASSUME Init PROVE Inv
  OBVIOUS
<1>1. /\ tasks = {} /\ inserts = 0 /\ items = <<>> /\ Ids(tasks) = {}
      /\ \A c \in Calls : sent[c] = Off
      /\ Off.at = "off"
  BY DEF Init, Ids, Off
<1>2. TypeOK
  <2>1. <<>> \in Seq(Row)
    OBVIOUS
  <2>2. Off \in Call
    BY DEF Off, Call, Inputs
  <2>3. tasks \subseteq Row /\ inserts \in Nat /\ unseen \subseteq Calls
        /\ \A row, other \in tasks : row.id = other.id => row = other
    BY <1>1 DEF Init
  <2>4. /\ sent \in [Calls -> Call]
        /\ answer \in [Calls -> Seq(Row)]
        /\ covers \in [Calls -> SUBSET Calls]
    BY <2>1, <2>2 DEF Init
  <2> QED
    BY <1>1, <2>1, <2>3, <2>4 DEF Init, TypeOK
<1>3. HandledOnce /\ RowsAreOld /\ PhoneSetsNoPriority
  BY <1>1, FS_EmptySet DEF Init, HandledOnce, RowsAreOld, PhoneSetsNoPriority
<1>4. /\ \A c \in Calls : ~Waiting(c)
      /\ ~fetched
  BY <1>1 DEF Init, Waiting
<1>5. ToldInv
  BY <1>4 DEF ToldInv, OneWaits, ListComes, RowComes, PatchComes, ToldListIsTable, Arriving
<1> QED
  BY <1>2, <1>3, <1>5 DEF Inv

\* A call that leaves, from the phone only when it waits for none.
LEMMA SendInv ==
    ASSUME Inv, NEW c \in Calls, NEW by \in {"phone", "other"},
           NEW op \in {"fetch", "create", "update", "delete"},
           NEW id \in Calls \cup {None},
           NEW input \in Inputs,
           op = "create" => input \in New,
           op = "update" => input \in Patch,
           by = "phone" => PhoneSends,
           by = "phone" /\ op \in {"create", "update"} => input.priority = None,
           Send(c, by, op, id, input), loading' \in BOOLEAN
    PROVE  Inv'
<1>1. /\ sent[c].at = "off"
      /\ sent' = [sent EXCEPT ![c] =
             [at |-> "sent", by |-> by, op |-> op, id |-> id, input |-> input]]
      /\ UNCHANGED <<faults, tasks, inserts, items, answer, fetched, unseen, covers>>
  BY DEF Send
<1>2. /\ sent'[c] = [at |-> "sent", by |-> by, op |-> op, id |-> id, input |-> input]
      /\ \A d \in Calls : d # c => sent'[d] = sent[d]
  BY <1>1 DEF Inv, TypeOK
<1>3. TypeOK'
  <2>1. sent' \in [Calls -> Call]
    <3>1. [at |-> "sent", by |-> by, op |-> op, id |-> id, input |-> input] \in Call
      BY DEF Call
    <3> QED
      BY <1>1, <3>1 DEF Inv, TypeOK
  <2>2. \A d \in Calls : sent'[d].at # "off" =>
            /\ sent'[d].op = "create" => sent'[d].input \in New
            /\ sent'[d].op = "update" => sent'[d].input \in Patch
    <3>1. sent'[c].op = op /\ sent'[c].input = input
      BY <1>2
    <3>2. \A d \in Calls : d # c =>
             /\ sent'[d].at = sent[d].at
             /\ sent'[d].op = sent[d].op
             /\ sent'[d].input = sent[d].input
      BY <1>2
    <3>3. \A d \in Calls : sent[d].at # "off" =>
             /\ sent[d].op = "create" => sent[d].input \in New
             /\ sent[d].op = "update" => sent[d].input \in Patch
      BY DEF Inv, TypeOK
    <3> QED
      BY <3>1, <3>2, <3>3, Zenon
  <2> QED
    BY <1>1, <2>1, <2>2 DEF Inv, TypeOK
<1>4. HandledOnce'
  BY <1>1, <1>2 DEF Inv, HandledOnce, Ids
<1>a. RowsAreOld'
  BY <1>1 DEF Inv, RowsAreOld
<1>b. PhoneSetsNoPriority'
  <2>1. sent'[c].by = by /\ sent'[c].op = op /\ sent'[c].input = input
    BY <1>2
  <2>2. \A d \in Calls : d # c =>
           /\ sent'[d].at = sent[d].at /\ sent'[d].by = sent[d].by
           /\ sent'[d].op = sent[d].op /\ sent'[d].input = sent[d].input
    BY <1>2
  <2> QED
    BY <2>1, <2>2, Zenon DEF Inv, PhoneSetsNoPriority
<1>5. /\ \A d \in Calls : d # c => Waiting(d)' = Waiting(d)
      /\ ~Waiting(c)
      /\ Waiting(c)' => by = "phone"
      /\ \A d \in Calls, o \in {"fetch", "create", "update"} :
            Arriving(d, o)' => Arriving(d, o)
  BY <1>1, <1>2 DEF Waiting, Arriving
<1>6. "overlap" \notin faults => OneWaits'
  BY <1>1, <1>5 DEF Inv, ToldInv, OneWaits, PhoneSends
<1>7. ToldInv'
  BY <1>1, <1>5, <1>6
     DEF Inv, ToldInv, ListComes, RowComes, PatchComes, ToldListIsTable
<1> QED
  BY <1>3, <1>4, <1>a, <1>b, <1>7 DEF Inv

\* What a call's step leaves of the calls: only where it stands changes.
Kept(c) ==
    /\ sent' = [sent EXCEPT ![c].at = sent'[c].at]
    /\ sent'[c].at \in {"sent", "done", "late", "over"}

LEMMA MovedIs ==
    ASSUME NEW call \in Call, NEW at \in {"sent", "done", "late", "over"}
    PROVE  /\ [call EXCEPT !.at = at] \in Call
           /\ [call EXCEPT !.at = at].at = at
           /\ [call EXCEPT !.at = at].by = call.by
           /\ [call EXCEPT !.at = at].op = call.op
           /\ [call EXCEPT !.at = at].input = call.input
  BY DEF Call

LEMMA KeptIs ==
    ASSUME TypeOK, NEW c \in Calls, sent[c].at # "off", Kept(c)
    PROVE  /\ sent' \in [Calls -> Call]
           /\ \A d \in Calls : /\ sent'[d].by = sent[d].by
                               /\ sent'[d].op = sent[d].op
                               /\ sent'[d].input = sent[d].input
                               /\ d # c => sent'[d].at = sent[d].at
           /\ \A d \in Calls : sent'[d].at # "off" =>
                 /\ sent'[d].op = "create" => sent'[d].input \in New
                 /\ sent'[d].op = "update" => sent'[d].input \in Patch
<1>1. sent' = [sent EXCEPT ![c] = [sent[c] EXCEPT !.at = sent'[c].at]]
  BY DEF Kept
<1>0. sent[c] \in Call /\ sent'[c].at \in {"sent", "done", "late", "over"}
  BY DEF TypeOK, Kept
<1> DEFINE moved == [sent[c] EXCEPT !.at = sent'[c].at]
<1>2. /\ moved \in Call
      /\ moved.by = sent[c].by /\ moved.op = sent[c].op /\ moved.input = sent[c].input
  BY <1>0, MovedIs
<1>a. sent' = [sent EXCEPT ![c] = moved]
  BY <1>1
<1> HIDE DEF moved
<1>b. sent'[c] = moved /\ \A d \in Calls : d # c => sent'[d] = sent[d]
  BY <1>a DEF TypeOK
<1>3. \A d \in Calls : /\ sent'[d].by = sent[d].by
                       /\ sent'[d].op = sent[d].op
                       /\ sent'[d].input = sent[d].input
                       /\ d # c => sent'[d].at = sent[d].at
  BY <1>2, <1>b
<1>4. \A d \in Calls : sent'[d].at # "off" =>
          /\ sent'[d].op = "create" => sent'[d].input \in New
          /\ sent'[d].op = "update" => sent'[d].input \in Patch
  <2>1. \A d \in Calls : sent'[d].at # "off" => sent[d].at # "off"
    BY <1>3
  <2>2. \A d \in Calls : sent[d].at # "off" =>
          /\ sent[d].op = "create" => sent[d].input \in New
          /\ sent[d].op = "update" => sent[d].input \in Patch
    BY DEF TypeOK
  <2> QED
    BY <1>3, <2>1, <2>2, Zenon
<1>5. sent' \in [Calls -> Call]
  BY <1>a, <1>2 DEF TypeOK
<1> QED
  BY <1>3, <1>4, <1>5, Zenon

LEMMA PriorityKept ==
    ASSUME Inv, NEW c \in Calls, sent[c].at # "off", Kept(c)
    PROVE  PhoneSetsNoPriority'
<1>1. \A d \in Calls : /\ sent'[d].by = sent[d].by
                       /\ sent'[d].op = sent[d].op
                       /\ sent'[d].input = sent[d].input
                       /\ sent'[d].at # "off" => sent[d].at # "off"
  <2>1. \A d \in Calls : /\ sent'[d].by = sent[d].by
                         /\ sent'[d].op = sent[d].op
                         /\ sent'[d].input = sent[d].input
                         /\ d # c => sent'[d].at = sent[d].at
    BY KeptIs DEF Inv
  <2> QED
    BY <2>1
<1> QED
  BY <1>1, Zenon DEF Inv, PhoneSetsNoPriority

\* A query has run: what the invariant asks of the new table and the response.
LEMMA HandledInv ==
    ASSUME Inv, NEW c \in Calls, NEW rows \in SUBSET Row, NEW response \in Seq(Row),
           sent[c].at \in {"sent", "late"}, Handled(c, rows, response),
           Ids(rows) \subseteq Ids(tasks) \cup {c},
           \A row, other \in rows : row.id = other.id => row = other,
           IsFiniteSet(rows), inserts' \in Nat, \A row \in rows : row.created <= inserts',
           covers' = [covers EXCEPT ![c] = covers'[c]],
           covers'[c] \in {unseen, covers[c]},
           sent[c].op = "fetch" =>
               covers'[c] = unseen /\ rows = tasks /\ Shows(response, tasks),
           sent[c].op = "create" =>
               /\ rows # tasks
               /\ sent[c].by = "phone" /\ Shows(items, tasks) => Shows(response \o items, rows),
           sent[c].op = "update" /\ response # <<>> =>
               (sent[c].by = "phone" /\ Shows(items, tasks) =>
                    Shows(Put(items, response[1]), rows))
    PROVE  Inv'
<1>1. /\ tasks' = rows
      /\ answer' = [answer EXCEPT ![c] = response]
      /\ sent' = [sent EXCEPT ![c].at = IF Waiting(c) THEN "done" ELSE "over"]
      /\ unseen' = IF rows = tasks THEN unseen ELSE unseen \cup {c}
      /\ UNCHANGED <<faults, items, loading, fetched>>
  BY DEF Handled
<1>2. sent'[c].at = IF Waiting(c) THEN "done" ELSE "over"
  BY <1>1 DEF Inv, TypeOK
<1>3. Kept(c)
  BY <1>1, <1>2 DEF Kept
<1>4. /\ answer'[c] = response
      /\ \A d \in Calls : d # c => answer'[d] = answer[d] /\ covers'[d] = covers[d]
  BY <1>1 DEF Inv, TypeOK
<1>5. \A d \in Calls : /\ sent'[d].by = sent[d].by
                       /\ sent'[d].op = sent[d].op
                       /\ d # c => sent'[d].at = sent[d].at
  BY <1>3, KeptIs DEF Inv
<1>6. TypeOK'
  <2>1. answer' \in [Calls -> Seq(Row)] /\ covers' \in [Calls -> SUBSET Calls]
        /\ unseen' \subseteq Calls
    BY <1>1 DEF Inv, TypeOK
  <2> QED
    BY <1>1, <1>3, <2>1, KeptIs DEF Inv, TypeOK
<1>a. RowsAreOld'
  BY <1>1 DEF RowsAreOld
<1>b. PhoneSetsNoPriority'
  BY <1>3, PriorityKept
<1>7. c \notin unseen /\ (\A d \in Calls : c \notin covers[d]) /\ c \notin Ids(tasks)
  BY DEF Inv, HandledOnce
<1>8. HandledOnce'
  <2> SUFFICES ASSUME NEW e \in Calls, sent'[e].at \in {"off", "sent", "late"}
               PROVE  /\ e \notin unseen'
                      /\ \A d \in Calls : e \notin covers'[d]
                      /\ e \notin Ids(tasks)'
    BY DEF HandledOnce
  <2>1. e # c
    BY <1>2
  <2>2. e \notin unseen /\ (\A d \in Calls : e \notin covers[d]) /\ e \notin Ids(tasks)
    BY <1>5, <2>1 DEF Inv, HandledOnce
  <2>3. Ids(tasks)' = Ids(rows)
    BY <1>1 DEF Ids
  <2> QED
    BY <1>1, <1>4, <2>1, <2>2, <2>3
<1>9. ASSUME "overlap" \notin faults PROVE ToldInv'
  <2>0. /\ OneWaits /\ ListComes /\ RowComes /\ PatchComes /\ ToldListIsTable
    BY <1>9 DEF Inv, ToldInv
  <2>1. /\ \A d \in Calls : Waiting(d)' <=> Waiting(d)
        /\ \A d \in Calls, op \in {"fetch", "create", "update"} :
              d # c => (Arriving(d, op)' <=> Arriving(d, op))
        /\ \A op \in {"fetch", "create", "update"} :
              Arriving(c, op)' <=> Waiting(c) /\ sent[c].op = op
    BY <1>2, <1>5 DEF Waiting, Arriving
  <2>2. OneWaits'
    BY <2>0, <2>1 DEF OneWaits
  <2>3. \/ rows = tasks /\ unseen' = unseen
        \/ rows # tasks /\ unseen' = unseen \cup {c}
    BY <1>1, Zenon
  <2>4. ListComes'
    <3> SUFFICES ASSUME NEW d \in Calls, Arriving(d, "fetch")', unseen' \subseteq covers'[d]
                 PROVE  Shows(answer[d], tasks)'
      BY DEF ListComes
    <3>0. Shows(answer[d], tasks)' = Shows(answer'[d], tasks')
      BY DEF Shows, Sorted, Before
    <3>1. CASE d = c
      BY <1>1, <1>4, <2>1, <3>0, <3>1
    <3>2. CASE d # c
      <4>1. c \notin covers'[d]
        BY <1>4, <1>7, <3>2
      <4>2. unseen' = unseen /\ rows = tasks
        BY <2>3, <4>1
      <4> QED
        BY <1>1, <1>4, <2>0, <2>1, <3>0, <3>2, <4>2 DEF ListComes
    <3> QED
      BY <3>1, <3>2
  <2>5. unseen' \subseteq {c} /\ fetched => Shows(items, tasks)
    <3>1. unseen \subseteq unseen'
      BY <2>3
    <3>2. unseen' \subseteq {c} => unseen = {}
      BY <1>7, <3>1
    <3>3. fetched /\ unseen = {} => Shows(items, tasks)
      BY <1>9, <2>0 DEF ToldListIsTable
    <3> QED
      BY <3>2, <3>3, Zenon
  <2>6. ASSUME NEW d \in Calls, d # c, unseen' \subseteq {d}
        PROVE  unseen' = unseen /\ rows = tasks
    BY <2>3, <2>6
  <2>7. RowComes'
    <3> SUFFICES ASSUME NEW d \in Calls, Arriving(d, "create")', fetched', unseen' \subseteq {d}
                 PROVE  Shows(answer[d] \o items, tasks)'
      BY DEF RowComes
    <3>0. Shows(answer[d] \o items, tasks)' = Shows(answer'[d] \o items', tasks')
      BY DEF Shows, Sorted, Before
    <3>1. CASE d = c
      BY <1>1, <1>4, <2>1, <2>5, <3>0, <3>1 DEF Waiting
    <3>2. CASE d # c
      BY <1>1, <1>4, <2>0, <2>1, <2>6, <3>0, <3>2 DEF RowComes
    <3> QED
      BY <3>1, <3>2
  <2>8. PatchComes'
    <3> SUFFICES ASSUME NEW d \in Calls, Arriving(d, "update")', answer'[d] # <<>>, fetched',
                        unseen' \subseteq {d}
                 PROVE  Shows(Put(items, answer[d][1]), tasks)'
      BY DEF PatchComes
    <3>0. Shows(Put(items, answer[d][1]), tasks)' = Shows(Put(items', answer'[d][1]), tasks')
      BY DEF Shows, Sorted, Before, Put
    <3>1. CASE d = c
      BY <1>1, <1>4, <2>1, <2>5, <3>0, <3>1 DEF Waiting
    <3>2. CASE d # c
      BY <1>1, <1>4, <2>0, <2>1, <2>6, <3>0, <3>2 DEF PatchComes
    <3> QED
      BY <3>1, <3>2
  <2>9. ToldListIsTable'
    <3> SUFFICES ASSUME fetched', unseen' = {} PROVE Shows(items, tasks)'
      BY DEF ToldListIsTable
    <3>1. unseen = {} /\ rows = tasks
      BY <2>3
    <3> QED
      BY <1>1, <1>9, <2>0, <3>1 DEF ToldListIsTable, Shows, Sorted, Before
  <2> QED
    BY <1>1, <2>2, <2>4, <2>7, <2>8, <2>9 DEF ToldInv
<1> QED
  BY <1>1, <1>6, <1>8, <1>9, <1>a, <1>b DEF Inv, ToldInv

LEMMA ListHandledInv ==
    ASSUME Inv, NEW c \in Calls, HandleList(c)
    PROVE  Inv'
<1>1. PICK rows \in SetToSeqs(tasks) : Sorted(rows) /\ Handled(c, tasks, rows)
  BY DEF HandleList
<1>2. /\ sent[c].at \in {"sent", "late"} /\ sent[c].op = "fetch"
      /\ covers' = [covers EXCEPT ![c] = unseen]
      /\ inserts' = inserts
  BY DEF HandleList, ToHandle
<1>3. covers'[c] = unseen
  BY <1>2 DEF Inv, TypeOK
<1>4. /\ tasks \in SUBSET Row /\ IsFiniteSet(tasks) /\ inserts \in Nat
      /\ \A row \in tasks : row.created <= inserts
      /\ \A row, other \in tasks : row.id = other.id => row = other
  BY DEF Inv, TypeOK, RowsAreOld
<1>5. rows \in Seq(Row) /\ Shows(rows, tasks)
  BY <1>1, <1>4, ArrangementIs DEF Shows
<1> QED
  BY <1>1, <1>2, <1>3, <1>4, <1>5, HandledInv

\* The new row's id is the call's, which no row has had.
LEMMA CreateHandledInv ==
    ASSUME Inv, NEW c \in Calls, HandleCreate(c)
    PROVE  Inv'
<1> DEFINE row  == NewTask(c)
           rows == tasks \cup {row}
<1>1. /\ sent[c].at \in {"sent", "late"} /\ sent[c].op = "create"
      /\ Handled(c, rows, <<row>>)
      /\ inserts' = inserts + 1
      /\ covers' = covers
  BY DEF HandleCreate, ToHandle
<1>2. /\ row \in Row /\ row.id = c /\ row.created = inserts + 1
      /\ sent[c].input.priority = None => row.priority = DefaultPriority
  BY NewTaskIs DEF Inv, HandleCreate
<1> HIDE DEF row
<1>3. /\ tasks \in SUBSET Row /\ IsFiniteSet(tasks) /\ inserts \in Nat
      /\ \A other \in tasks : other.created <= inserts
      /\ \A one, other \in tasks : one.id = other.id => one = other
      /\ items \in Seq(Row)
  BY DEF Inv, TypeOK, RowsAreOld
<1>4. c \notin Ids(tasks)
  BY <1>1 DEF Inv, HandledOnce
<1>5. /\ rows \in SUBSET Row /\ rows # tasks /\ Ids(rows) \subseteq Ids(tasks) \cup {c}
      /\ \A one, other \in rows : one.id = other.id => one = other
  BY <1>2, <1>3, <1>4 DEF Ids
<1>6. IsFiniteSet(rows) /\ <<row>> \in Seq(Row)
  BY <1>2, <1>3, FS_AddElement
<1>7. inserts' \in Nat /\ \A other \in rows : other.created <= inserts'
  <2>1. \A other \in tasks : other.created \in Nat
    BY <1>3 DEF Row
  <2> QED
    BY <1>1, <1>2, <1>3, <2>1
<1>8. ASSUME sent[c].by = "phone", Shows(items, tasks)
      PROVE  Shows(<<row>> \o items, rows)
  <2>1. row.priority = DefaultPriority
    BY <1>1, <1>2, <1>8 DEF Inv, PhoneSetsNoPriority
  <2>2. \A other \in tasks : other.created < row.created
    <3>1. \A other \in tasks : other.created \in Nat
      BY <1>3 DEF Row
    <3> QED
      BY <1>2, <1>3, <3>1
  <2> QED
    BY <1>2, <1>3, <1>4, <1>8, <2>1, <2>2, ShownInFront
<1>9. covers' = [covers EXCEPT ![c] = covers'[c]] /\ covers'[c] = covers[c]
  BY <1>1 DEF Inv, TypeOK
<1> HIDE DEF rows
<1> QED
  BY <1>1, <1>5, <1>6, <1>7, <1>8, <1>9, HandledInv

LEMMA UpdateHandledInv ==
    ASSUME Inv, NEW c \in Calls, HandleUpdate(c)
    PROVE  Inv'
<1>1. /\ sent[c].at \in {"sent", "late"} /\ sent[c].op = "update"
      /\ covers' = covers /\ inserts' = inserts
  BY DEF HandleUpdate, ToHandle
<1>2. /\ tasks \in SUBSET Row /\ IsFiniteSet(tasks) /\ inserts \in Nat
      /\ \A row \in tasks : row.created <= inserts
      /\ \A row, other \in tasks : row.id = other.id => row = other
      /\ items \in Seq(Row)
  BY DEF Inv, TypeOK, RowsAreOld
<1>3. covers' = [covers EXCEPT ![c] = covers'[c]] /\ covers'[c] = covers[c]
  BY <1>1 DEF Inv, TypeOK
<1>4. CASE Handled(c, tasks, <<>>)
  <2>1. <<>> \in Seq(Row)
    OBVIOUS
  <2> QED
    BY <1>1, <1>2, <1>3, <1>4, <2>1, HandledInv
<1>5. ASSUME NEW old \in tasks, NEW new, new = Patched(old, sent[c].input),
             Handled(c, (tasks \ {old}) \cup {new}, <<new>>)
      PROVE  Inv'
  <2> DEFINE rows == (tasks \ {old}) \cup {new}
  <2>1. old \in Row /\ sent[c].input \in Patch
    BY <1>1, <1>2 DEF Inv, TypeOK
  <2>2. /\ new \in Row /\ new.id = old.id /\ new.created = old.created
        /\ sent[c].input.priority = None => new.priority = old.priority
    BY <1>5, <2>1, PatchedIs
  <2>3. /\ rows \in SUBSET Row /\ Ids(rows) \subseteq Ids(tasks)
        /\ \A one, other \in rows : one.id = other.id => one = other
        /\ \A row \in rows : row.created <= inserts
    BY <1>2, <2>2 DEF Ids
  <2>4. IsFiniteSet(rows)
    BY <1>2, FS_RemoveElement, FS_AddElement
  <2>5. <<new>> \in Seq(Row) /\ <<new>>[1] = new
    BY <2>2
  <2>6. ASSUME sent[c].by = "phone", Shows(items, tasks)
        PROVE  Shows(Put(items, new), rows)
    <3>1. new.priority = old.priority
      BY <1>1, <2>2, <2>6 DEF Inv, PhoneSetsNoPriority
    <3> QED
      BY <1>2, <2>2, <2>6, <3>1, ShownInPlace
  <2>7. Handled(c, rows, <<new>>)
    BY <1>5
  <2> HIDE DEF rows
  <2> QED
    BY <1>1, <1>2, <1>3, <2>3, <2>4, <2>5, <2>6, <2>7, HandledInv
<1> QED
  BY <1>4, <1>5 DEF HandleUpdate

LEMMA DeleteHandledInv ==
    ASSUME Inv, NEW c \in Calls, HandleDelete(c)
    PROVE  Inv'
<1>1. /\ sent[c].at \in {"sent", "late"} /\ sent[c].op = "delete"
      /\ covers' = covers /\ inserts' = inserts
  BY DEF HandleDelete, ToHandle
<1>2. /\ tasks \in SUBSET Row /\ IsFiniteSet(tasks) /\ inserts \in Nat
      /\ \A row \in tasks : row.created <= inserts
      /\ \A row, other \in tasks : row.id = other.id => row = other
  BY DEF Inv, TypeOK, RowsAreOld
<1>3. covers' = [covers EXCEPT ![c] = covers'[c]] /\ covers'[c] = covers[c]
  BY <1>1 DEF Inv, TypeOK
<1>4. <<>> \in Seq(Row)
  OBVIOUS
<1>5. CASE Handled(c, tasks, <<>>)
  BY <1>1, <1>2, <1>3, <1>4, <1>5, HandledInv
<1>6. ASSUME NEW old \in tasks, Handled(c, tasks \ {old}, <<>>)
      PROVE  Inv'
  <2> DEFINE rows == tasks \ {old}
  <2>1. /\ rows \in SUBSET Row /\ Ids(rows) \subseteq Ids(tasks)
        /\ \A one, other \in rows : one.id = other.id => one = other
        /\ \A row \in rows : row.created <= inserts
    BY <1>2 DEF Ids
  <2>2. IsFiniteSet(rows)
    BY <1>2, FS_RemoveElement
  <2>3. Handled(c, rows, <<>>)
    BY <1>6
  <2> HIDE DEF rows
  <2> QED
    BY <1>1, <1>2, <1>3, <1>4, <2>1, <2>2, <2>3, HandledInv
<1> QED
  BY <1>5, <1>6 DEF HandleDelete

----------------------------------------------------------------------------
\* An answer arrives and the list takes it: what the invariant asks of the new list.
LEMMA FulfilledInv ==
    ASSUME Inv, NEW c \in Calls, sent[c].at = "done", Waiting(c), Over(c),
           items' \in Seq(Row), loading' \in BOOLEAN, fetched' \in BOOLEAN,
           unseen' \subseteq unseen,
           UNCHANGED <<faults, tasks, inserts, answer, covers>>,
           "overlap" \notin faults /\ fetched' /\ unseen' = {} => Shows(items', tasks)
    PROVE  Inv'
<1>1. sent' = [sent EXCEPT ![c].at = "over"]
  BY DEF Over
<1>2. sent'[c].at = "over" /\ Kept(c)
  BY <1>1 DEF Inv, TypeOK, Kept
<1>3. \A d \in Calls : /\ sent'[d].by = sent[d].by
                       /\ sent'[d].op = sent[d].op
                       /\ d # c => sent'[d].at = sent[d].at
  BY <1>2, KeptIs DEF Inv
<1>4. TypeOK'
  <2>1. unseen' \subseteq Calls
    BY DEF Inv, TypeOK
  <2> QED
    BY <1>2, <2>1, KeptIs DEF Inv, TypeOK
<1>5. HandledOnce'
  <2> SUFFICES ASSUME NEW e \in Calls, sent'[e].at \in {"off", "sent", "late"}
               PROVE  /\ e \notin unseen'
                      /\ \A d \in Calls : e \notin covers[d]
                      /\ e \notin Ids(tasks)
    BY DEF HandledOnce, Ids
  <2> QED
    BY <1>2, <1>3 DEF Inv, HandledOnce
<1>6. ASSUME "overlap" \notin faults PROVE ToldInv'
  <2>1. OneWaits
    BY <1>6 DEF Inv, ToldInv
  <2>2. \A d \in Calls : ~Waiting(d)'
    <3>1. \A d \in Calls : d # c => ~Waiting(d)
      BY <2>1 DEF OneWaits
    <3> QED
      BY <1>2, <1>3, <3>1 DEF Waiting
  <2>3. ToldListIsTable'
    BY <1>6 DEF ToldListIsTable, Shows, Sorted, Before
  <2> QED
    BY <2>2, <2>3 DEF ToldInv, OneWaits, ListComes, RowComes, PatchComes, Arriving
<1>7. RowsAreOld' /\ PhoneSetsNoPriority'
  BY <1>2, PriorityKept DEF Inv, RowsAreOld
<1> QED
  BY <1>4, <1>5, <1>6, <1>7 DEF Inv, ToldInv

LEMMA FetchFulfilledInv ==
    ASSUME Inv, NEW c \in Calls, FetchFulfilled(c)
    PROVE  Inv'
<1>1. /\ sent[c].at = "done" /\ Waiting(c) /\ sent[c].op = "fetch" /\ Over(c)
      /\ items' = answer[c] /\ loading' = FALSE /\ fetched' = TRUE
      /\ unseen' = unseen \ covers[c]
      /\ UNCHANGED <<faults, tasks, inserts, answer, covers>>
  BY DEF FetchFulfilled
<1>2. items' \in Seq(Row)
  BY <1>1 DEF Inv, TypeOK
<1>3. ASSUME "overlap" \notin faults, unseen' = {} PROVE Shows(items', tasks)
  <2>1. unseen \subseteq covers[c]
    BY <1>1, <1>3
  <2> QED
    BY <1>1, <1>3, <2>1 DEF Inv, ToldInv, ListComes, Arriving
<1> QED
  BY <1>1, <1>2, <1>3, FulfilledInv

LEMMA CreateFulfilledInv ==
    ASSUME Inv, NEW c \in Calls, CreateFulfilled(c)
    PROVE  Inv'
<1>1. /\ sent[c].at = "done" /\ Waiting(c) /\ sent[c].op = "create" /\ Over(c)
      /\ items' = answer[c] \o items
      /\ unseen' = unseen \ {c}
      /\ UNCHANGED <<faults, tasks, inserts, loading, answer, fetched, covers>>
  BY DEF CreateFulfilled
<1>2. items' \in Seq(Row) /\ loading' \in BOOLEAN /\ fetched' \in BOOLEAN
  <2>1. answer[c] \in Seq(Row) /\ items \in Seq(Row)
    BY DEF Inv, TypeOK
  <2> QED
    BY <1>1, <2>1 DEF Inv, TypeOK
<1>3. ASSUME "overlap" \notin faults, fetched', unseen' = {} PROVE Shows(items', tasks)
  <2>1. unseen \subseteq {c}
    BY <1>1, <1>3
  <2> QED
    BY <1>1, <1>3, <2>1 DEF Inv, ToldInv, RowComes, Arriving
<1> QED
  BY <1>1, <1>2, <1>3, FulfilledInv

LEMMA UpdateFulfilledInv ==
    ASSUME Inv, NEW c \in Calls, UpdateFulfilled(c)
    PROVE  Inv'
<1>1. /\ sent[c].at = "done" /\ Waiting(c) /\ sent[c].op = "update" /\ answer[c] # <<>>
      /\ Over(c)
      /\ items' = Put(items, answer[c][1])
      /\ unseen' = unseen \ {c}
      /\ UNCHANGED <<faults, tasks, inserts, loading, answer, fetched, covers>>
  BY DEF UpdateFulfilled
<1>2. items' \in Seq(Row) /\ loading' \in BOOLEAN /\ fetched' \in BOOLEAN
  <2>1. answer[c] \in Seq(Row) /\ items \in Seq(Row)
    BY DEF Inv, TypeOK
  <2>2. answer[c][1] \in Row
    BY <1>1, <2>1
  <2> QED
    BY <1>1, <2>1, <2>2, PutIs DEF Inv, TypeOK
<1>3. ASSUME "overlap" \notin faults, fetched', unseen' = {} PROVE Shows(items', tasks)
  <2>1. unseen \subseteq {c}
    BY <1>1, <1>3
  <2> QED
    BY <1>1, <1>3, <2>1 DEF Inv, ToldInv, PatchComes, Arriving
<1> QED
  BY <1>1, <1>2, <1>3, FulfilledInv

\* The phone waits no more; what the server made of the call stays unseen.
LEMMA RejectedInv ==
    ASSUME Inv, NEW c \in Calls, Rejected(c)
    PROVE  Inv'
<1>1. /\ Waiting(c) /\ Over(c)
      /\ loading' = (loading /\ sent[c].op # "fetch")
      /\ UNCHANGED <<faults, tasks, inserts, items, answer, fetched, unseen, covers>>
  BY DEF Rejected
<1>2. sent' = [sent EXCEPT ![c].at = IF sent[c].at = "sent" THEN "late" ELSE "over"]
  BY <1>1 DEF Over
<1>3. sent'[c].at = (IF sent[c].at = "sent" THEN "late" ELSE "over") /\ Kept(c)
  BY <1>2 DEF Inv, TypeOK, Kept
<1>4. sent[c].at \in {"sent", "done"}
  BY <1>1 DEF Waiting
<1>5. \A d \in Calls : /\ sent'[d].by = sent[d].by
                       /\ sent'[d].op = sent[d].op
                       /\ d # c => sent'[d].at = sent[d].at
  BY <1>3, <1>4, KeptIs DEF Inv
<1>6. TypeOK'
  BY <1>1, <1>3, <1>4, KeptIs DEF Inv, TypeOK
<1>7. HandledOnce'
  <2> SUFFICES ASSUME NEW e \in Calls, sent'[e].at \in {"off", "sent", "late"}
               PROVE  /\ e \notin unseen
                      /\ \A d \in Calls : e \notin covers[d]
                      /\ e \notin Ids(tasks)
    BY <1>1 DEF HandledOnce, Ids
  <2>1. sent[e].at \in {"off", "sent", "late"}
    BY <1>3, <1>5
  <2> QED
    BY <2>1 DEF Inv, HandledOnce
<1>8. \A d \in Calls : /\ Waiting(d)' => Waiting(d)
                       /\ \A op \in {"fetch", "create", "update"} :
                             Arriving(d, op)' => Arriving(d, op)
  BY <1>3, <1>5 DEF Waiting, Arriving
<1>9. ToldInv'
  BY <1>1, <1>8
     DEF Inv, ToldInv, OneWaits, ListComes, RowComes, PatchComes, ToldListIsTable, Put, Shows,
         Sorted, Before
<1>10. RowsAreOld' /\ PhoneSetsNoPriority'
  BY <1>1, <1>3, <1>4, PriorityKept DEF Inv, RowsAreOld
<1> QED
  BY <1>6, <1>7, <1>9, <1>10 DEF Inv

----------------------------------------------------------------------------
LEMMA SendsInv ==
    ASSUME Inv, NEW c \in Calls
    PROVE  /\ FetchTasks(c) => Inv'
           /\ \A title \in Titles : CreateTask(c, title) => Inv'
           /\ \A id \in Ids(Range(items)), title \in Titles, vc \in Clocks :
                 UpdateTask(c, id, title, vc) => Inv'
           /\ \A input \in Bodies : OtherCreates(c, input) => Inv'
           /\ \A id \in Ids(tasks), input \in Bodies : OtherUpdates(c, id, input) => Inv'
           /\ \A id \in Ids(tasks) : OtherDeletes(c, id) => Inv'
<1>1. Ids(Range(items)) \subseteq Calls /\ Ids(tasks) \subseteq Calls /\ loading \in BOOLEAN
  <2>1. \A row \in Row : row.id \in Calls
    BY DEF Row
  <2>2. Range(items) \subseteq Row /\ tasks \subseteq Row /\ loading \in BOOLEAN
    BY DEF Inv, TypeOK, Range
  <2> QED
    BY <2>1, <2>2 DEF Ids
<1>2. FetchTasks(c) => Inv'
  BY SendInv DEF FetchTasks, Inputs
<1>3. ASSUME NEW title \in Titles, CreateTask(c, title) PROVE Inv'
  <2> DEFINE input == [title |-> title, priority |-> None]
  <2>1. input \in New /\ input \in Inputs /\ input.priority = None
    BY DEF New, Inputs
  <2>2. Send(c, "phone", "create", None, input) /\ PhoneSends /\ loading' = loading
    BY <1>3 DEF CreateTask
  <2> HIDE DEF input
  <2> QED
    BY <1>1, <2>1, <2>2, SendInv
<1>4. ASSUME NEW id \in Ids(Range(items)), NEW title \in Titles, NEW vc \in Clocks,
             UpdateTask(c, id, title, vc)
      PROVE  Inv'
  <2> DEFINE input == [title |-> title, status |-> None, priority |-> None, clock |-> vc]
  <2>1. input \in Patch /\ input \in Inputs /\ input.priority = None
    BY DEF Patch, Inputs
  <2>2. Send(c, "phone", "update", id, input) /\ PhoneSends /\ loading' = loading
    BY <1>4 DEF UpdateTask
  <2> HIDE DEF input
  <2> QED
    BY <1>1, <2>1, <2>2, SendInv
<1>5. ASSUME NEW input \in Bodies, OtherCreates(c, input) PROVE Inv'
  <2>1. input \in New /\ input \in Inputs
    BY <1>5 DEF OtherCreates, Inputs
  <2>2. Send(c, "other", "create", None, input) /\ loading' = loading
    BY <1>5 DEF OtherCreates
  <2> QED
    BY <1>1, <2>1, <2>2, SendInv
<1>6. ASSUME NEW id \in Ids(tasks), NEW input \in Bodies, OtherUpdates(c, id, input)
      PROVE  Inv'
  <2>1. input \in Patch /\ input \in Inputs
    BY <1>6 DEF OtherUpdates, Inputs
  <2>2. Send(c, "other", "update", id, input) /\ loading' = loading
    BY <1>6 DEF OtherUpdates
  <2> QED
    BY <1>1, <2>1, <2>2, SendInv
<1>7. ASSUME NEW id \in Ids(tasks), OtherDeletes(c, id) PROVE Inv'
  BY <1>1, <1>7, SendInv DEF OtherDeletes, Inputs
<1> QED
  BY <1>2, <1>3, <1>4, <1>5, <1>6, <1>7

LEMMA NextInv == Inv /\ [Next]_vars => Inv'
<1> SUFFICES ASSUME Inv, [Next]_vars PROVE Inv'
  OBVIOUS
<1>1. CASE UNCHANGED vars
  <2>1. TypeOK' /\ HandledOnce' /\ RowsAreOld' /\ PhoneSetsNoPriority'
    BY <1>1 DEF vars, Inv, TypeOK, HandledOnce, RowsAreOld, PhoneSetsNoPriority, Ids
  <2>2. /\ \A c \in Calls, op \in {"fetch", "create", "update"} :
              Arriving(c, op)' = Arriving(c, op)
        /\ OneWaits' = OneWaits
    BY <1>1 DEF vars, Arriving, Waiting, OneWaits
  <2>3. /\ Shows(items, tasks)' = Shows(items, tasks)
        /\ \A c \in Calls :
              /\ Shows(answer[c], tasks)' = Shows(answer[c], tasks)
              /\ Shows(answer[c] \o items, tasks)' = Shows(answer[c] \o items, tasks)
              /\ Shows(Put(items, answer[c][1]), tasks)' = Shows(Put(items, answer[c][1]), tasks)
    BY <1>1 DEF vars, Shows, Sorted, Before, Put
  <2>4. ToldInv'
    BY <1>1, <2>2, <2>3
       DEF vars, Inv, ToldInv, ListComes, RowComes, PatchComes, ToldListIsTable
  <2> QED
    BY <2>1, <2>4 DEF Inv
<1>2. ASSUME NEW c \in Calls, PhoneStep(c) PROVE Inv'
  BY <1>2, SendsInv, FetchFulfilledInv, CreateFulfilledInv, UpdateFulfilledInv, RejectedInv
     DEF PhoneStep
<1>3. ASSUME NEW c \in Calls, OtherStep(c) PROVE Inv'
  BY <1>3, SendsInv DEF OtherStep
<1>4. ASSUME NEW c \in Calls, ServerStep(c) PROVE Inv'
  BY <1>4, ListHandledInv, CreateHandledInv, UpdateHandledInv, DeleteHandledInv
     DEF ServerStep
<1> QED
  BY <1>1, <1>2, <1>3, <1>4 DEF Next

LEMMA InvHolds == Spec => []Inv
  BY InitInv, NextInv, PTL DEF Spec

(***************************************************************************)
(* Whatever calls are made, answered late or never: the rows on both sides *)
(* stay rows of the table's columns (a PATCH that leaves a field out does  *)
(* not make it NULL), and no id is in the table twice.                     *)
(***************************************************************************)
THEOREM TypeCorrect == Spec => []TypeOK
<1>1. Inv => TypeOK
  BY DEF Inv
<1> QED
  BY <1>1, InvHolds, PTL

(***************************************************************************)
(* A phone that makes one call at a time shows each row of the table once, *)
(* as it stands there, once an answer has told it of every write; and in   *)
(* the order of the server's list, unless a task is more urgent than the   *)
(* default.  For any number of calls, through lost answers, calls handled  *)
(* after the phone gave them up, whatever other clients create, delete or  *)
(* give another priority, and a PATCH of a deleted task.                   *)
(***************************************************************************)
THEOREM ListIsTable == Spec => []ToldListIsTable
<1>1. Inv => ToldListIsTable
  BY DEF Inv, ToldInv, ToldListIsTable
<1> QED
  BY <1>1, InvHolds, PTL
====
