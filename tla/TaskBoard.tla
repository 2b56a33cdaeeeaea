---- MODULE TaskBoard ----
(***************************************************************************)
(* One user's tasks: the table on the server, the list on the phone        *)
(* (state.tasks), and the calls of the phone and of other clients of the   *)
(* API (a second phone, a script) under way between them.                  *)
(*                                                                         *)
(* A call is handled by the server in one query.  Its answer reaches the   *)
(* phone later, or the phone gives the call up, before or after that.      *)
(* The server lists the most urgent tasks first and, of one priority, the  *)
(* newest first.  The phone sets no priority and puts what it creates in   *)
(* front of its list; other clients may give a task any priority.          *)
(***************************************************************************)
EXTENDS DeviceClocks, SequencesExt

CONSTANTS
    Calls,          \* bound: names for the calls; a task is named after its create
    Titles,
    Statuses,       \* of which "pending" is the default, "completed" is dated
    Priorities,     \* the smaller, the more urgent
    Clocks,         \* the vectorClock values a PATCH may carry
    Bodies,         \* bound: what other clients send in a POST or a PATCH
    None,           \* a field the body of a PATCH leaves out; a name not in use
    FaultSets       \* what may happen, one of these sets for each behaviour:
                    \*   "overlap"  the phone has several calls under way
                    \*   "others"   other clients write tasks
                    \*   "lost"     calls fail, time out, lose their answer

ASSUME ClocksAssumption == EmptyClock \in Clocks /\ \A vc \in Clocks : IsClock(vc)
ASSUME StatusesAssumption == "pending" \in Statuses

\* What POST makes of a body without a priority.
DefaultPriority == 2

ASSUME PrioritiesAssumption == Priorities \subseteq 1..4 /\ DefaultPriority \in Priorities

VARIABLES
    faults,         \* the member of FaultSets this behaviour is under
    tasks,          \* the table, a set of rows
    inserts,        \* rows inserted so far: the clock of created_at
    items,          \* state.tasks.items
    loading,        \* state.tasks.loading
    sent,           \* call -> what it asks, and where it is
    answer,         \* call -> the rows of its response
    fetched,        \* history: some list was answered
    unseen,         \* history: writes done that the phone was not told of ...
    covers          \* history: ... and, for a list, those it includes

vars == <<faults, tasks, inserts, items, loading, sent, answer, fetched, unseen, covers>>

Row == [id : Calls, created : Nat, title : Titles, status : Statuses,
        priority : Priorities, dated : BOOLEAN, clock : Clocks]

\* The bodies of a POST and of a PATCH.
New == [title : Titles, priority : Priorities \cup {None}]
Patch == [title : Titles \cup {None}, status : Statuses \cup {None},
          priority : Priorities \cup {None}, clock : Clocks]
Inputs == {None} \cup New \cup Patch

ASSUME BodiesAssumption == Bodies \subseteq New \cup Patch

\* at: "off", "sent", "done" (handled, the phone waits), "late" (the phone gave it
\* up, the server has yet to handle it), "over".
Off == [at |-> "off", by |-> None, op |-> None, id |-> None, input |-> None]

Init ==
    /\ faults \in FaultSets
    /\ tasks = {}
    /\ inserts = 0
    /\ items = <<>>
    /\ loading = FALSE
    /\ sent = [c \in Calls |-> Off]
    /\ answer = [c \in Calls |-> <<>>]
    /\ fetched = FALSE
    /\ unseen = {}
    /\ covers = [c \in Calls |-> {}]

Waiting(c) == sent[c].by = "phone" /\ sent[c].at \in {"sent", "done"}

Ids(rows) == {row.id : row \in rows}

\* ORDER BY priority ASC, created_at DESC
Before(r, s) ==
    \/ r.priority < s.priority
    \/ r.priority = s.priority /\ r.created > s.created

Sorted(rows) == \A i, j \in DOMAIN rows : i < j => Before(rows[i], rows[j])

\* row in the place of the first one with its id.
Put(rows, row) ==
    [i \in DOMAIN rows |->
        IF rows[i].id = row.id /\ \A j \in 1..i - 1 : rows[j].id # row.id
        THEN row ELSE rows[i]]

----------------------------------------------------------------------------
\* A call leaves; "loading" is set by fetchTasks.pending.
Send(c, by, op, id, input) ==
    /\ sent[c].at = "off"
    /\ sent' = [sent EXCEPT ![c] =
          [at |-> "sent", by |-> by, op |-> op, id |-> id, input |-> input]]
    /\ UNCHANGED <<faults, tasks, inserts, items, answer, fetched, unseen, covers>>

PhoneSends == "overlap" \in faults \/ \A c \in Calls : ~Waiting(c)

FetchTasks(c) ==
    /\ PhoneSends
    /\ Send(c, "phone", "fetch", None, None)
    /\ loading' = TRUE

\* The form sends a title and nothing else.
CreateTask(c, title) ==
    /\ PhoneSends
    /\ Send(c, "phone", "create", None, [title |-> title, priority |-> None])
    /\ UNCHANGED loading

\* The screen's task is one of the list; save() reads the clock from storage before
\* the dispatch, which is joined with it here.
UpdateTask(c, id, title, vc) ==
    /\ PhoneSends
    /\ id \in Ids(Range(items))
    /\ Send(c, "phone", "update", id,
            [title |-> title, status |-> None, priority |-> None, clock |-> vc])
    /\ UNCHANGED loading

OtherCreates(c, input) ==
    /\ "others" \in faults
    /\ input \in New
    /\ Send(c, "other", "create", None, input)
    /\ UNCHANGED loading

OtherUpdates(c, id, input) ==
    /\ "others" \in faults
    /\ id \in Ids(tasks)
    /\ input \in Patch
    /\ Send(c, "other", "update", id, input)
    /\ UNCHANGED loading

OtherDeletes(c, id) ==
    /\ "others" \in faults
    /\ id \in Ids(tasks)
    /\ Send(c, "other", "delete", id, None)
    /\ UNCHANGED loading

----------------------------------------------------------------------------
\* The query of a call has run: the new table and the rows of the response.
Handled(c, rows, response) ==
    /\ tasks' = rows
    /\ answer' = [answer EXCEPT ![c] = response]
    /\ sent' = [sent EXCEPT ![c].at = IF Waiting(c) THEN "done" ELSE "over"]
    /\ unseen' = IF rows = tasks THEN unseen ELSE unseen \cup {c}
    /\ UNCHANGED <<faults, items, loading, fetched>>

ToHandle(c, op) == sent[c].at \in {"sent", "late"} /\ sent[c].op = op

HandleList(c) ==
    /\ ToHandle(c, "fetch")
    /\ \E rows \in SetToSeqs(tasks) : Sorted(rows) /\ Handled(c, tasks, rows)
    /\ covers' = [covers EXCEPT ![c] = unseen]
    /\ UNCHANGED inserts

Coalesce(new, old) == IF new = None THEN old ELSE new

NewTask(c) ==
    [id |-> c, created |-> inserts + 1, title |-> sent[c].input.title, status |-> "pending",
     priority |-> Coalesce(sent[c].input.priority, DefaultPriority),
     dated |-> FALSE, clock |-> EmptyClock]

HandleCreate(c) ==
    /\ ToHandle(c, "create")
    /\ Handled(c, tasks \cup {NewTask(c)}, <<NewTask(c)>>)
    /\ inserts' = inserts + 1
    /\ UNCHANGED covers

\* Mutant: no COALESCE on the status.
Patched_Nulls(row, input) ==
    [row EXCEPT !.title = Coalesce(input.title, @),
                !.status = input.status,
                !.priority = Coalesce(input.priority, @),
                !.dated = @ \/ input.status = "completed",
                !.clock = input.clock]

\* The SET list of updateTask.  vector_clock takes whatever the body says, {}
\* when it says nothing.
Patched(row, input) ==
    [row EXCEPT !.title = Coalesce(input.title, @),
                !.status = Coalesce(input.status, @),
                !.priority = Coalesce(input.priority, @),
                !.dated = @ \/ input.status = "completed",
                !.clock = input.clock]

\* Without a row the answer is 404, which rejects the phone's call.
HandleUpdate(c) ==
    /\ ToHandle(c, "update")
    /\ \/ \E row \in tasks :
             /\ row.id = sent[c].id
             /\ LET new == Patched(row, sent[c].input)
                IN  Handled(c, (tasks \ {row}) \cup {new}, <<new>>)
       \/ sent[c].id \notin Ids(tasks) /\ Handled(c, tasks, <<>>)
    /\ UNCHANGED <<inserts, covers>>

HandleDelete(c) ==
    /\ ToHandle(c, "delete")
    /\ \/ \E row \in tasks :
             row.id = sent[c].id /\ Handled(c, tasks \ {row}, <<>>)
       \/ sent[c].id \notin Ids(tasks) /\ Handled(c, tasks, <<>>)
    /\ UNCHANGED <<inserts, covers>>

----------------------------------------------------------------------------
\* The phone's call c is over.
Over(c) == sent' = [sent EXCEPT ![c].at = IF @ = "sent" THEN "late" ELSE "over"]

FetchFulfilled(c) ==
    /\ sent[c].at = "done" /\ Waiting(c) /\ sent[c].op = "fetch"
    /\ Over(c)
    /\ items' = answer[c]
    /\ loading' = FALSE
    /\ fetched' = TRUE
    /\ unseen' = unseen \ covers[c]
    /\ UNCHANGED <<faults, tasks, inserts, answer, covers>>

\* Mutant: the new task goes to the end of the list.
CreateFulfilled_Push(c) ==
    /\ sent[c].at = "done" /\ Waiting(c) /\ sent[c].op = "create"
    /\ Over(c)
    /\ items' = items \o answer[c]
    /\ unseen' = unseen \ {c}
    /\ UNCHANGED <<faults, tasks, inserts, loading, answer, fetched, covers>>

CreateFulfilled(c) ==
    /\ sent[c].at = "done" /\ Waiting(c) /\ sent[c].op = "create"
    /\ Over(c)
    /\ items' = answer[c] \o items
    /\ unseen' = unseen \ {c}
    /\ UNCHANGED <<faults, tasks, inserts, loading, answer, fetched, covers>>

UpdateFulfilled(c) ==
    /\ sent[c].at = "done" /\ Waiting(c) /\ sent[c].op = "update"
    /\ answer[c] # <<>>
    /\ Over(c)
    /\ items' = Put(items, answer[c][1])
    /\ unseen' = unseen \ {c}
    /\ UNCHANGED <<faults, tasks, inserts, loading, answer, fetched, covers>>

\* An error, a timeout, a lost answer, or the 404 of an update.
Rejected(c) ==
    /\ Waiting(c)
    /\ \/ "lost" \in faults
       \/ sent[c].at = "done" /\ sent[c].op = "update" /\ answer[c] = <<>>
    /\ Over(c)
    /\ loading' = (loading /\ sent[c].op # "fetch")
    /\ UNCHANGED <<faults, tasks, inserts, items, answer, fetched, unseen, covers>>

----------------------------------------------------------------------------
PhoneStep(c) ==
    \/ FetchTasks(c)
    \/ \E title \in Titles : CreateTask(c, title)
    \/ \E id \in Ids(Range(items)), title \in Titles, vc \in Clocks : UpdateTask(c, id, title, vc)
    \/ FetchFulfilled(c)
    \/ CreateFulfilled(c)
    \/ UpdateFulfilled(c)
    \/ Rejected(c)

OtherStep(c) ==
    \/ \E input \in Bodies : OtherCreates(c, input)
    \/ \E id \in Ids(tasks), input \in Bodies : OtherUpdates(c, id, input)
    \/ \E id \in Ids(tasks) : OtherDeletes(c, id)

ServerStep(c) ==
    \/ HandleList(c)
    \/ HandleCreate(c)
    \/ HandleUpdate(c)
    \/ HandleDelete(c)

Next == \E c \in Calls : PhoneStep(c) \/ OtherStep(c) \/ ServerStep(c)

Spec == Init /\ [][Next]_vars

----------------------------------------------------------------------------
Call == [at    : {"off", "sent", "done", "late", "over"},
         by    : {None, "phone", "other"},
         op    : {None, "fetch", "create", "update", "delete"},
         id    : Calls \cup {None},
         input : Inputs]

TypeOK ==
    /\ faults \in FaultSets
    /\ tasks \subseteq Row /\ inserts \in Nat /\ items \in Seq(Row)
    /\ loading \in BOOLEAN /\ fetched \in BOOLEAN
    /\ sent \in [Calls -> Call]
    /\ \A c \in Calls : sent[c].at # "off" =>
          /\ sent[c].op = "create" => sent[c].input \in New
          /\ sent[c].op = "update" => sent[c].input \in Patch
    /\ answer \in [Calls -> Seq(Row)]
    /\ \A row, other \in tasks : row.id = other.id => row = other
    /\ unseen \subseteq Calls
    /\ covers \in [Calls -> SUBSET Calls]

\* Every row of the table once; and in the server's order, unless some task is more
\* urgent than those the phone creates and puts in front.
Shows(rows, table) ==
    /\ Range(rows) = table
    /\ IsInjective(rows)
    /\ (\A row \in table : row.priority >= DefaultPriority) => Sorted(rows)

(***************************************************************************)
(* A phone that makes one call at a time shows exactly the table, each row *)
(* once and as it stands there, once it was told of every write: by the    *)
(* answer to its own call, or by a list read after the write.  The rows    *)
(* are in the order of the server's list, unless the table holds a task    *)
(* more urgent than the default: the phone puts what it creates in front   *)
(* of that task, the server behind it.  This holds through calls given up  *)
(* that the server handles late, tasks that others create, delete and give *)
(* another priority between a list's query and its answer, and a PATCH of  *)
(* a task that is gone.                                                    *)
(***************************************************************************)
ToldListIsTable ==
    "overlap" \notin faults /\ fetched /\ unseen = {} => Shows(items, tasks)

====
