---- MODULE ScoreBoard ----
(***************************************************************************)
(* One user's productivity scores: the rows of productivity_scores, the    *)
(* handlers of GET /analytics/score and /analytics/trend, and the phone's  *)
(* analytics slice with the two screens that show it.                      *)
(*                                                                         *)
(* Every query of a handler is an action.  A score read from the table is  *)
(* text (the column is NUMERIC), one just computed is a number; the gauge  *)
(* calls toFixed on it, and text ends the app.                             *)
(***************************************************************************)
EXTENDS Naturals, FiniteSets

CONSTANTS
    MaxCalls,       \* bound on the phone's calls
    Windows,        \* the windows the analytics screen offers ...
    FirstWindow,    \* ... and the one it starts with
    MaxTime,        \* bound on the clock
    None,
    FaultSets       \* what may happen, one of these sets for each behaviour:
                    \*   "overlap"  the user asks again before the answer
                    \*   "lost"     queries and calls fail, calls time out
                    \*   "kill"     the app is ended and started again

ASSUME WindowAssumption == FirstWindow \in Windows
ASSUME BoundsAssumption == MaxCalls \in Nat \ {0} /\ MaxTime \in Nat

VARIABLES
    faults,         \* the member of FaultSets this behaviour is under
    now,            \* the clock
    rows,           \* productivity_scores
    handler,        \* call -> where its handler is
    sent,           \* call -> what it asks, and where the phone is with it
    phone,          \* the slice and the screens
    clean,          \* history: the calls since whose sending no call was given up
                    \* whose handler may yet store a row
    trendLost       \* history: the newest fetch of a trend was rejected, or answered
                    \* before an older one

vars == <<faults, now, rows, handler, sent, phone, clean, trendLost>>

\* The phone's calls, in the order it sends them.
Calls == 1 .. MaxCalls

Row == [by : Calls, began : 0 .. MaxTime, at : 0 .. MaxTime]
Score == [row : Row, call : Calls, text : BOOLEAN]
Reads == {"stats", "focus"}

ASSUME NoneAssumption == None \notin Windows \cup Score

\* pc: "sent" is on its way; "latest", "read", "insert", "buckets" await a query.
Handler == [pc : {"off", "sent", "latest", "read", "insert", "buckets", "answered", "failed"},
            began : 0 .. MaxTime, done : SUBSET Reads, at : 0 .. MaxTime,
            row : Row \cup {None}, text : BOOLEAN]
Call == [at : {"off", "waiting", "told", "over"},
         op : {"score", "refresh", "trend"} \cup {None},
         days : Windows \cup {None}, since : 0 .. MaxTime]

Idle == [pc |-> "off", began |-> 0, done |-> {}, at |-> 0, row |-> None, text |-> FALSE]
Unsent == [at |-> "off", op |-> None, days |-> None, since |-> 0]

\* The app as it starts: the dashboard is mounted, the analytics screen is not.
Fresh == [score |-> None, loading |-> FALSE, days |-> None, trend |-> None, broken |-> FALSE]

Waiting(c) == sent[c].at = "waiting"
Running(c) == handler[c].pc \notin {"off", "answered", "failed"}
Scores(c) == sent[c].op \in {"score", "refresh"}

\* The last fetch of a trend the phone has sent.
FetchesTrend(c) == sent[c].at # "off" /\ sent[c].op = "trend"
Newest(c) == FetchesTrend(c) /\ \A d \in Calls : FetchesTrend(d) => d <= c

\* The call was given up and may still store, or has stored, a row.
Loose(c) == Scores(c) /\ sent[c].at = "over" /\ Running(c)

----------------------------------------------------------------------------
\* The phone sends c, and ends the calls of the set ended.
Send(c, op, days, ended) ==
    /\ sent[c].at = "off" /\ \A d \in Calls : d < c => sent[d].at # "off"
    /\ sent' = [d \in Calls |->
          IF d = c THEN [at |-> "waiting", op |-> op, days |-> days, since |-> now]
          ELSE IF d \in ended THEN [sent[d] EXCEPT !.at = "over"] ELSE sent[d]]
    /\ handler' = [handler EXCEPT ![c].pc = "sent"]
    /\ UNCHANGED <<faults, now, rows>>

\* What a newly sent call may be sure of: nobody else is at work on the table.
CleanWith(c, ended) ==
    IF \E d \in Calls : Scores(d) /\ d \in ended /\ handler[d].pc # "failed"
    THEN {}
    ELSE IF \E d \in Calls : Loose(d) THEN clean ELSE clean \cup {c}

\* The app starts: the effect of useProductivityScore sends fetchScore.
Launch(c) ==
    LET ended == {d \in Calls : Waiting(d)} IN
    /\ phone.broken \/ "kill" \in faults
    /\ Send(c, "score", None, ended)
    /\ phone' = [Fresh EXCEPT !.loading = TRUE]
    /\ clean' = CleanWith(c, ended)
    /\ trendLost' = FALSE

Init ==
    /\ faults \in FaultSets
    /\ now = 0
    /\ rows = {}
    /\ handler = [c \in Calls |-> [Idle EXCEPT !.pc = IF c = 1 THEN "sent" ELSE "off"]]
    /\ sent = [c \in Calls |-> IF c = 1
          THEN [at |-> "waiting", op |-> "score", days |-> None, since |-> 0] ELSE Unsent]
    /\ clean = {1}
    /\ phone = [Fresh EXCEPT !.loading = TRUE]
    /\ trendLost = FALSE

\* Mutant: the button is there while the score is loading.
Recalculate_Always(c) ==
    /\ ~phone.broken
    /\ "overlap" \in faults \/ \A d \in Calls : ~(Waiting(d) /\ sent[d].op = "refresh")
    /\ Send(c, "refresh", None, {})
    /\ clean' = CleanWith(c, {})
    /\ UNCHANGED <<phone, trendLost>>

\* The button of the dashboard, hidden while fetchScore is pending.
Recalculate(c) ==
    /\ ~phone.broken /\ ~phone.loading
    /\ "overlap" \in faults \/ \A d \in Calls : ~(Waiting(d) /\ sent[d].op = "refresh")
    /\ Send(c, "refresh", None, {})
    /\ clean' = CleanWith(c, {})
    /\ UNCHANGED <<phone, trendLost>>

TrendWaiting == \E d \in Calls : Waiting(d) /\ sent[d].op = "trend"

\* Mutant: windowDays is missing from the dependencies of the effect.
ChooseWindow_OnMountOnly(c, days) ==
    /\ ~phone.broken
    /\ IF phone.days = None THEN days = FirstWindow ELSE days # phone.days
    /\ "overlap" \in faults \/ ~TrendWaiting
    /\ IF phone.days = None THEN Send(c, "trend", days, {})
       ELSE UNCHANGED <<faults, now, rows, handler, sent>>
    /\ phone' = [phone EXCEPT !.days = days]
    /\ UNCHANGED <<clean, trendLost>>

\* The analytics screen is opened for the first time, or a window is chosen: the
\* effect of useTimeSeries depends on windowDays and runs on a change only.
ChooseWindow(c, days) ==
    /\ ~phone.broken
    /\ IF phone.days = None THEN days = FirstWindow ELSE days # phone.days
    /\ "overlap" \in faults \/ ~TrendWaiting
    /\ Send(c, "trend", days, {})
    /\ phone' = [phone EXCEPT !.days = days]
    /\ UNCHANGED <<clean, trendLost>>

----------------------------------------------------------------------------
\* A handler takes a step that does not touch the table.
HandlerGoesTo(c, state) ==
    /\ handler' = [handler EXCEPT ![c] = state]
    /\ UNCHANGED <<faults, now, sent, phone, clean, trendLost>>

\* computeAndPersistScore up to Promise.all: the window ends now.
Computing == [Idle EXCEPT !.pc = "read", !.began = now]

\* Mutant: req.query.refresh === true, which a query string never is.
Arrive_NeverRefresh(c) ==
    /\ handler[c].pc = "sent"
    /\ HandlerGoesTo(c, IF sent[c].op = "trend" THEN [Idle EXCEPT !.pc = "buckets"]
                        ELSE [Idle EXCEPT !.pc = "latest"])
    /\ UNCHANGED rows

\* The request arrives; the handler runs to its first query.
Arrive(c) ==
    /\ handler[c].pc = "sent"
    /\ HandlerGoesTo(c, CASE sent[c].op = "refresh" -> Computing
                          [] sent[c].op = "score"   -> [Idle EXCEPT !.pc = "latest"]
                          [] sent[c].op = "trend"   -> [Idle EXCEPT !.pc = "buckets"])
    /\ UNCHANGED rows

\* ORDER BY computed_at DESC LIMIT 1: any of the rows of the last instant.
Latest == {r \in rows : \A s \in rows : s.at <= r.at}

\* getLatestScore; without a row the handler computes one.
ReadLatest(c) ==
    /\ handler[c].pc = "latest"
    /\ \/ rows = {} /\ HandlerGoesTo(c, Computing)
       \/ \E r \in Latest :
            HandlerGoesTo(c, [Idle EXCEPT !.pc = "answered", !.row = r, !.text = TRUE])
    /\ UNCHANGED rows

\* One of the parallel queries answers; after the last the score is computed, and
\* computedAt is the time.  (The third, the average of behavior_windows, reads a
\* table that nothing writes.)
Read(c, q) ==
    /\ handler[c].pc = "read" /\ q \notin handler[c].done
    /\ LET done == handler[c].done \cup {q} IN
       HandlerGoesTo(c, IF done = Reads
            THEN [handler[c] EXCEPT !.done = done, !.pc = "insert", !.at = now]
            ELSE [handler[c] EXCEPT !.done = done])
    /\ UNCHANGED rows

\* Mutant: the answer is what getLatestScore reads back.
Insert_ReadsBack(c) ==
    LET row == [by |-> c, began |-> handler[c].began, at |-> handler[c].at] IN
    /\ handler[c].pc = "insert"
    /\ rows' = rows \cup {row}
    /\ HandlerGoesTo(c, [Idle EXCEPT !.pc = "answered", !.row = row, !.text = TRUE])

Insert(c) ==
    LET row == [by |-> c, began |-> handler[c].began, at |-> handler[c].at] IN
    /\ handler[c].pc = "insert"
    /\ rows' = rows \cup {row}
    /\ HandlerGoesTo(c, [Idle EXCEPT !.pc = "answered", !.row = row])

ReadBuckets(c) ==
    /\ handler[c].pc = "buckets"
    /\ HandlerGoesTo(c, [Idle EXCEPT !.pc = "answered"])
    /\ UNCHANGED rows

\* The handler answers 500.
QueryFails(c) ==
    /\ "lost" \in faults
    /\ handler[c].pc \notin {"sent"} /\ Running(c)
    /\ HandlerGoesTo(c, [Idle EXCEPT !.pc = "failed"])
    /\ UNCHANGED rows

----------------------------------------------------------------------------
Answered(c, op) ==
    /\ ~phone.broken
    /\ Waiting(c) /\ sent[c].op = op /\ handler[c].pc = "answered"
    /\ sent' = [sent EXCEPT ![c].at = "told"]
    /\ UNCHANGED <<faults, now, rows, handler, clean>>

\* What ProductivityGauge is rendered with.
Shown(c) == [row |-> handler[c].row, call |-> c, text |-> handler[c].text]

ScoreFulfilled(c) ==
    /\ Answered(c, "score")
    /\ phone' = [phone EXCEPT !.loading = FALSE, !.score = Shown(c), !.broken = handler[c].text]
    /\ UNCHANGED trendLost

RefreshFulfilled(c) ==
    /\ Answered(c, "refresh")
    /\ phone' = [phone EXCEPT !.score = Shown(c), !.broken = handler[c].text]
    /\ UNCHANGED trendLost

TrendFulfilled(c) ==
    /\ Answered(c, "trend")
    /\ phone' = [phone EXCEPT !.trend = sent[c].days]
    /\ trendLost' = \E d \in Calls : d # c /\ Newest(d) /\ ~Waiting(d)

\* Mutant: fetchScore.rejected is not handled.
Rejected_Spins(c) ==
    /\ ~phone.broken
    /\ "lost" \in faults /\ Waiting(c)
    /\ sent' = [sent EXCEPT ![c].at = "over"]
    /\ clean' = IF Scores(c) /\ handler[c].pc # "failed" THEN {} ELSE clean
    /\ trendLost' = (trendLost \/ Newest(c))
    /\ UNCHANGED <<faults, now, rows, handler, phone>>

\* A 500, a lost answer, or the timeout of axios: only fetchScore has a reducer.
Rejected(c) ==
    /\ ~phone.broken
    /\ "lost" \in faults /\ Waiting(c)
    /\ sent' = [sent EXCEPT ![c].at = "over"]
    /\ phone' = [phone EXCEPT !.loading = @ /\ sent[c].op # "score"]
    /\ clean' = IF Scores(c) /\ handler[c].pc # "failed" THEN {} ELSE clean
    /\ trendLost' = (trendLost \/ Newest(c))
    /\ UNCHANGED <<faults, now, rows, handler>>

Tick ==
    /\ now < MaxTime
    /\ now' = now + 1
    /\ UNCHANGED <<faults, rows, handler, sent, phone, clean, trendLost>>

----------------------------------------------------------------------------
UserStep(c) ==
    \/ Launch(c)
    \/ Recalculate(c)
    \/ \E days \in Windows : ChooseWindow(c, days)

ServerStep(c) ==
    \/ Arrive(c)
    \/ ReadLatest(c)
    \/ \E q \in Reads : Read(c, q)
    \/ Insert(c)
    \/ ReadBuckets(c)
    \/ QueryFails(c)

CallEnds(c) ==
    \/ ScoreFulfilled(c)
    \/ RefreshFulfilled(c)
    \/ TrendFulfilled(c)
    \/ Rejected(c)

Next == Tick \/ \E c \in Calls : UserStep(c) \/ ServerStep(c) \/ CallEnds(c)

Spec == Init /\ [][Next]_vars

FairSpec == Spec /\ \A c \in Calls : WF_vars(ServerStep(c)) /\ WF_vars(CallEnds(c))

----------------------------------------------------------------------------
TypeOK ==
    /\ faults \in FaultSets
    /\ now \in 0 .. MaxTime
    /\ rows \subseteq Row
    /\ phone \in [score : Score \cup {None}, loading : BOOLEAN, broken : BOOLEAN,
                  days : Windows \cup {None}, trend : Windows \cup {None}]
    /\ handler \in [Calls -> Handler]
    /\ sent \in [Calls -> Call]
    /\ clean \subseteq Calls
    /\ trendLost \in BOOLEAN

(***************************************************************************)
(* A user who awaits each answer sees the latest row of the table once     *)
(* nothing is under way, whether it was computed for him or read from the  *)
(* table: unless the phone gave up a call whose handler still stored a     *)
(* row.  Hiding the button while the score is loading is what keeps the    *)
(* answer of fetchScore from replacing a newer one (DashboardScreen.tsx).  *)
(***************************************************************************)
ShownIsLatestRow ==
    ( /\ "overlap" \notin faults
      /\ \A c \in Calls : Scores(c) => ~Waiting(c) /\ ~Loose(c)
      /\ phone.score # None /\ phone.score.call \in clean )
    => phone.score.row \in Latest

(***************************************************************************)
(* A recalculated score is one whose window ends after the tap, however    *)
(* calls overlap, fail and are answered out of order (analytics.controller *)
(* "refresh").                                                             *)
(***************************************************************************)
RefreshIsFresh ==
    LET s == phone.score IN
    s # None /\ sent[s.call].op = "refresh" => s.row.began >= sent[s.call].since

(***************************************************************************)
(* The app is ended only by a score that was in the table before the call  *)
(* that showed it: the first score of an account is computed, answered and *)
(* shown as a number (getLatestScore ?? computeAndPersistScore).           *)
(***************************************************************************)
OnlyStoredScoresBreak ==
    phone.broken => phone.score.row.by # phone.score.call

(***************************************************************************)
(* The chart is of the window its title names ({windowDays}-Day            *)
(* Productivity Trend) once no trend is awaited, however many windows were *)
(* chosen meanwhile and whichever fetches failed, with one exception: the  *)
(* newest fetch was rejected, or an older one was answered after it.  The  *)
(* slice holds one trend and not the window it is of, so an older answer   *)
(* replaces a newer one (analytics.slice.ts, fetchTrend.fulfilled).        *)
(***************************************************************************)
TrendIsOfChoice ==
    ~TrendWaiting /\ ~trendLost => phone.trend = phone.days

(***************************************************************************)
(* While the score loads there is no button; the loading ends, whatever    *)
(* fails.                                                                  *)
(***************************************************************************)
LoadingEnds == phone.loading ~> ~phone.loading
====
