---- MODULE Analytics ----
(***************************************************************************)
(* One user's analytics: events come in, in the order they happened or late*)
(* from an offline phone; scores are computed from them and stored; the    *)
(* sessions, the daily buckets and the trend are read off the two tables.  *)
(*                                                                         *)
(* What getTaskStats and behavior_windows say comes from the environment,  *)
(* except for activeDays, which is counted from the events.  A score reads *)
(* everything at one instant.  Events without a task, events of types that *)
(* getFocusSessions ignores, and the days parameter of the two queries are *)
(* left out.  Init, Next, Spec, vars and TypeOK carry an A here, for the    *)
(* module that proves about this one and about ScoreBoard together.        *)
(***************************************************************************)
EXTENDS Scoring, TrendAnalysis, FiniteSets

CONSTANTS
    TaskIds,
    EventTypes,
    Times,          \* bound: the instants of recorded_at and computed_at, in ticks
    Stats,          \* what the tasks table may say
    Window,         \* SCORING_WINDOW_DAYS, in ticks
    Bounds          \* bound: pairs [events, scores] of how many there may be

ASSUME TimesAssumption == Times \subseteq Nat /\ Window \in Nat

ASSUME TaskIdsAssumption == IsFiniteSet(TaskIds)

StatsRow ==
    [tasksCompleted : Nat, tasksDueInWindow : Nat, tasksOverdue : Nat, tasksTotal : Nat,
     storyPointsCompleted : Nat, historicalAvgStoryPoints : Nat]

ASSUME StatsAssumption == Stats \subseteq StatsRow

ASSUME RowBoundsAssumption == Bounds \subseteq [events : Nat, scores : Nat]

VARIABLES
    bound,          \* the member of Bounds this behaviour is under
    history,        \* productivity_events: task -> its events by recorded_at
    computed,       \* scores computed and not yet inserted
    scores          \* productivity_scores by computed_at

Event == [type : EventTypes, at : Times]
ScoreRange == 0..10000
ScoreRow == [computedAt : Times, score : ScoreRange]

avars == <<bound, history, computed, scores>>

AInit ==
    /\ bound \in Bounds
    /\ history = [t \in TaskIds |-> <<>>]
    /\ computed = {}
    /\ scores = <<>>

DayOf(at) == at \div Day

EventRows == {r \in TaskIds \X (1..bound.events) : r[2] \in DOMAIN history[r[1]]}
EventAt(r) == history[r[1]][r[2]]

\* The events of a task from start to end, which are next to each other.
InWindow(t, start, end) ==
    LET before == {i \in DOMAIN history[t] : history[t][i].at < start}
        upTo   == {i \in DOMAIN history[t] : history[t][i].at <= end}
    IN  SubSeq(history[t], Cardinality(before) + 1, Cardinality(upTo))

\* The sessions of every task; rows of one task never meet those of another.
getFocusSessions(start, end) ==
    LET of == [t \in TaskIds |-> buildSessions(InWindow(t, start, end))]
    IN  [p \in UNION {{t} \X DOMAIN of[t] : t \in TaskIds} |-> of[p[1]][p[2]]]

ActiveDays(start, end) ==
    Cardinality({DayOf(EventAt(r).at) :
        r \in {q \in EventRows : /\ EventAt(q).type = "task_completed"
                                 /\ start <= EventAt(q).at /\ EventAt(q).at <= end}})

ScoringInput(stats, end) ==
    [f \in DOMAIN stats \cup {"activeDays"} |->
        IF f = "activeDays" THEN ActiveDays(end - Window, end) ELSE stats[f]]

ScoreAt(stats, end) ==
    computeProductivityScore(ScoringInput(stats, end), getFocusSessions(end - Window, end))

----------------------------------------------------------------------------
\* s with x put in at place i: it must stay sorted.
FitsAt(s, i, key(_), k) ==
    /\ i > 1 => key(s[i - 1]) <= k
    /\ i <= Len(s) => k <= key(s[i])

\* An event is stored, in its place by recorded_at.
Record(t, type, at, i) ==
    /\ Cardinality(EventRows) < bound.events
    /\ FitsAt(history[t], i, LAMBDA ev : ev.at, at)
    /\ history' = [history EXCEPT ![t] = InsertAt(@, i, [type |-> type, at |-> at])]
    /\ UNCHANGED <<bound, computed, scores>>

\* computeAndPersistScore up to the INSERT.
ComputeScore(stats, at) ==
    /\ Len(scores) + Cardinality(computed) < bound.scores
    /\ \A s \in computed : s.computedAt <= at
    /\ scores # <<>> => Last(scores).computedAt <= at
    /\ computed' = computed \cup {[computedAt |-> at, score |-> ScoreAt(stats, at)]}
    /\ UNCHANGED <<bound, history, scores>>

\* The row is stored; a computation that began later may have been faster.
PersistScore(row) ==
    /\ row \in computed
    /\ computed' = computed \ {row}
    /\ \E i \in 1..Len(scores) + 1 :
          /\ FitsAt(scores, i, LAMBDA s : s.computedAt, row.computedAt)
          /\ scores' = InsertAt(scores, i, row)
    /\ UNCHANGED <<bound, history>>

ANext ==
    \/ \E t \in TaskIds, type \in EventTypes, at \in Times :
          \E i \in 1..Len(history[t]) + 1 : Record(t, type, at, i)
    \/ \E stats \in Stats, at \in Times : ComputeScore(stats, at)
    \/ \E row \in computed : PersistScore(row)

ASpec == AInit /\ [][ANext]_avars

----------------------------------------------------------------------------
\* Mutant: joined by user only.
JoinedScores_AnyDay(r) == IF scores = <<>> THEN {0} ELSE DOMAIN scores

\* The score rows a LEFT JOIN by day finds for an event; 0 stands for none.
JoinedScores(r) ==
    LET same == {k \in DOMAIN scores : DayOf(scores[k].computedAt) = DayOf(EventAt(r).at)}
    IN  IF same = {} THEN {0} ELSE same

ScoreOf(k) == IF k = 0 THEN 0 ELSE scores[k].score

\* GROUP BY day, score.
getDailyBuckets ==
    LET joined == UNION {{r} \X JoinedScores(r) : r \in EventRows}
        Key(j) == <<DayOf(EventAt(j[1]).at), ScoreOf(j[2])>>
    IN  {[bucket      |-> key[1],
          score       |-> key[2],
          eventsCount |-> Cardinality({j \in joined : Key(j) = key})]
            : key \in {Key(j) : j \in joined}}

----------------------------------------------------------------------------
Ascending(s, key(_)) == \A i, j \in DOMAIN s : i < j => key(s[i]) <= key(s[j])

ATypeOK ==
    /\ bound \in Bounds
    /\ history \in [TaskIds -> Seq(Event)]
    /\ \A t \in TaskIds : Ascending(history[t], LAMBDA ev : ev.at)
    /\ computed \subseteq ScoreRow
    /\ scores \in Seq(ScoreRow)
    /\ Ascending(scores, LAMBDA s : s.computedAt)

(***************************************************************************)
(* The loop of buildSessions cuts a task's events exactly at the gaps and  *)
(* pauses, and flags a session for an interruption inside it or at the cut.*)
(***************************************************************************)
SessionsAreRuns == \A t \in TaskIds : buildSessions(history[t]) = Runs(history[t])

(***************************************************************************)
(* Events arrive late when a phone was offline.  A new event, late or not, *)
(* changes only the sessions next to its place: focus time that was closed *)
(* before the event in front of it, or began after the one behind it,      *)
(* stays as it was.                                                        *)
(***************************************************************************)
NewPlace(t, i) == history'[t] = InsertAt(history[t], i, history'[t][i])

Away(s, events, i) ==
    \/ i > 1 /\ s.endedAt < events[i - 1].at
    \/ i <= Len(events) /\ s.startedAt > events[i].at

EventIsLocal ==
    [][ \A t \in TaskIds : Len(history'[t]) > Len(history[t]) =>
            \E i \in DOMAIN history'[t] :
                /\ NewPlace(t, i)
                /\ \A s \in Range(buildSessions(history[t])) :
                      Away(s, history[t], i) => s \in Range(buildSessions(history'[t]))
      ]_avars

(***************************************************************************)
(* The window of a score moves over the events and may cut into a session. *)
(* Only the first session it sees can differ from the full history's.      *)
(***************************************************************************)
WindowCutsFirstOnly ==
    \A t \in TaskIds : \A k \in DOMAIN history[t] :
        IsSuffix(Tail(buildSessions(SubSeq(history[t], k, Len(history[t])))),
                 buildSessions(history[t]))

(***************************************************************************)
(* Whatever the user's events are, doing more of what was due, more story  *)
(* points or less overdue never lowers the score, through every fallback,  *)
(* clamp and rounding.  (It says nothing of focus time, where one more     *)
(* short session lowers the median.)                                       *)
(***************************************************************************)
Better(a, b) ==
    /\ a.tasksDueInWindow = b.tasksDueInWindow
    /\ a.tasksTotal = b.tasksTotal
    /\ a.historicalAvgStoryPoints = b.historicalAvgStoryPoints
    /\ a.tasksCompleted >= b.tasksCompleted
    /\ a.storyPointsCompleted >= b.storyPointsCompleted
    /\ a.tasksOverdue <= b.tasksOverdue

BetterWorkScoresNoLess ==
    LET end      == CHOOSE at \in Times : \A x \in Times : x <= at
        sessions == getFocusSessions(end - Window, end)
        score    == [s \in Stats |-> computeProductivityScore(ScoringInput(s, end), sessions)]
    IN  \A a, b \in Stats : Better(a, b) => score[a] >= score[b]

(***************************************************************************)
(* The join by day multiplies.  A day with events has one bucket for each  *)
(* different score of that day, and that bucket counts each event of the   *)
(* day once for every score row with its score: so the buckets together    *)
(* count a day's events as often as the day has score rows, and only where *)
(* a day has at most one row is a bucket the day (getDailyBuckets).        *)
(***************************************************************************)
EventsOf(day) == {r \in EventRows : DayOf(EventAt(r).at) = day}
RowsOf(day) == {k \in DOMAIN scores : DayOf(scores[k].computedAt) = day}
WithScore(ks, score) == {k \in ks : scores[k].score = score}

CountsItsRows(b) ==
    LET rowsOfDay == RowsOf(b.bucket)
        events    == Cardinality(EventsOf(b.bucket))
    IN  IF rowsOfDay = {} THEN b.score = 0 /\ b.eventsCount = events
        ELSE b.eventsCount = events * Cardinality(WithScore(rowsOfDay, b.score))

BucketsCountDays ==
    /\ {b.bucket : b \in getDailyBuckets} = {DayOf(EventAt(r).at) : r \in EventRows}
    /\ \A b \in getDailyBuckets : CountsItsRows(b)
    /\ \A b \in getDailyBuckets : \A k \in RowsOf(b.bucket) :
          \E c \in getDailyBuckets : c.bucket = b.bucket /\ c.score = scores[k].score

(***************************************************************************)
(* computeTrendAnalysis, called with numbers: when every score is at least *)
(* half a point a week above the one before, the trend is 'improving', and *)
(* when no score is above the one before, it is not; the same downwards.   *)
(***************************************************************************)
Climbs(sign, rate) ==
    \A k \in 1..Len(scores) - 1 :
        sign * 7 * Day * (scores[k + 1].score - scores[k].score) >=
            rate * (scores[k + 1].computedAt - scores[k].computedAt)

TrendTellsDirection ==
    LET trend == computeTrendAnalysis(scores, FALSE).trend
        Spread == Len(scores) >= 3 /\ scores[1].computedAt < Last(scores).computedAt
    IN  /\ Spread /\ Climbs(1, 50) => trend = "improving"
        /\ Spread /\ Climbs(-1, 50) => trend = "declining"
        /\ Climbs(1, 0) => trend # "declining"
        /\ Climbs(-1, 0) => trend # "improving"

----------------------------------------------------------------------------
(***************************************************************************)
(* README.md:13 "a linear-regression slope so you can see if things are    *)
(* actually getting better": scores that rise are reported as rising.      *)
(***************************************************************************)
RiseIsReported ==
    Len(scores) >= 3 /\ scores[1].computedAt < Last(scores).computedAt /\ Climbs(1, 50) =>
        getLongitudinalAnalysis(scores).trend = "improving"
====
