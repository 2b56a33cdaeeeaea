---- MODULE MCAnalytics ----
\* A day of two ticks, a gap of one, a scoring window of three; and what the tasks
\* table may say: little overdue or nothing, enough done or more, and no tasks at all.
EXTENDS Analytics, TLC

CONSTANTS t1, t2

TaskStats(done, due, overdue, total, points, avg) ==
    [tasksCompleted |-> done, tasksDueInWindow |-> due, tasksOverdue |-> overdue,
     tasksTotal |-> total, storyPointsCompleted |-> points,
     historicalAvgStoryPoints |-> avg]

MCStats ==
    {TaskStats(0, 1, 2, 100, 0, 1), TaskStats(0, 1, 0, 100, 0, 1),
     TaskStats(2, 2, 0, 3, 2, 3), TaskStats(3, 2, 0, 3, 5, 3), TaskStats(0, 0, 0, 0, 0, 0)}

Bound(e, s) == [events |-> e, scores |-> s]

MCBounds == {Bound(4, 0), Bound(1, 2), Bound(0, 3)}
MCScoreBounds == {Bound(0, 3)}
====
