---- MODULE MCTaskBoard ----
\* Four calls; they are symmetric.  No clock is compared, so one is enough.
EXTENDS TaskBoard, TLC

CONSTANTS a, c1, c2, c3, c4, title1, title2

NoClocks == {EmptyClock}

Nothing == [title |-> None, status |-> None, priority |-> None, clock |-> EmptyClock]

\* Other clients create an urgent task, an ordinary one; they rename a task,
\* complete it, make it urgent, put it back.
SmallBodies ==
    {[title |-> title1, priority |-> p] : p \in {1, None}}
    \cup {[Nothing EXCEPT !.title = title2],
          [Nothing EXCEPT !.status = "completed"]}
    \cup {[Nothing EXCEPT !.priority = p] : p \in {1, 3}}

CallSymmetry == Permutations(Calls)
====
