---- MODULE Scoring ----
(***************************************************************************)
(* computeProductivityScore of scoring.engine.ts.  A sub-metric is a ratio *)
(* [n, d] with d > 0, and the score counts hundredths of a point, 0..10000,*)
(* as Math.round(... * 10000) / 100 does.  Floating point is exact here.   *)
(***************************************************************************)
EXTENDS FocusSessions

CONSTANTS
    DeepWork,       \* DEEP_WORK_THRESHOLD_MIN, in ticks
    Anchor          \* FOCUS_DEPTH_ANCHOR_MIN, in ticks

ASSUME AnchorAssumption == DeepWork \in Nat /\ Anchor \in Nat \ {0}

Ratio(n, d) == [n |-> n, d |-> d]

\* Mutant: no upper bound.
clamp_Below(r) == IF r.n < 0 THEN Ratio(0, 1) ELSE r

clamp(r) ==
    CASE r.n < 0   -> Ratio(0, 1)
      [] r.n > r.d -> Ratio(1, 1)
      [] OTHER     -> r

computeCompletionRate(in) ==
    IF in.tasksDueInWindow = 0
    THEN IF in.historicalAvgStoryPoints > 0 THEN Ratio(7, 10) ELSE Ratio(1, 2)
    ELSE clamp(Ratio(in.tasksCompleted, in.tasksDueInWindow))

computeVelocityIndex(in) ==
    IF in.historicalAvgStoryPoints = 0 THEN Ratio(1, 2)
    ELSE clamp(Ratio(in.storyPointsCompleted, in.historicalAvgStoryPoints))

\* sessions: a function from any finite set, their order does not matter.  The
\* k-th shortest of those in which: the least duration that k of them do not exceed.
Shortest(sessions, which, k) ==
    Min({Duration(sessions[p]) :
            p \in {q \in which : k <= Cardinality({r \in which :
                        Duration(sessions[r]) <= Duration(sessions[q])})}})

\* The mean of the two middle ones when their number is even.
TwiceMedian(sessions, which) ==
    LET half == Cardinality(which) \div 2
    IN  IF Cardinality(which) % 2 = 1 THEN 2 * Shortest(sessions, which, half + 1)
        ELSE Shortest(sessions, which, half) + Shortest(sessions, which, half + 1)

computeFocusDepth(sessions) ==
    LET continuous == {p \in DOMAIN sessions : /\ Duration(sessions[p]) >= DeepWork
                                               /\ ~sessions[p].interrupted}
    IN  IF continuous = {} THEN Ratio(0, 1)
        ELSE clamp(Ratio(TwiceMedian(sessions, continuous), 2 * Anchor))

computeConsistency(in) == clamp(Ratio(in.activeDays, 7))

\* Mutant: the ratio is not inverted.
computeOverdueRatio_Plain(in) ==
    IF in.tasksTotal = 0 THEN Ratio(1, 1)
    ELSE clamp(Ratio(in.tasksOverdue, in.tasksTotal))

computeOverdueRatio(in) ==
    IF in.tasksTotal = 0 THEN Ratio(1, 1)
    ELSE clamp(Ratio(in.tasksTotal - in.tasksOverdue, in.tasksTotal))

Plus(a, b) == Ratio(a.n * b.d + b.n * a.d, a.d * b.d)

Weigh(w, r) == Ratio(w * r.n, r.d)

\* SCORING_WEIGHTS in twentieths, with the sub-metrics they weigh.
Weighted(in, sessions) ==
    Plus(Weigh(7, computeCompletionRate(in)),
    Plus(Weigh(5, computeVelocityIndex(in)),
    Plus(Weigh(4, computeFocusDepth(sessions)),
    Plus(Weigh(3, computeConsistency(in)),
         Weigh(1, computeOverdueRatio(in))))))

\* a/b to the nearest integer, halves up.
RoundRatio(a, b) == (2 * a + b) \div (2 * b)

computeProductivityScore(in, sessions) ==
    LET raw     == Weighted(in, sessions)
        bounded == clamp(Ratio(raw.n, 20 * raw.d))
    IN  RoundRatio(10000 * bounded.n, bounded.d)
====
