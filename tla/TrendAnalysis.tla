---- MODULE TrendAnalysis ----
(***************************************************************************)
(* computeTrendAnalysis of trend.analysis.ts, on score rows oldest first.  *)
(* A row is [computedAt, score], the time in ticks and the score in        *)
(* hundredths of a point.  The regression is exact here; rSquared and the  *)
(* rounding of slopePerWeek for display are left out.                      *)
(*                                                                         *)
(* The pg driver hands a NUMERIC column over as a string, and Number(...)  *)
(* is not applied to the scores of getScoreHistory.  "sumY += y" then      *)
(* concatenates, and the mean of three or more such numbers is NaN.        *)
(***************************************************************************)
EXTENDS Integers, SequencesExt

CONSTANTS
    Day,            \* ticks of a day
    NaN             \* the number NaN

ASSUME DayAssumption == Day \in Nat \ {0}

\* The sum of the first i of s, a loop of linearRegression.
Sums(s) ==
    LET sum[i \in 0..Len(s)] == IF i = 0 THEN 0 ELSE sum[i - 1] + s[i]
    IN  sum

Sum(s) == Sums(s)[Len(s)]

\* x is the time since the first observation.
Points(scores) ==
    [i \in DOMAIN scores |->
        [x |-> scores[i].computedAt - scores[1].computedAt, y |-> scores[i].score]]

\* Numerator and denominator of the slope (points per day), and the two sums the
\* intercept needs.  den is never negative, and 0 when all x are equal.
linearRegression(points) ==
    LET n    == Len(points)
        sumX == Sum([i \in 1..n |-> points[i].x])
        sumY == Sum([i \in 1..n |-> points[i].y])
    IN  [n    |-> n,
         sumX |-> sumX,
         sumY |-> sumY,
         num  |-> n * Sum([i \in 1..n |-> points[i].x * points[i].y]) - sumX * sumY,
         den  |-> n * Sum([i \in 1..n |-> points[i].x * points[i].x]) - sumX * sumX]

\* Mutant: the slope is compared per day.
classifyTrend_PerDay(num, den) ==
    CASE den # 0 /\ Day * num >= 50 * den  -> "improving"
      [] den # 0 /\ Day * num <= -50 * den -> "declining"
      [] OTHER                             -> "plateau"

\* Half a point a week up or down; the slope is 0 when den is.
classifyTrend(num, den) ==
    CASE den # 0 /\ 7 * Day * num >= 50 * den  -> "improving"
      [] den # 0 /\ 7 * Day * num <= -50 * den -> "declining"
      [] OTHER                                 -> "plateau"

\* The line at x within 0..100 points, to whole points; again in hundredths.
Projected(fit, x) ==
    LET a == IF fit.den = 0 THEN fit.sumY
             ELSE fit.sumY * fit.den + fit.num * (fit.n * x - fit.sumX)
        b == IF fit.den = 0 THEN fit.n ELSE fit.n * fit.den
    IN  CASE a <= 0         -> 0
          [] a >= 10000 * b -> 10000
          [] OTHER          -> 100 * ((a + 50 * b) \div (100 * b))

\* asText: the scores are strings.  NaN is on neither side of a threshold, and
\* stays NaN in the projection.
computeTrendAnalysis(scores, asText) ==
    LET points == Points(scores)
        fit    == linearRegression(points)
    IN  CASE scores = <<>> ->
                [trend |-> "plateau", projectedScore |-> 5000]
          [] Len(scores) \in 1..2 ->
                [trend |-> "plateau", projectedScore |-> Last(scores).score]
          [] Len(scores) >= 3 /\ asText ->
                [trend |-> "plateau", projectedScore |-> NaN]
          [] Len(scores) >= 3 /\ ~asText ->
                [trend |-> classifyTrend(fit.num, fit.den),
                 projectedScore |-> Projected(fit, Last(points).x + 28 * Day)]

\* analytics.service.ts on the rows of getScoreHistory.
getLongitudinalAnalysis(scores) == computeTrendAnalysis(scores, TRUE)
====
