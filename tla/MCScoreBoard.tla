---- MODULE MCScoreBoard ----
\* The call the app starts with and two more; all values are in the configuration.
EXTENDS ScoreBoard
====
