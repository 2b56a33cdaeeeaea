---- MODULE MCClockCausality ----
\* Three devices, two events each: enough for a third device to relay what it
\* learnt and for two histories to be incomparable.
EXTENDS ClockCausality, TLC

CONSTANTS a, b, c

MCDevices == {a, b, c}
Symmetry == Permutations(MCDevices)
====
