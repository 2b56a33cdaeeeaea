---- MODULE MCSyncSystem ----
EXTENDS SyncSystem, TLC

CONSTANTS e1, e2, d1, d2, r1, r2

Symmetry == Permutations(Drains) \cup Permutations(EventIds) \cup Permutations(ReqIds)
====
