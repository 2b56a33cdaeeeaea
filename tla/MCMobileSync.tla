---- MODULE MCMobileSync ----
\* One phone, a few saves and drains that may overlap.  The server answers {}, as
\* it always does (ArbitrationNeverFires of SyncSystem).
EXTENDS MobileSync, TLC

CONSTANTS phone, e1, e2, e3, d1, d2

NoClocks == {EmptyClock}
====
