---- MODULE MCLiveSocket ----
\* Two phones of one user; another user has none.
EXTENDS LiveSocket, TLC

CONSTANTS phone1, phone2, user1, user2, message

MCUserOf == [d \in Devices |-> user1]
====
