---- MODULE MCEventBatcher ----
\* Two users; p1 is retried as p2, p3 is a batch of the limit's size by itself,
\* p4 and p5 let a size flush follow a timer flush.
EXTENDS EventBatcher, TLC

CONSTANTS u, w, p1, p2, p3, p4, p5, v1, v2, v3, v4, v5

MCEntries == {p1, p2, p3, p4, p5}
MCUserOf == [e \in Entries |-> IF e \in {p1, p2, p5} THEN u ELSE w]
MCEventsOf ==
    [e \in Entries |-> CASE e = p1 -> {v1}
                         [] e = p2 -> {v1}
                         [] e = p3 -> {v2, v3, v5}
                         [] e = p4 -> {v4}
                         [] e = p5 -> {v4, v5}]
====
