---- MODULE MCSyncServer ----
\* Two devices of a user whose clocks advance as docs/sync-protocol.md says, and
\* request bodies that retry, reorder and duplicate each other's events.
EXTENDS SyncServer, TLC

CONSTANTS a, b, e1, e2, e3, r1, r2

Clock(m, n) == (a :> m) @@ (b :> n)

\* e1 and e2 are successive events of a, e3 one of b, which knew e1.
MCEvent(id) == [id |-> id,
                vc |-> CASE id = e1 -> (a :> 1)
                         [] id = e2 -> (a :> 2)
                         [] id = e3 -> Clock(1, 1)]

Body(d, vc, ids) ==
    [deviceId |-> d, clientVectorClock |-> vc,
     events |-> [i \in DOMAIN ids |-> MCEvent(ids[i])]]

\* A first batch, the same batch again after the clock moved on, a later event
\* that overtakes, an over-long batch, a batch with a repeated event, a batch of
\* the other device, and an empty one that only reports the clock.
MCRequests ==
    {Body(a, a :> 1, <<e1>>), Body(a, a :> 2, <<e1, e2>>), Body(a, a :> 2, <<e2>>),
     Body(a, Clock(2, 1), <<e2, e1, e1>>), Body(a, a :> 1, <<e1, e1>>),
     Body(b, Clock(1, 1), <<e3>>), Body(a, a :> 2, <<>>)}
====
