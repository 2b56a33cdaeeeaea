---- MODULE FocusSessions ----
(***************************************************************************)
(* buildSessions of timeseries.repository.ts: focus sessions out of the    *)
(* events of one task, given in the order of recorded_at.                  *)
(*                                                                         *)
(* An event is [type, at]; the loop tells "task_paused" and "interruption" *)
(* from the other types and nothing else.                                  *)
(***************************************************************************)
EXTENDS Integers, FiniteSets, SequencesExt

CONSTANT Gap        \* GAP_MS, in ticks

ASSUME GapAssumption == Gap \in Nat

Session(loop) ==
    [startedAt   |-> loop.start,
     endedAt     |-> loop.last,
     interrupted |-> loop.interrupted]

Duration(s) == s.endedAt - s.startedAt

\* Mutant: the flag is set after the session is pushed.
Turn_FlagLate(loop, ev) ==
    IF ev.at - loop.last > Gap \/ ev.type = "task_paused"
    THEN [start |-> ev.at, last |-> ev.at, interrupted |-> ev.type = "interruption",
          sessions |-> Append(loop.sessions, Session(loop))]
    ELSE [loop EXCEPT !.last = ev.at,
                      !.interrupted = @ \/ ev.type = "interruption"]

\* Mutant: the gap is measured from the start of the session.
Turn_GapFromStart(loop, ev) ==
    LET hit == [loop EXCEPT !.interrupted = @ \/ ev.type = "interruption"] IN
    IF ev.at - loop.start > Gap \/ ev.type = "task_paused"
    THEN [start |-> ev.at, last |-> ev.at, interrupted |-> FALSE,
          sessions |-> Append(loop.sessions, Session(hit))]
    ELSE [hit EXCEPT !.last = ev.at]

\* Mutant: interrupted is not reset for the next session.
Turn_KeepsFlag(loop, ev) ==
    LET hit == [loop EXCEPT !.interrupted = @ \/ ev.type = "interruption"] IN
    IF ev.at - loop.last > Gap \/ ev.type = "task_paused"
    THEN [hit EXCEPT !.start = ev.at, !.last = ev.at,
                     !.sessions = Append(@, Session(hit))]
    ELSE [hit EXCEPT !.last = ev.at]

\* One turn of the loop.  The flag is set before the session is pushed, so an
\* interruption after a long gap marks the session before the gap.
Turn(loop, ev) ==
    LET hit == [loop EXCEPT !.interrupted = @ \/ ev.type = "interruption"] IN
    IF ev.at - loop.last > Gap \/ ev.type = "task_paused"
    THEN [start |-> ev.at, last |-> ev.at, interrupted |-> FALSE,
          sessions |-> Append(loop.sessions, Session(hit))]
    ELSE [hit EXCEPT !.last = ev.at]

\* The first event only opens the first session, whatever its type.
Opened(ev) ==
    [start |-> ev.at, last |-> ev.at, interrupted |-> FALSE, sessions |-> <<>>]

\* The loop's variables after each event.
Loop(events) ==
    LET after[i \in DOMAIN events] ==
            IF i = 1 THEN Opened(events[1]) ELSE Turn(after[i - 1], events[i])
    IN  after

buildSessions(events) ==
    IF events = <<>> THEN <<>>
    ELSE LET end == Loop(events)[Len(events)]
         IN  Append(end.sessions, Session(end))

----------------------------------------------------------------------------
\* Reference: the runs of events between breaks.
Breaks(events) ==
    {i \in 2..Len(events) : \/ events[i].at - events[i - 1].at > Gap
                            \/ events[i].type = "task_paused"}

\* The session of the events i..j: its own interruptions, the opening event
\* excepted, and one that is the event after it.
RunSession(events, i, j) ==
    [startedAt   |-> events[i].at,
     endedAt     |-> events[j].at,
     interrupted |-> \E k \in i + 1..j + 1 :
                        k <= Len(events) /\ events[k].type = "interruption"]

Starts(events) == Breaks(events) \cup (DOMAIN events \cap {1})

\* How many runs there are up to event i, and where the k-th begins and ends.
RunsTo(events, i) == Cardinality(Starts(events) \cap 1..i)

Start(events, k) == CHOOSE i \in Starts(events) : RunsTo(events, i) = k

Stop(events, k) ==
    IF k < RunsTo(events, Len(events)) THEN Start(events, k + 1) - 1 ELSE Len(events)

Runs(events) ==
    [k \in 1..RunsTo(events, Len(events)) |->
        RunSession(events, Start(events, k), Stop(events, k))]
====
