---- MODULE AnalyticsProofs ----
(***************************************************************************)
(* Theorems about the analytics of both ends.                              *)
(*                                                                         *)
(* The first part is about ScoreBoard, for any number of calls, any windows*)
(* and any clock.  Its inductive invariant says what a handler's place     *)
(* tells about its call and its row, and what was handed to the phone.     *)
(*                                                                         *)
(* The second part is about Analytics, for any events, scores and window.  *)
(* There the state is simple and the operators are not: a loop over a      *)
(* task's events, a sum of weights, a join and a regression.  What they    *)
(* return is proved by least counterexample, for the library's induction   *)
(* theorems take an operator that no prover here can instantiate.          *)
(***************************************************************************)
EXTENDS ScoreBoard, Analytics, FiniteSetTheorems, WellFoundedInduction, TLAPS

\* A handler awaits only what its call asks for, and computes after the call left.
PlacesFit ==
    \A c \in Calls :
        /\ handler[c].pc = "off" <=> sent[c].at = "off"
        /\ sent[c].since <= now
        /\ handler[c].pc # "off" => sent[c].op \in {"score", "refresh", "trend"}
        /\ handler[c].pc = "latest" => sent[c].op = "score"
        /\ handler[c].pc = "buckets" => ~Scores(c)
        /\ handler[c].pc \in {"read", "insert"} => Scores(c)
        /\ handler[c].pc \in {"read", "insert"} => handler[c].began >= sent[c].since

\* What an answer holds.
AnswersFit ==
    \A c \in Calls : handler[c].pc = "answered" /\ Scores(c) =>
        /\ handler[c].row \in Row
        /\ sent[c].op = "refresh" => handler[c].row.began >= sent[c].since
        /\ handler[c].text => handler[c].row.by # c

\* Only a handler that is done has stored a row.
RowsAreOfDone == \A r \in rows : handler[r.by].pc \in {"answered", "failed"}

\* What the phone shows came with an answer.
ShownFits ==
    phone.score # None =>
        /\ sent[phone.score.call].at # "off"
        /\ sent[phone.score.call].op = "refresh" =>
              phone.score.row.began >= sent[phone.score.call].since
        /\ phone.score.text => phone.score.row.by # phone.score.call

BrokenByText == phone.broken => phone.score # None /\ phone.score.text

Inv == TypeOK /\ PlacesFit /\ AnswersFit /\ RowsAreOfDone /\ ShownFits /\ BrokenByText

----------------------------------------------------------------------------
\* How values of the state's types are built.
LEMMA Idling == Idle \in Handler
<1>1. 0 \in 0 .. MaxTime /\ {} \in SUBSET Reads /\ None \in Row \cup {None}
  BY BoundsAssumption
<1> QED
  BY <1>1 DEF Idle, Handler

LEMMA IdleIsHandler ==
    \A s \in {"sent", "latest", "buckets", "answered", "failed"} :
        [Idle EXCEPT !.pc = s] \in Handler
BY Idling DEF Handler

LEMMA ComputingIsHandler == now \in 0 .. MaxTime => Computing \in Handler
BY Idling DEF Computing, Handler

LEMMA AnswerIsHandler ==
    ASSUME NEW r \in Row, NEW b \in BOOLEAN
    PROVE  [Idle EXCEPT !.pc = "answered", !.row = r, !.text = b] \in Handler
BY Idling DEF Handler

LEMMA InsertIsHandler ==
    ASSUME NEW r \in Row
    PROVE  [Idle EXCEPT !.pc = "answered", !.row = r] \in Handler
BY Idling DEF Handler

LEMMA ReadingIsHandler ==
    ASSUME NEW h \in Handler, NEW done \in SUBSET Reads, NEW t \in 0 .. MaxTime
    PROVE  /\ [h EXCEPT !.done = done, !.pc = "insert", !.at = t] \in Handler
           /\ [h EXCEPT !.done = done] \in Handler
           /\ [h EXCEPT !.pc = "sent"] \in Handler
BY DEF Handler

LEMMA OverIsCall ==
    ASSUME NEW x \in Call, NEW s \in {"told", "over"}
    PROVE  [x EXCEPT !.at = s] \in Call
BY DEF Call

LEMMA SentIsCall ==
    ASSUME NEW o \in {"score", "refresh", "trend"}, NEW d \in Windows \cup {None},
           NEW t \in 0 .. MaxTime
    PROVE  [at |-> "waiting", op |-> o, days |-> d, since |-> t] \in Call
BY DEF Call

\* What a call that leaves does to the types.
LEMMA SendType ==
    ASSUME TypeOK, NEW c \in Calls, NEW o \in {"score", "refresh", "trend"},
           NEW d \in Windows \cup {None}, NEW ended, Send(c, o, d, ended)
    PROVE  /\ sent' \in [Calls -> Call] /\ handler' \in [Calls -> Handler]
           /\ UNCHANGED <<faults, now, rows>>
<1>1. sent' \in [Calls -> Call]
  BY SentIsCall, OverIsCall DEF Send, TypeOK
<1>2. handler[c] \in Handler /\ {} \in SUBSET Reads /\ 0 \in 0 .. MaxTime
  BY BoundsAssumption DEF TypeOK
<1>3. [handler[c] EXCEPT !.pc = "sent"] \in Handler
  BY <1>2, ReadingIsHandler
<1>4. handler' \in [Calls -> Handler]
  BY <1>3 DEF Send, TypeOK
<1> QED
  BY <1>1, <1>4 DEF Send

LEMMA HandlerType ==
    ASSUME TypeOK, NEW c \in Calls, NEW h \in Handler, HandlerGoesTo(c, h)
    PROVE  /\ handler' \in [Calls -> Handler]
           /\ UNCHANGED <<faults, now, sent, phone, clean, trendLost>>
BY DEF HandlerGoesTo, TypeOK

Phone == [score : Score \cup {None}, loading : BOOLEAN, broken : BOOLEAN,
          days : Windows \cup {None}, trend : Windows \cup {None}]

LEMMA CleanType ==
    ASSUME TypeOK, NEW c \in Calls, NEW ended
    PROVE  CleanWith(c, ended) \subseteq Calls
BY DEF CleanWith, TypeOK

LEMMA AnsweredType ==
    ASSUME TypeOK, NEW c \in Calls, NEW op, Answered(c, op)
    PROVE  sent' \in [Calls -> Call]
BY OverIsCall DEF Answered, TypeOK

LEMMA ShownType ==
    ASSUME TypeOK, AnswersFit, NEW c \in Calls, Scores(c), handler[c].pc = "answered"
    PROVE  Shown(c) \in Score /\ handler[c].text \in BOOLEAN
<1>1. handler[c] \in Handler
  BY DEF TypeOK
<1>2. handler[c].text \in BOOLEAN
  BY <1>1 DEF Handler
<1> QED
  BY <1>2 DEF Shown, Score, AnswersFit

LEMMA InitType == Init => TypeOK
<1> SUFFICES ASSUME Init PROVE TypeOK
  OBVIOUS
<1>1. handler \in [Calls -> Handler]
  BY Idling DEF Init, Handler
<1>2. sent \in [Calls -> Call]
  BY BoundsAssumption DEF Init, Call, Unsent
<1>3. phone \in Phone
  BY DEF Init, Phone, Fresh
<1>4. now \in 0 .. MaxTime /\ {1} \subseteq Calls
  BY BoundsAssumption DEF Init, Calls
<1> QED
  BY <1>1, <1>2, <1>3, <1>4 DEF Init, TypeOK, Phone

LEMMA TypeStep == Inv /\ [Next]_vars => TypeOK'
<1> SUFFICES ASSUME Inv, [Next]_vars PROVE TypeOK'
  OBVIOUS
<1>0. TypeOK /\ AnswersFit /\ PlacesFit /\ now \in 0 .. MaxTime /\ phone \in Phone
  BY DEF Inv, TypeOK, Phone
<1>1. CASE Tick
  BY <1>0, <1>1, BoundsAssumption DEF Tick, TypeOK
<1>2. ASSUME NEW c \in Calls, Launch(c) PROVE TypeOK'
  <2> DEFINE ended == {d \in Calls : Waiting(d)}
  <2>1. Send(c, "score", None, ended)
    BY <1>2 DEF Launch
  <2>2. phone' \in Phone
    BY <1>2 DEF Launch, Fresh, Phone
  <2>3. clean' \subseteq Calls /\ trendLost' \in BOOLEAN
    BY <1>0, <1>2, CleanType DEF Launch
  <2> QED
    BY <1>0, <2>1, <2>2, <2>3, SendType DEF TypeOK, Phone
<1>3. ASSUME NEW c \in Calls, Recalculate(c) PROVE TypeOK'
  <2>1. clean' \subseteq Calls
    BY <1>0, <1>3, CleanType DEF Recalculate
  <2> QED
    BY <1>0, <1>3, <2>1, SendType DEF Recalculate, TypeOK
<1>4. ASSUME NEW c \in Calls, NEW days \in Windows, ChooseWindow(c, days) PROVE TypeOK'
  <2>1. phone' \in Phone
    BY <1>0, <1>4 DEF ChooseWindow, Phone
  <2> QED
    BY <1>0, <1>4, <2>1, SendType DEF ChooseWindow, TypeOK
<1>5. ASSUME NEW c \in Calls, Arrive(c) PROVE TypeOK'
  <2>1. PICK h \in Handler : HandlerGoesTo(c, h)
    <3>1. sent[c].op \in {"refresh", "score", "trend"}
      BY <1>0, <1>5 DEF Arrive, PlacesFit
    <3> QED
      BY <1>0, <1>5, <3>1, IdleIsHandler, ComputingIsHandler DEF Arrive
  <2> QED
    BY <1>0, <1>5, <2>1, HandlerType DEF Arrive, TypeOK
<1>6. ASSUME NEW c \in Calls, ReadLatest(c) PROVE TypeOK'
  <2>1. PICK h \in Handler : HandlerGoesTo(c, h)
    <3>1. Latest \subseteq Row
      BY <1>0 DEF Latest, TypeOK
    <3> QED
      BY <1>0, <1>6, <3>1, AnswerIsHandler, ComputingIsHandler DEF ReadLatest
  <2> QED
    BY <1>0, <1>6, <2>1, HandlerType DEF ReadLatest, TypeOK
<1>7. ASSUME NEW c \in Calls, NEW q \in Reads, Read(c, q) PROVE TypeOK'
  <2> DEFINE done == handler[c].done \cup {q}
  <2>1. handler[c] \in Handler
    BY <1>0 DEF TypeOK
  <2>2. done \in SUBSET Reads
    BY <2>1 DEF Handler
  <2>3. PICK h \in Handler : HandlerGoesTo(c, h)
    BY <1>0, <1>7, <2>1, <2>2, ReadingIsHandler DEF Read
  <2> QED
    BY <1>0, <1>7, <2>3, HandlerType DEF Read, TypeOK
<1>8. ASSUME NEW c \in Calls, Insert(c) PROVE TypeOK'
  <2> DEFINE row == [by |-> c, began |-> handler[c].began, at |-> handler[c].at]
  <2>1. handler[c] \in Handler
    BY <1>0 DEF TypeOK
  <2>2. row \in Row
    BY <2>1 DEF Handler, Row
  <2>3. PICK h \in Handler : HandlerGoesTo(c, h)
    BY <1>8, <2>2, InsertIsHandler DEF Insert
  <2> QED
    BY <1>0, <1>8, <2>2, <2>3, HandlerType DEF Insert, TypeOK
<1>9. ASSUME NEW c \in Calls, ReadBuckets(c) PROVE TypeOK'
  BY <1>0, <1>9, IdleIsHandler, HandlerType DEF ReadBuckets, TypeOK
<1>10. ASSUME NEW c \in Calls, QueryFails(c) PROVE TypeOK'
  BY <1>0, <1>10, IdleIsHandler, HandlerType DEF QueryFails, TypeOK
<1>11. ASSUME NEW c \in Calls, ScoreFulfilled(c) \/ RefreshFulfilled(c) PROVE TypeOK'
  <2>1. PICK op \in {"score", "refresh"} : Answered(c, op)
    BY <1>11 DEF ScoreFulfilled, RefreshFulfilled
  <2>2. Scores(c) /\ handler[c].pc = "answered"
    BY <2>1 DEF Answered, Scores
  <2>3. Shown(c) \in Score /\ handler[c].text \in BOOLEAN
    BY <1>0, <2>2, ShownType
  <2>4. phone' \in Phone
    BY <1>0, <1>11, <2>3 DEF ScoreFulfilled, RefreshFulfilled, Phone
  <2>5. UNCHANGED <<faults, now, rows, handler, clean, trendLost>>
    BY <1>11 DEF ScoreFulfilled, RefreshFulfilled, Answered
  <2> QED
    BY <1>0, <2>1, <2>4, <2>5, AnsweredType DEF TypeOK, Phone
<1>12. ASSUME NEW c \in Calls, TrendFulfilled(c) PROVE TypeOK'
  <2>1. Answered(c, "trend") /\ trendLost' \in BOOLEAN
    BY <1>12 DEF TrendFulfilled
  <2>2. sent[c].days \in Windows \cup {None}
    BY <1>0 DEF TypeOK, Call
  <2>3. phone' \in Phone
    BY <1>0, <1>12, <2>2 DEF TrendFulfilled, Phone
  <2>4. UNCHANGED <<faults, now, rows, handler, clean>>
    BY <2>1 DEF Answered
  <2> QED
    BY <1>0, <2>1, <2>3, <2>4, AnsweredType DEF TypeOK, Phone
<1>13. ASSUME NEW c \in Calls, Rejected(c) PROVE TypeOK'
  <2>1. sent' \in [Calls -> Call]
    BY <1>0, <1>13, OverIsCall DEF Rejected, TypeOK
  <2>2. (phone.loading /\ sent[c].op # "score") \in BOOLEAN
    OBVIOUS
  <2>3. phone' \in Phone
    BY <1>0, <1>13, <2>2 DEF Rejected, Phone
  <2>4. trendLost' \in BOOLEAN
    BY <1>13 DEF Rejected
  <2>5. clean' \subseteq Calls
    BY <1>0, <1>13 DEF Rejected, TypeOK
  <2> QED
    BY <1>0, <1>13, <2>1, <2>3, <2>4, <2>5 DEF Rejected, TypeOK
<1>14. CASE UNCHANGED vars
  BY <1>0, <1>14 DEF vars, TypeOK
<1> QED
  BY <1>1, <1>2, <1>3, <1>4, <1>5, <1>6, <1>7, <1>8, <1>9, <1>10, <1>11, <1>12, <1>13, <1>14
     DEF Next, UserStep, ServerStep, CallEnds

LEMMA InitInv == Init => Inv
BY InitType, BoundsAssumption DEF Init, Inv, PlacesFit, AnswersFit, RowsAreOfDone,
   ShownFits, BrokenByText, Fresh, Idle, Unsent

LEMMA StepInv == Inv /\ [Next]_vars => Inv'
<1> SUFFICES ASSUME Inv, [Next]_vars PROVE Inv'
  OBVIOUS
<1> USE WindowAssumption, BoundsAssumption DEF Scores, Waiting
<1>0. TypeOK'
  BY TypeStep
<1>a. /\ handler \in [Calls -> Handler] /\ sent \in [Calls -> Call] /\ now \in 0 .. MaxTime
      /\ rows \subseteq Row /\ phone \in Phone
      /\ handler' \in [Calls -> Handler] /\ sent' \in [Calls -> Call]
      /\ PlacesFit /\ AnswersFit /\ RowsAreOfDone /\ ShownFits /\ BrokenByText
  BY <1>0 DEF Inv, TypeOK, Phone
<1>1. CASE Tick
  <2>1. PlacesFit'
    BY <1>a, <1>1 DEF Tick, PlacesFit, Handler, Call
  <2>2. AnswersFit'
    BY <1>a, <1>1 DEF Tick, AnswersFit, PlacesFit, Handler, Call, Row
  <2>3. RowsAreOfDone'
    BY <1>a, <1>1 DEF Tick, RowsAreOfDone
  <2>4. ShownFits'
    BY <1>a, <1>1 DEF Tick, ShownFits
  <2>5. BrokenByText'
    BY <1>a, <1>1 DEF Tick, BrokenByText
  <2> QED
    BY <1>0, <2>1, <2>2, <2>3, <2>4, <2>5 DEF Inv
<1>2. ASSUME NEW c \in Calls, Launch(c) PROVE Inv'
  <2>1. PlacesFit'
    BY <1>a, <1>2 DEF Launch, Send, Fresh, PlacesFit, Handler, Call
  <2>2. AnswersFit'
    BY <1>a, <1>2 DEF Launch, Send, Fresh, AnswersFit, PlacesFit, Handler, Call, Row
  <2>3. RowsAreOfDone'
    BY <1>a, <1>2 DEF Launch, Send, RowsAreOfDone, PlacesFit
  <2>4. ShownFits'
    BY <1>a, <1>2 DEF Launch, Fresh, ShownFits
  <2>5. BrokenByText'
    BY <1>a, <1>2 DEF Launch, Fresh, BrokenByText
  <2> QED
    BY <1>0, <2>1, <2>2, <2>3, <2>4, <2>5 DEF Inv
<1>3. ASSUME NEW c \in Calls, Recalculate(c) PROVE Inv'
  <2>1. PlacesFit'
    BY <1>a, <1>3 DEF Recalculate, Send, PlacesFit, Handler, Call
  <2>2. AnswersFit'
    BY <1>a, <1>3 DEF Recalculate, Send, AnswersFit, PlacesFit, Handler, Call, Row
  <2>3. RowsAreOfDone'
    BY <1>a, <1>3 DEF Recalculate, Send, RowsAreOfDone, PlacesFit
  <2>4. ShownFits'
    BY <1>a, <1>3 DEF Recalculate, Send, ShownFits, Phone, Score
  <2>5. BrokenByText'
    BY <1>a, <1>3 DEF Recalculate, BrokenByText
  <2> QED
    BY <1>0, <2>1, <2>2, <2>3, <2>4, <2>5 DEF Inv
<1>4. ASSUME NEW c \in Calls, NEW days \in Windows, ChooseWindow(c, days) PROVE Inv'
  <2>1. PlacesFit'
    BY <1>a, <1>4 DEF ChooseWindow, Send, PlacesFit, Handler, Call
  <2>2. AnswersFit'
    BY <1>a, <1>4 DEF ChooseWindow, Send, AnswersFit, PlacesFit, Handler, Call, Row
  <2>3. RowsAreOfDone'
    BY <1>a, <1>4 DEF ChooseWindow, Send, RowsAreOfDone, PlacesFit
  <2>4. ShownFits'
    BY <1>a, <1>4 DEF ChooseWindow, Send, ShownFits, Phone, Score
  <2>5. BrokenByText'
    BY <1>a, <1>4 DEF ChooseWindow, BrokenByText
  <2> QED
    BY <1>0, <2>1, <2>2, <2>3, <2>4, <2>5 DEF Inv
<1>5. ASSUME NEW c \in Calls, Arrive(c) PROVE Inv'
  <2>1. PlacesFit'
    BY <1>a, <1>5 DEF Arrive, HandlerGoesTo, Computing, Idle, PlacesFit, Handler, Call
  <2>2. AnswersFit'
    BY <1>a, <1>5 DEF Arrive, HandlerGoesTo, Computing, Idle, AnswersFit, PlacesFit,
       Handler, Call, Row
  <2>3. RowsAreOfDone'
    BY <1>a, <1>5 DEF Arrive, HandlerGoesTo, RowsAreOfDone
  <2>4. ShownFits'
    BY <1>a, <1>5 DEF Arrive, HandlerGoesTo, ShownFits
  <2>5. BrokenByText'
    BY <1>a, <1>5 DEF Arrive, HandlerGoesTo, BrokenByText
  <2> QED
    BY <1>0, <2>1, <2>2, <2>3, <2>4, <2>5 DEF Inv
<1>6. ASSUME NEW c \in Calls, ReadLatest(c) PROVE Inv'
  <2>0. PICK h \in Handler :
            /\ handler[c].pc = "latest" /\ HandlerGoesTo(c, h)
            /\ \/ h.pc = "read" /\ h.began = now
               \/ h.pc = "answered" /\ h.row \in rows
    <3>1. Computing \in Handler /\ Computing.pc = "read" /\ Computing.began = now
      BY <1>a, ComputingIsHandler DEF Computing
    <3>2. ASSUME NEW r \in rows
          PROVE  LET h == [Idle EXCEPT !.pc = "answered", !.row = r, !.text = TRUE]
                 IN  h \in Handler /\ h.pc = "answered" /\ h.row \in rows
      BY <1>a, AnswerIsHandler DEF Idle
    <3> QED
      BY <1>6, <3>1, <3>2 DEF ReadLatest, Latest
  <2>1. PlacesFit'
    BY <1>a, <2>0 DEF HandlerGoesTo, PlacesFit, Handler, Call
  <2>2. AnswersFit'
    BY <1>a, <2>0 DEF HandlerGoesTo, AnswersFit, RowsAreOfDone, PlacesFit, Handler, Call
  <2>3. RowsAreOfDone'
    BY <1>a, <1>6, <2>0 DEF ReadLatest, HandlerGoesTo, RowsAreOfDone, Row
  <2>4. ShownFits'
    BY <1>a, <2>0 DEF HandlerGoesTo, ShownFits
  <2>5. BrokenByText'
    BY <1>a, <2>0 DEF HandlerGoesTo, BrokenByText
  <2> QED
    BY <1>0, <2>1, <2>2, <2>3, <2>4, <2>5 DEF Inv
<1>7. ASSUME NEW c \in Calls, NEW q \in Reads, Read(c, q) PROVE Inv'
  <2>1. PlacesFit'
    BY <1>a, <1>7 DEF Read, HandlerGoesTo, PlacesFit, Handler, Call
  <2>2. AnswersFit'
    BY <1>a, <1>7 DEF Read, HandlerGoesTo, AnswersFit, PlacesFit, Handler, Call, Row
  <2>3. RowsAreOfDone'
    BY <1>a, <1>7 DEF Read, HandlerGoesTo, RowsAreOfDone
  <2>4. ShownFits'
    BY <1>a, <1>7 DEF Read, HandlerGoesTo, ShownFits
  <2>5. BrokenByText'
    BY <1>a, <1>7 DEF Read, HandlerGoesTo, BrokenByText
  <2> QED
    BY <1>0, <2>1, <2>2, <2>3, <2>4, <2>5 DEF Inv
<1>8. ASSUME NEW c \in Calls, Insert(c) PROVE Inv'
  <2>1. PlacesFit'
    BY <1>a, <1>8 DEF Insert, HandlerGoesTo, Idle, PlacesFit, Handler, Call
  <2>2. AnswersFit'
    BY <1>a, <1>8 DEF Insert, HandlerGoesTo, Idle, AnswersFit, PlacesFit, Handler, Call, Row
  <2>3. RowsAreOfDone'
    BY <1>a, <1>8 DEF Insert, HandlerGoesTo, RowsAreOfDone
  <2>4. ShownFits'
    BY <1>a, <1>8 DEF Insert, HandlerGoesTo, ShownFits
  <2>5. BrokenByText'
    BY <1>a, <1>8 DEF Insert, HandlerGoesTo, BrokenByText
  <2> QED
    BY <1>0, <2>1, <2>2, <2>3, <2>4, <2>5 DEF Inv
<1>9. ASSUME NEW c \in Calls, ReadBuckets(c) PROVE Inv'
  <2>1. PlacesFit'
    BY <1>a, <1>9 DEF ReadBuckets, HandlerGoesTo, Idle, PlacesFit, Handler, Call
  <2>2. AnswersFit'
    BY <1>a, <1>9 DEF ReadBuckets, HandlerGoesTo, Idle, AnswersFit, PlacesFit, Handler,
       Call, Row
  <2>3. RowsAreOfDone'
    BY <1>a, <1>9 DEF ReadBuckets, HandlerGoesTo, RowsAreOfDone
  <2>4. ShownFits'
    BY <1>a, <1>9 DEF ReadBuckets, HandlerGoesTo, ShownFits
  <2>5. BrokenByText'
    BY <1>a, <1>9 DEF ReadBuckets, HandlerGoesTo, BrokenByText
  <2> QED
    BY <1>0, <2>1, <2>2, <2>3, <2>4, <2>5 DEF Inv
<1>10. ASSUME NEW c \in Calls, QueryFails(c) PROVE Inv'
  <2>1. PlacesFit'
    BY <1>a, <1>10 DEF QueryFails, HandlerGoesTo, Idle, Running, PlacesFit, Handler, Call
  <2>2. AnswersFit'
    BY <1>a, <1>10 DEF QueryFails, HandlerGoesTo, Idle, Running, AnswersFit, PlacesFit,
       Handler, Call, Row
  <2>3. RowsAreOfDone'
    BY <1>a, <1>10 DEF QueryFails, HandlerGoesTo, RowsAreOfDone
  <2>4. ShownFits'
    BY <1>a, <1>10 DEF QueryFails, HandlerGoesTo, ShownFits
  <2>5. BrokenByText'
    BY <1>a, <1>10 DEF QueryFails, HandlerGoesTo, BrokenByText
  <2> QED
    BY <1>0, <2>1, <2>2, <2>3, <2>4, <2>5 DEF Inv
<1>11. ASSUME NEW c \in Calls, ScoreFulfilled(c) PROVE Inv'
  <2>0. /\ Scores(c) /\ handler[c].pc = "answered" /\ sent[c].at = "waiting"
        /\ sent' = [sent EXCEPT ![c].at = "told"] /\ UNCHANGED <<now, rows, handler>>
        /\ phone'.score = Shown(c) /\ phone'.broken = handler[c].text
    BY <1>a, <1>11 DEF ScoreFulfilled, Answered, Phone
  <2>0a. Shown(c) \in Score
    BY <1>0, <2>0, ShownType DEF Inv
  <2>1. PlacesFit'
    BY <1>a, <2>0 DEF PlacesFit, Call
  <2>2. AnswersFit'
    BY <1>a, <2>0 DEF AnswersFit, Call
  <2>3. RowsAreOfDone'
    BY <1>a, <2>0 DEF RowsAreOfDone
  <2>4. ShownFits'
    BY <1>a, <2>0 DEF ShownFits, AnswersFit, Shown
  <2>5. BrokenByText'
    <3>1. phone'.score # None
      BY <2>0, <2>0a, NoneAssumption
    <3>2. phone'.score.text = phone'.broken
      BY <2>0 DEF Shown
    <3> QED
      BY <3>1, <3>2, Zenon DEF BrokenByText
  <2> QED
    BY <1>0, <2>1, <2>2, <2>3, <2>4, <2>5 DEF Inv
<1>12. ASSUME NEW c \in Calls, RefreshFulfilled(c) PROVE Inv'
  <2>0. /\ Scores(c) /\ handler[c].pc = "answered" /\ sent[c].at = "waiting"
        /\ sent' = [sent EXCEPT ![c].at = "told"] /\ UNCHANGED <<now, rows, handler>>
        /\ phone'.score = Shown(c) /\ phone'.broken = handler[c].text
    BY <1>a, <1>12 DEF RefreshFulfilled, Answered, Phone
  <2>0a. Shown(c) \in Score
    BY <1>0, <2>0, ShownType DEF Inv
  <2>1. PlacesFit'
    BY <1>a, <2>0 DEF PlacesFit, Call
  <2>2. AnswersFit'
    BY <1>a, <2>0 DEF AnswersFit, Call
  <2>3. RowsAreOfDone'
    BY <1>a, <2>0 DEF RowsAreOfDone
  <2>4. ShownFits'
    BY <1>a, <2>0 DEF ShownFits, AnswersFit, Shown
  <2>5. BrokenByText'
    <3>1. phone'.score # None
      BY <2>0, <2>0a, NoneAssumption
    <3>2. phone'.score.text = phone'.broken
      BY <2>0 DEF Shown
    <3> QED
      BY <3>1, <3>2, Zenon DEF BrokenByText
  <2> QED
    BY <1>0, <2>1, <2>2, <2>3, <2>4, <2>5 DEF Inv
<1>13. ASSUME NEW c \in Calls, TrendFulfilled(c) PROVE Inv'
  <2>1. PlacesFit'
    BY <1>a, <1>13 DEF TrendFulfilled, Answered, PlacesFit, Handler, Call
  <2>2. AnswersFit'
    BY <1>a, <1>13 DEF TrendFulfilled, Answered, AnswersFit, PlacesFit, Handler, Call, Row
  <2>3. RowsAreOfDone'
    BY <1>a, <1>13 DEF TrendFulfilled, Answered, RowsAreOfDone
  <2>4. ShownFits'
    BY <1>a, <1>13 DEF TrendFulfilled, Answered, ShownFits
  <2>5. BrokenByText'
    BY <1>a, <1>13 DEF TrendFulfilled, BrokenByText
  <2> QED
    BY <1>0, <2>1, <2>2, <2>3, <2>4, <2>5 DEF Inv
<1>14. ASSUME NEW c \in Calls, Rejected(c) PROVE Inv'
  <2>1. PlacesFit'
    BY <1>a, <1>14 DEF Rejected, PlacesFit, Handler, Call
  <2>2. AnswersFit'
    BY <1>a, <1>14 DEF Rejected, AnswersFit, PlacesFit, Handler, Call, Row
  <2>3. RowsAreOfDone'
    BY <1>a, <1>14 DEF Rejected, RowsAreOfDone
  <2>4. ShownFits'
    BY <1>a, <1>14 DEF Rejected, ShownFits
  <2>5. BrokenByText'
    BY <1>a, <1>14 DEF Rejected, BrokenByText
  <2> QED
    BY <1>0, <2>1, <2>2, <2>3, <2>4, <2>5 DEF Inv
<1>15. CASE UNCHANGED vars
  BY <1>0, <1>a, <1>15 DEF vars, Inv, PlacesFit, AnswersFit, RowsAreOfDone, ShownFits,
     BrokenByText
<1> QED
  BY <1>1, <1>2, <1>3, <1>4, <1>5, <1>6, <1>7, <1>8, <1>9, <1>10, <1>11, <1>12, <1>13,
     <1>14, <1>15 DEF Next, UserStep, ServerStep, CallEnds

LEMMA InvHolds == Spec => []Inv
BY InitInv, StepInv, PTL DEF Spec

(***************************************************************************)
(* Type correctness of the handlers, the calls, the rows and the slice     *)
(* (analytics.controller.ts, analytics.slice.ts).                          *)
(***************************************************************************)
THEOREM TypeCorrect == Spec => []TypeOK
BY InvHolds, PTL DEF Inv

(***************************************************************************)
(* A recalculated score on screen is one whose window ends after the tap,  *)
(* however calls overlap, fail and are answered (analytics.controller.ts   *)
(* "refresh").                                                             *)
(***************************************************************************)
THEOREM RefreshAnswersTap == Spec => []RefreshIsFresh
<1>1. Inv => RefreshIsFresh
  BY DEF Inv, ShownFits, RefreshIsFresh
<1> QED
  BY <1>1, InvHolds, PTL

(***************************************************************************)
(* Only a row that was stored before its call ends the app: a score the    *)
(* call computed itself is a number (analytics.service.ts getLatestScore). *)
(***************************************************************************)
THEOREM ComputedScoresAreShown == Spec => []OnlyStoredScoresBreak
<1>1. Inv => OnlyStoredScoresBreak
  BY DEF Inv, BrokenByText, ShownFits, OnlyStoredScoresBreak
<1> QED
  BY <1>1, InvHolds, PTL

----------------------------------------------------------------------------
\* Which score is shown.  A call is active while the phone awaits its score.
Active(c) == Scores(c) /\ Waiting(c)

ToldIsAnswered == \A c \in Calls : sent[c].at = "told" => handler[c].pc = "answered"

\* No time lies ahead.
TimesPast ==
    /\ \A r \in rows : r.at <= now
    /\ \A c \in Calls : handler[c].pc = "insert" => handler[c].at <= now

\* As long as a call is clean, no handler works on that the phone gave up ...
CleanIsAlone == clean # {} => \A c \in Calls : ~Loose(c)

\* ... so one handler at a time stores, and its row is the newest ...
OneAtATime ==
    /\ \A c, d \in Calls : Active(c) /\ Active(d) => c = d
    /\ \A c \in Calls : Waiting(c) /\ sent[c].op = "score" => phone.loading

ComputedIsNewest ==
    clean # {} => \A c \in Calls : handler[c].pc = "insert" =>
        \A r \in rows : r.at <= handler[c].at

AnswerIsLatest ==
    clean # {} => \A c \in Calls : Active(c) /\ handler[c].pc = "answered" =>
        handler[c].row \in Latest

\* ... and what is shown is the latest row, but for one the phone has yet to read.
ShownIsLatest ==
    /\ phone.score # None
    /\ phone.score.call \in clean
    /\ \A c \in Calls : Active(c) => handler[c].pc # "answered"
    => phone.score.row \in Latest

InTurn == OneAtATime /\ ComputedIsNewest /\ AnswerIsLatest /\ ShownIsLatest

LatestInv ==
    /\ ToldIsAnswered
    /\ TimesPast
    /\ CleanIsAlone
    /\ "overlap" \notin faults => InTurn

LEMMA ValuesAre ==
    ASSUME Inv
    PROVE  /\ handler \in [Calls -> Handler] /\ sent \in [Calls -> Call] /\ phone \in Phone
           /\ now \in Nat /\ rows \subseteq Row /\ clean \subseteq Calls
           /\ \A r \in rows : r.at \in Nat
           /\ \A c \in Calls : handler[c].at \in Nat
  BY BoundsAssumption DEF Inv, TypeOK, Phone, Row, Handler

\* A handler at work on a score is the one the phone awaits.
LEMMA WorkingIsActive ==
    ASSUME Inv, ToldIsAnswered, NEW c \in Calls, Running(c), Scores(c), ~Loose(c)
    PROVE  Active(c)
<1>1. sent[c].at \in {"off", "waiting", "told", "over"}
  BY ValuesAre DEF Call
<1>2. sent[c].at # "off"
  BY DEF Running, Inv, PlacesFit
<1>3. sent[c].at # "told" /\ sent[c].at # "over"
  BY DEF Running, ToldIsAnswered, Loose
<1> QED
  BY <1>1, <1>2, <1>3 DEF Active, Waiting

\* The five things a step of a handler may come to.
LEMMA HandlerStepIs ==
    ASSUME Inv, NEW c \in Calls, ServerStep(c)
    PROVE  /\ UNCHANGED <<faults, now, sent, phone, clean, trendLost>>
           /\ Running(c) /\ handler'[c].pc # "off"
           /\ \A d \in Calls \ {c} : handler'[d] = handler[d]
           /\ \/ rows' = rows /\ handler'[c].pc \notin {"insert", "answered"}
              \/ rows' = rows /\ handler'[c].pc = "insert" /\ handler'[c].at = now
              \/ rows' = rows /\ Scores(c) /\ handler'[c].pc = "answered" /\ handler'[c].row \in Latest
              \/ rows' = rows /\ ~Scores(c) /\ handler'[c].pc = "answered"
              \/ /\ handler[c].pc = "insert" /\ Scores(c) /\ handler'[c].pc = "answered"
                 /\ rows' = rows \cup {handler'[c].row} /\ handler'[c].row.at = handler[c].at
<1>1. /\ handler \in [Calls -> Handler] /\ handler[c] \in Handler
      /\ sent[c].op \in {"score", "refresh", "trend"} \/ handler[c].pc = "off"
      /\ handler[c].pc = "latest" => Scores(c)
      /\ handler[c].pc = "buckets" => ~Scores(c)
      /\ handler[c].pc \in {"read", "insert"} => Scores(c)
  BY ValuesAre DEF Inv, PlacesFit, Scores
<1>2. /\ UNCHANGED <<faults, now, sent, phone, clean, trendLost>>
      /\ \A d \in Calls \ {c} : handler'[d] = handler[d]
  BY <1>1 DEF ServerStep, Arrive, ReadLatest, Read, Insert, ReadBuckets, QueryFails, HandlerGoesTo
<1>4. CASE Arrive(c)
  <2>1. handler'[c].pc \in {"read", "latest", "buckets"}
    BY <1>1, <1>4 DEF Arrive, HandlerGoesTo, Computing, Idle
  <2> QED
    BY <1>2, <1>4, <2>1 DEF Arrive, Running
<1>5. CASE ReadLatest(c)
  <2>1. ASSUME HandlerGoesTo(c, Computing) PROVE handler'[c].pc = "read"
    BY <1>1, <2>1 DEF HandlerGoesTo, Computing, Idle
  <2>2. ASSUME NEW r \in Latest,
               HandlerGoesTo(c, [Idle EXCEPT !.pc = "answered", !.row = r, !.text = TRUE])
        PROVE  handler'[c].pc = "answered" /\ handler'[c].row \in Latest
    <3> DEFINE h == [Idle EXCEPT !.pc = "answered", !.row = r, !.text = TRUE]
    <3>1. h.pc = "answered" /\ h.row = r
      BY DEF Idle
    <3>2. handler' = [handler EXCEPT ![c] = h]
      BY <2>2 DEF HandlerGoesTo
    <3> HIDE DEF h
    <3> QED
      BY <1>1, <3>1, <3>2
  <2> QED
    BY <1>1, <1>2, <1>5, <2>1, <2>2 DEF ReadLatest, Running
<1>6. ASSUME NEW q \in Reads, Read(c, q)
      PROVE  /\ Running(c) /\ rows' = rows
             /\ handler'[c].pc = "read" \/ (handler'[c].pc = "insert" /\ handler'[c].at = now)
  <2> DEFINE done == handler[c].done \cup {q}
             h1 == [handler[c] EXCEPT !.done = done, !.pc = "insert", !.at = now]
             h2 == [handler[c] EXCEPT !.done = done]
  <2>1. handler[c].pc = "read" /\ rows' = rows
    BY <1>6 DEF Read
  <2>2. h1.pc = "insert" /\ h1.at = now /\ h2.pc = "read"
    BY <1>1, <2>1 DEF Handler
  <2>3. handler' = [handler EXCEPT ![c] = h1] \/ handler' = [handler EXCEPT ![c] = h2]
    BY <1>6 DEF Read, HandlerGoesTo
  <2> HIDE DEF h1, h2
  <2> QED
    BY <1>1, <2>1, <2>2, <2>3 DEF Running
<1>7. CASE Insert(c)
  <2> DEFINE row == [by |-> c, began |-> handler[c].began, at |-> handler[c].at]
             h == [Idle EXCEPT !.pc = "answered", !.row = row]
  <2>1. h.pc = "answered" /\ h.row = row /\ row.at = handler[c].at
    BY DEF Idle
  <2>2. /\ handler[c].pc = "insert" /\ rows' = rows \cup {row}
        /\ handler' = [handler EXCEPT ![c] = h]
    BY <1>7 DEF Insert, HandlerGoesTo
  <2> HIDE DEF h, row
  <2> QED
    BY <1>1, <1>2, <2>1, <2>2 DEF Running
<1>8. CASE ReadBuckets(c)
  BY <1>1, <1>2, <1>8 DEF ReadBuckets, HandlerGoesTo, Idle, Running
<1>9. CASE QueryFails(c)
  BY <1>1, <1>2, <1>9 DEF QueryFails, HandlerGoesTo, Idle
<1> QED
  BY <1>2, <1>4, <1>5, <1>6, <1>7, <1>8, <1>9 DEF ServerStep

LEMMA HandlerKeepsLatest ==
    ASSUME Inv, LatestInv, NEW c \in Calls, ServerStep(c)
    PROVE  LatestInv'
<1>1. /\ UNCHANGED <<faults, now, sent, phone, clean>> /\ Running(c)
      /\ \A d \in Calls \ {c} : handler'[d] = handler[d]
  BY HandlerStepIs
<1>2. /\ now \in Nat /\ \A r \in rows : r.at \in Nat /\ r.at <= now
      /\ \A d \in Calls : /\ handler[d].at \in Nat
                          /\ handler[d].pc = "insert" => handler[d].at <= now
  BY ValuesAre DEF LatestInv, TimesPast
<1>3. \A d \in Calls : (Active(d)' <=> Active(d)) /\ (Scores(d)' <=> Scores(d))
  BY <1>1 DEF Active, Scores, Waiting
<1>4. ToldIsAnswered'
  BY <1>1 DEF LatestInv, ToldIsAnswered, Running
<1>5. TimesPast'
  BY <1>1, <1>2, HandlerStepIs DEF TimesPast
<1>6. CleanIsAlone'
  BY <1>1, <1>3 DEF LatestInv, CleanIsAlone, Loose, Running
<1>7. ASSUME "overlap" \notin faults PROVE InTurn'
  <2>1. OneAtATime /\ ComputedIsNewest /\ AnswerIsLatest /\ ShownIsLatest
    BY <1>7 DEF LatestInv, InTurn
  <2>2. OneAtATime'
    BY <1>1, <1>3, <2>1 DEF OneAtATime, Waiting
  <2>3. clean # {} /\ Scores(c) => Active(c) /\ \A d \in Calls \ {c} : ~Active(d) /\ handler[d].pc # "insert"
    <3> SUFFICES ASSUME clean # {}, Scores(c)
                 PROVE  Active(c) /\ \A d \in Calls \ {c} : ~Active(d) /\ handler[d].pc # "insert"
      OBVIOUS
    <3>1. Active(c)
      BY <1>1, WorkingIsActive DEF LatestInv, CleanIsAlone
    <3>2. \A d \in Calls \ {c} : ~Active(d)
      BY <2>1, <3>1 DEF OneAtATime
    <3>3. ASSUME NEW d \in Calls, handler[d].pc = "insert" PROVE Active(d)
      <4>1. Running(d) /\ Scores(d)
        BY <3>3 DEF Running, Inv, PlacesFit
      <4> QED
        BY <4>1, WorkingIsActive DEF LatestInv, CleanIsAlone
    <3> QED
      BY <3>1, <3>2, <3>3
  <2>4. ComputedIsNewest'
    BY <1>1, <1>2, <2>1, <2>3, HandlerStepIs DEF ComputedIsNewest
  <2>5. AnswerIsLatest'
    <3> SUFFICES ASSUME clean # {}, NEW d \in Calls, Active(d), handler'[d].pc = "answered"
                 PROVE  handler'[d].row \in Latest'
      BY <1>1, <1>3 DEF AnswerIsLatest
    <3>1. CASE rows' = rows
      <4>1. Latest' = Latest
        BY <3>1 DEF Latest
      <4>2. CASE d # c
        BY <1>1, <2>1, <4>1, <4>2 DEF AnswerIsLatest
      <4>3. CASE d = c
        <5>1. Scores(c) /\ handler'[c].pc = "answered" /\ handler[c].pc # "answered"
          BY <1>1, <4>3 DEF Active, Running
        <5>2. \/ handler'[c].row \in Latest
              \/ handler[c].pc = "insert" /\ rows' = rows \cup {handler'[c].row}
                 /\ handler'[c].row.at = handler[c].at
          BY <5>1, HandlerStepIs
        <5>3. \A r \in rows : handler[c].pc = "insert" => r.at <= handler[c].at
          BY <2>1 DEF ComputedIsNewest
        <5> QED
          BY <1>2, <3>1, <4>1, <4>3, <5>2, <5>3 DEF Latest
      <4> QED
        BY <4>2, <4>3
    <3>2. CASE /\ handler[c].pc = "insert" /\ Scores(c)
               /\ rows' = rows \cup {handler'[c].row} /\ handler'[c].row.at = handler[c].at
      <4>1. d = c
        BY <2>3, <3>2
      <4>2. \A r \in rows : r.at <= handler[c].at
        BY <2>1, <3>2 DEF ComputedIsNewest
      <4> QED
        BY <1>2, <3>2, <4>1, <4>2 DEF Latest
    <3> QED
      BY <3>1, <3>2, HandlerStepIs
  <2>6. ShownIsLatest'
    <3> SUFFICES ASSUME phone.score # None, phone.score.call \in clean,
                        \A d \in Calls : Active(d) => handler'[d].pc # "answered"
                 PROVE  phone.score.row \in Latest'
      BY <1>1, <1>3 DEF ShownIsLatest
    <3>1. ~(Scores(c) /\ handler'[c].pc = "answered")
      BY <2>3
    <3>2. rows' = rows
      BY <3>1, HandlerStepIs
    <3>3. \A d \in Calls : Active(d) => handler[d].pc # "answered"
      BY <1>1 DEF Running
    <3> QED
      BY <2>1, <3>2, <3>3 DEF ShownIsLatest, Latest
  <2> QED
    BY <2>2, <2>4, <2>5, <2>6 DEF InTurn
<1> QED
  BY <1>1, <1>4, <1>5, <1>6, <1>7 DEF LatestInv

\* What a call that leaves does to the calls and their handlers.
LEMMA SendIs ==
    ASSUME Inv, LatestInv, NEW c \in Calls, NEW op, NEW days, NEW ended, Send(c, op, days, ended)
    PROVE  /\ UNCHANGED <<faults, now, rows>>
           /\ sent[c].at = "off"
           /\ sent'[c].at = "waiting" /\ sent'[c].op = op /\ sent'[c].days = days
           /\ handler'[c].pc = "sent"
           /\ \A d \in Calls \ {c} :
                 /\ handler'[d] = handler[d]
                 /\ sent'[d].op = sent[d].op /\ sent'[d].days = sent[d].days
                 /\ d \in ended => sent'[d].at = "over"
                 /\ d \notin ended => sent'[d] = sent[d]
           /\ ToldIsAnswered' /\ TimesPast'
<1>1. /\ handler \in [Calls -> Handler] /\ sent \in [Calls -> Call]
      /\ sent[c].at = "off"
      /\ sent' = [d \in Calls |->
            IF d = c THEN [at |-> "waiting", op |-> op, days |-> days, since |-> now]
            ELSE IF d \in ended THEN [sent[d] EXCEPT !.at = "over"] ELSE sent[d]]
      /\ handler' = [handler EXCEPT ![c].pc = "sent"]
      /\ UNCHANGED <<faults, now, rows>>
  BY ValuesAre DEF Send
<1>2. /\ sent'[c].at = "waiting" /\ sent'[c].op = op /\ sent'[c].days = days
      /\ handler'[c].pc = "sent"
  BY <1>1 DEF Handler
<1>3. \A d \in Calls \ {c} :
         /\ handler'[d] = handler[d]
         /\ sent'[d].op = sent[d].op /\ sent'[d].days = sent[d].days
         /\ d \in ended => sent'[d].at = "over"
         /\ d \notin ended => sent'[d] = sent[d]
  BY <1>1 DEF Call
<1>4. ToldIsAnswered'
  BY <1>2, <1>3 DEF LatestInv, ToldIsAnswered
<1>5. TimesPast'
  BY <1>1, <1>2, <1>3 DEF LatestInv, TimesPast
<1> QED
  BY <1>1, <1>2, <1>3, <1>4, <1>5

\* A call is taken for clean only where nobody is left at work on the table.
LEMMA CleanWithIs ==
    ASSUME CleanIsAlone, NEW c, NEW ended, CleanWith(c, ended) # {}
    PROVE  /\ CleanWith(c, ended) = clean \cup {c}
           /\ \A d \in Calls : ~Loose(d)
           /\ \A d \in Calls : Scores(d) /\ d \in ended => handler[d].pc = "failed"
  BY DEF CleanWith, CleanIsAlone

\* The app starts, or a recalculation is asked for: no other call is active then.
LEMMA ScoreCallKeepsLatest ==
    ASSUME Inv, LatestInv, NEW c \in Calls, NEW op \in {"score", "refresh"}, NEW ended,
           Send(c, op, None, ended), clean' = CleanWith(c, ended),
           op = "score" => phone'.loading,
           phone'.score # None => phone'.score = phone.score,
           "overlap" \notin faults =>
              /\ \A d \in Calls : Active(d) => d \in ended
              /\ \A d \in Calls : Active(d) => phone'.score = None
              /\ \A d \in Calls : Active(d) /\ sent[d].op = "score" => phone'.loading
    PROVE  LatestInv'
<1>1. /\ UNCHANGED <<faults, now, rows>>
      /\ sent[c].at = "off" /\ sent'[c].at = "waiting" /\ sent'[c].op = op /\ handler'[c].pc = "sent"
      /\ \A d \in Calls \ {c} :
            /\ handler'[d] = handler[d]
            /\ sent'[d].op = sent[d].op
            /\ d \in ended => sent'[d].at = "over"
            /\ d \notin ended => sent'[d] = sent[d]
      /\ ToldIsAnswered' /\ TimesPast'
  BY SendIs
<1>2. clean' # {} => /\ clean' = clean \cup {c}
                     /\ \A d \in Calls : ~Loose(d)
                     /\ \A d \in Calls : Scores(d) /\ d \in ended => handler[d].pc = "failed"
  BY CleanWithIs DEF LatestInv
<1>3. CleanIsAlone'
  <2> SUFFICES ASSUME clean' # {}, NEW d \in Calls, Loose(d)' PROVE FALSE
    BY DEF CleanIsAlone
  <2>1. d # c /\ Scores(d) /\ Running(d) /\ sent'[d].at = "over"
    BY <1>1 DEF Loose, Scores, Running
  <2> QED
    BY <1>1, <1>2, <2>1 DEF Loose, Running
<1>4. ASSUME "overlap" \notin faults PROVE InTurn'
  <2>1. \A d \in Calls \ {c} : ~Active(d)'
    <3> SUFFICES ASSUME NEW d \in Calls \ {c}, Active(d)' PROVE FALSE
      OBVIOUS
    <3>1. d \notin ended
      BY <1>1 DEF Active, Waiting
    <3>2. Active(d)
      BY <1>1, <3>1 DEF Active, Waiting, Scores
    <3> QED
      BY <1>4, <3>1, <3>2
  <2>2. OneAtATime'
    <3>1. \A d \in Calls : Waiting(d)' /\ sent'[d].op = "score" => phone'.loading
      BY <1>1, <2>1 DEF Active, Scores
    <3> QED
      BY <2>1, <3>1 DEF OneAtATime
  <2>3. ComputedIsNewest'
    <3> SUFFICES ASSUME clean' # {}, NEW d \in Calls, handler'[d].pc = "insert" PROVE FALSE
      BY DEF ComputedIsNewest
    <3>1. d # c /\ handler[d].pc = "insert"
      BY <1>1
    <3>2. Scores(d) /\ Running(d)
      BY <3>1 DEF Inv, PlacesFit, Running
    <3>3. Active(d)
      BY <1>2, <3>2, WorkingIsActive DEF LatestInv
    <3> QED
      BY <1>2, <1>4, <3>1, <3>2, <3>3
  <2>4. AnswerIsLatest'
    BY <1>1, <2>1 DEF AnswerIsLatest
  <2>5. ShownIsLatest'
    <3> SUFFICES ASSUME phone'.score # None, phone'.score.call \in clean'
                 PROVE  phone'.score.row \in Latest'
      BY DEF ShownIsLatest
    <3>1. phone'.score = phone.score /\ phone.score # None
      OBVIOUS
    <3>2. phone.score.call # c /\ clean' = clean \cup {c}
      BY <1>1, <1>2, <3>1 DEF Inv, ShownFits
    <3>3. \A d \in Calls : ~Active(d)
      BY <1>4
    <3>4. phone.score.row \in Latest
      BY <1>4, <3>1, <3>2, <3>3 DEF LatestInv, InTurn, ShownIsLatest
    <3> QED
      BY <1>1, <3>1, <3>4 DEF Latest
  <2> QED
    BY <2>2, <2>3, <2>4, <2>5 DEF InTurn
<1> QED
  BY <1>1, <1>3, <1>4 DEF LatestInv

\* A step that leaves the table, the handlers and the active calls as they are.
LEMMA LatestStays ==
    ASSUME Inv, LatestInv, UNCHANGED <<faults, now, rows, clean>>,
           ToldIsAnswered', TimesPast', CleanIsAlone',
           \A d \in Calls : Active(d)' <=> Active(d),
           \A d \in Calls : Waiting(d)' /\ sent'[d].op = "score" => Waiting(d) /\ sent[d].op = "score",
           \A d \in Calls : handler'[d] = handler[d] \/ handler'[d].pc = "sent",
           \A d \in Calls : handler[d].pc = "answered" => handler'[d] = handler[d],
           phone'.score = phone.score, phone'.loading = phone.loading
    PROVE  LatestInv'
<1> SUFFICES ASSUME "overlap" \notin faults PROVE InTurn'
  BY DEF LatestInv
<1>1. OneAtATime /\ ComputedIsNewest /\ AnswerIsLatest /\ ShownIsLatest /\ Latest' = Latest
  BY DEF LatestInv, InTurn, Latest
<1>2. OneAtATime'
  BY <1>1 DEF OneAtATime
<1>3. ComputedIsNewest'
  BY <1>1 DEF ComputedIsNewest
<1>4. AnswerIsLatest'
  BY <1>1 DEF AnswerIsLatest
<1>5. ShownIsLatest'
  BY <1>1 DEF ShownIsLatest
<1> QED
  BY <1>2, <1>3, <1>4, <1>5 DEF InTurn

LEMMA ChooseKeepsLatest ==
    ASSUME Inv, LatestInv, NEW c \in Calls, NEW days \in Windows, ChooseWindow(c, days)
    PROVE  LatestInv'
<1>1. /\ Send(c, "trend", days, {}) /\ clean' = clean
      /\ phone'.score = phone.score /\ phone'.loading = phone.loading
  BY ValuesAre DEF ChooseWindow, Phone
<1>2. /\ UNCHANGED <<faults, now, rows>> /\ sent[c].at = "off"
      /\ sent'[c].at = "waiting" /\ sent'[c].op = "trend" /\ handler'[c].pc = "sent"
      /\ \A d \in Calls \ {c} : handler'[d] = handler[d] /\ sent'[d] = sent[d]
      /\ ToldIsAnswered' /\ TimesPast'
  BY <1>1, SendIs
<1>3. \A d \in Calls : Active(d)' <=> Active(d)
  BY <1>2 DEF Active, Scores, Waiting
<1>4. CleanIsAlone'
  BY <1>1, <1>2 DEF LatestInv, CleanIsAlone, Loose, Scores, Running
<1>5. \A d \in Calls : Waiting(d)' /\ sent'[d].op = "score" => Waiting(d) /\ sent[d].op = "score"
  BY <1>2 DEF Waiting
<1>6. handler[c].pc # "answered"
  BY <1>2 DEF Inv, PlacesFit
<1> QED
  BY <1>1, <1>2, <1>3, <1>4, <1>5, <1>6, LatestStays

LEMMA FulfilledKeepsLatest ==
    ASSUME Inv, LatestInv, NEW c \in Calls, ScoreFulfilled(c) \/ RefreshFulfilled(c)
    PROVE  LatestInv'
<1>1. /\ Active(c) /\ handler[c].pc = "answered"
      /\ sent' = [sent EXCEPT ![c].at = "told"]
      /\ UNCHANGED <<faults, now, rows, handler, clean>>
      /\ phone'.score = Shown(c)
  BY ValuesAre DEF ScoreFulfilled, RefreshFulfilled, Answered, Active, Scores, Phone
<1>2. /\ sent'[c].at = "told" /\ sent'[c].op = sent[c].op
      /\ \A d \in Calls \ {c} : sent'[d] = sent[d]
  BY <1>1, ValuesAre DEF Call
<1>3. ToldIsAnswered' /\ TimesPast'
  BY <1>1, <1>2 DEF LatestInv, ToldIsAnswered, TimesPast
<1>4. CleanIsAlone'
  BY <1>1, <1>2 DEF LatestInv, CleanIsAlone, Loose, Scores, Running
<1>5. ASSUME "overlap" \notin faults PROVE InTurn'
  <2>1. OneAtATime /\ ComputedIsNewest /\ AnswerIsLatest /\ Latest' = Latest
    BY <1>1, <1>5 DEF LatestInv, InTurn, Latest
  <2>2. \A d \in Calls : ~Active(d)'
    BY <1>1, <1>2, <2>1 DEF OneAtATime, Active, Scores, Waiting
  <2>3. OneAtATime'
    BY <2>2 DEF OneAtATime, Active, Scores
  <2>4. ComputedIsNewest'
    BY <1>1, <2>1 DEF ComputedIsNewest
  <2>5. AnswerIsLatest'
    BY <2>2 DEF AnswerIsLatest
  <2>6. ShownIsLatest'
    BY <1>1, <2>1 DEF ShownIsLatest, AnswerIsLatest, Shown
  <2> QED
    BY <2>3, <2>4, <2>5, <2>6 DEF InTurn
<1> QED
  BY <1>1, <1>3, <1>4, <1>5 DEF LatestInv

LEMMA TrendKeepsLatest ==
    ASSUME Inv, LatestInv, NEW c \in Calls, TrendFulfilled(c)
    PROVE  LatestInv'
<1>1. /\ sent[c].op = "trend" /\ handler[c].pc = "answered"
      /\ sent' = [sent EXCEPT ![c].at = "told"]
      /\ UNCHANGED <<faults, now, rows, handler, clean>>
      /\ phone'.score = phone.score /\ phone'.loading = phone.loading
  BY ValuesAre DEF TrendFulfilled, Answered, Phone
<1>2. /\ sent'[c].at = "told" /\ sent'[c].op = "trend"
      /\ \A d \in Calls \ {c} : sent'[d] = sent[d]
  BY <1>1, ValuesAre DEF Call
<1>3. ToldIsAnswered' /\ TimesPast'
  BY <1>1, <1>2 DEF LatestInv, ToldIsAnswered, TimesPast
<1>4. CleanIsAlone'
  BY <1>1, <1>2 DEF LatestInv, CleanIsAlone, Loose, Scores, Running
<1>5. \A d \in Calls : Active(d)' <=> Active(d)
  BY <1>1, <1>2 DEF Active, Scores, Waiting
<1>6. \A d \in Calls : Waiting(d)' /\ sent'[d].op = "score" => Waiting(d) /\ sent[d].op = "score"
  BY <1>2 DEF Waiting
<1> QED
  BY <1>1, <1>3, <1>4, <1>5, <1>6, LatestStays

LEMMA RejectedKeepsLatest ==
    ASSUME Inv, LatestInv, NEW c \in Calls, Rejected(c)
    PROVE  LatestInv'
<1>1. /\ Waiting(c)
      /\ sent' = [sent EXCEPT ![c].at = "over"]
      /\ UNCHANGED <<faults, now, rows, handler>>
      /\ phone'.score = phone.score
      /\ sent[c].op # "score" => phone'.loading = phone.loading
      /\ clean' # {} => clean' = clean /\ (Scores(c) => handler[c].pc = "failed")
  BY ValuesAre DEF Rejected, Phone
<1>2. /\ sent'[c].at = "over" /\ sent'[c].op = sent[c].op
      /\ \A d \in Calls \ {c} : sent'[d] = sent[d]
  BY <1>1, ValuesAre DEF Call
<1>3. ToldIsAnswered' /\ TimesPast'
  BY <1>1, <1>2 DEF LatestInv, ToldIsAnswered, TimesPast
<1>4. CleanIsAlone'
  BY <1>1, <1>2 DEF LatestInv, CleanIsAlone, Loose, Scores, Running
<1>5. ASSUME "overlap" \notin faults PROVE InTurn'
  <2>1. OneAtATime /\ ComputedIsNewest /\ AnswerIsLatest /\ ShownIsLatest /\ Latest' = Latest
    BY <1>1, <1>5 DEF LatestInv, InTurn, Latest
  <2>2. \A d \in Calls : Active(d)' <=> Active(d) /\ d # c
    BY <1>2 DEF Active, Scores, Waiting
  <2>3. OneAtATime'
    <3>1. ASSUME NEW d \in Calls, Waiting(d)', sent'[d].op = "score" PROVE phone'.loading
      <4>1. d # c /\ Waiting(d) /\ sent[d].op = "score"
        BY <1>2, <3>1 DEF Waiting
      <4>2. sent[c].op # "score"
        BY <1>1, <2>1, <4>1 DEF OneAtATime, Active, Scores
      <4> QED
        BY <1>1, <2>1, <4>1, <4>2 DEF OneAtATime
    <3> QED
      BY <2>1, <2>2, <3>1 DEF OneAtATime
  <2>4. ComputedIsNewest'
    BY <1>1, <2>1 DEF ComputedIsNewest
  <2>5. AnswerIsLatest'
    BY <1>1, <2>1, <2>2 DEF AnswerIsLatest
  <2>6. ShownIsLatest'
    <3> SUFFICES ASSUME phone'.score # None, phone'.score.call \in clean',
                        \A d \in Calls : Active(d)' => handler'[d].pc # "answered"
                 PROVE  phone'.score.row \in Latest'
      BY DEF ShownIsLatest
    <3>1. \A d \in Calls : Active(d) => handler[d].pc # "answered"
      BY <1>1, <2>2 DEF Active
    <3> QED
      BY <1>1, <2>1, <3>1 DEF ShownIsLatest
  <2> QED
    BY <2>3, <2>4, <2>5, <2>6 DEF InTurn
<1> QED
  BY <1>1, <1>3, <1>4, <1>5 DEF LatestInv

LEMMA StepKeepsLatest == Inv /\ LatestInv /\ [Next]_vars => LatestInv'
<1> SUFFICES ASSUME Inv, LatestInv, [Next]_vars PROVE LatestInv'
  OBVIOUS
<1>1. ASSUME now' = now \/ now' = now + 1, UNCHANGED <<faults, rows, handler, sent, phone, clean>>
      PROVE  LatestInv'
  <2>1. ToldIsAnswered' /\ CleanIsAlone'
    BY <1>1 DEF LatestInv, ToldIsAnswered, CleanIsAlone, Loose, Scores, Running
  <2>2. TimesPast'
    <3>1. /\ now \in Nat /\ \A r \in rows : r.at \in Nat /\ r.at <= now
          /\ \A c \in Calls : handler[c].at \in Nat /\ (handler[c].pc = "insert" => handler[c].at <= now)
      BY ValuesAre DEF LatestInv, TimesPast
    <3> QED
      BY <1>1, <3>1 DEF TimesPast
  <2>3. InTurn => InTurn'
    BY <1>1 DEF InTurn, OneAtATime, ComputedIsNewest, AnswerIsLatest, ShownIsLatest,
                Latest, Active, Scores, Waiting
  <2> QED
    BY <1>1, <2>1, <2>2, <2>3 DEF LatestInv
<1>2. ASSUME NEW c \in Calls, Launch(c) PROVE LatestInv'
  <2> DEFINE ended == {d \in Calls : Waiting(d)}
  <2>1. /\ Send(c, "score", None, ended) /\ clean' = CleanWith(c, ended)
        /\ phone'.loading /\ phone'.score = None
    BY <1>2 DEF Launch, Fresh
  <2>2. \A d \in Calls : Active(d) => d \in ended
    BY DEF Active
  <2> HIDE DEF ended
  <2> QED
    BY <2>1, <2>2, ScoreCallKeepsLatest
<1>3. ASSUME NEW c \in Calls, Recalculate(c) PROVE LatestInv'
  <2>1. /\ Send(c, "refresh", None, {}) /\ clean' = CleanWith(c, {})
        /\ phone' = phone /\ ~phone.loading
    BY <1>3 DEF Recalculate
  <2>2. "overlap" \notin faults => \A d \in Calls : ~Active(d)
    BY <1>3 DEF Recalculate, Active, Scores, LatestInv, InTurn, OneAtATime
  <2> QED
    BY <2>1, <2>2, ScoreCallKeepsLatest
<1> QED
  BY <1>1, <1>2, <1>3, ChooseKeepsLatest, HandlerKeepsLatest, FulfilledKeepsLatest,
     TrendKeepsLatest, RejectedKeepsLatest
     DEF Next, UserStep, CallEnds, Tick, vars

(***************************************************************************)
(* A user who awaits each answer sees the latest row of the table once     *)
(* nothing is under way, for any number of calls, kills, lost answers and  *)
(* failing queries, as long as no call that was given up may have stored a *)
(* row behind his back (DashboardScreen.tsx, analytics.slice.ts).          *)
(***************************************************************************)
THEOREM LatestRowIsShown == Spec => []ShownIsLatestRow
<1>1. Init => LatestInv
  BY BoundsAssumption
     DEF Init, LatestInv, ToldIsAnswered, TimesPast, CleanIsAlone, InTurn, OneAtATime,
         ComputedIsNewest, AnswerIsLatest, ShownIsLatest, Active, Waiting, Scores, Loose,
         Fresh, Idle, Unsent, Latest
<1>2. LatestInv => ShownIsLatestRow
  BY DEF LatestInv, InTurn, ShownIsLatest, ShownIsLatestRow, Active
<1> QED
  BY <1>1, <1>2, StepKeepsLatest, InvHolds, PTL DEF Spec

----------------------------------------------------------------------------
\* Calls are sent in turn; the newest fetch of a trend is of the chosen window while
\* it is awaited, and unless it was lost it has been shown, or will be.
TrendInv ==
    /\ \A c, d \in Calls : c < d /\ sent[d].at # "off" => sent[c].at # "off"
    /\ \A c \in Calls : Newest(c) /\ Waiting(c) => sent[c].days = phone.days
    /\ ~trendLost => \/ phone.trend = phone.days
                     \/ \E c \in Calls : Newest(c) /\ Waiting(c)
    /\ (\E c \in Calls : FetchesTrend(c)) => \E c \in Calls : Newest(c)

\* Newest looks at which calls were sent, and what they ask.
LEMMA NewestStays ==
    ASSUME Inv, \A d \in Calls : FetchesTrend(d)' = FetchesTrend(d)
    PROVE  \A d \in Calls : Newest(d)' = Newest(d)
BY Zenon DEF Newest

\* A call ends: those sent, and what they ask, are as before.
LEMMA EndKeepsNewest ==
    ASSUME Inv, NEW c \in Calls, Waiting(c), NEW at \in {"told", "over"},
           sent' = [sent EXCEPT ![c].at = at]
    PROVE  /\ ~Waiting(c)'
           /\ \A d \in Calls \ {c} : Waiting(d)' = Waiting(d)
           /\ \A d \in Calls : /\ sent'[d].days = sent[d].days
                               /\ (sent'[d].at = "off") = (sent[d].at = "off")
                               /\ Newest(d)' = Newest(d)
                               /\ FetchesTrend(d)' = FetchesTrend(d)
<1>1. /\ sent'[c].at = at /\ sent'[c].op = sent[c].op /\ sent'[c].days = sent[c].days
      /\ \A d \in Calls \ {c} : sent'[d] = sent[d]
  BY ValuesAre DEF Call
<1>2. \A d \in Calls : FetchesTrend(d)' = FetchesTrend(d)
  BY <1>1 DEF FetchesTrend, Waiting
<1>3. \A d \in Calls : Newest(d)' = Newest(d)
  BY <1>2, NewestStays
<1> QED
  BY <1>1, <1>2, <1>3 DEF Waiting

LEMMA StepKeepsTrend == Inv /\ LatestInv /\ TrendInv /\ [Next]_vars => TrendInv'
<1> SUFFICES ASSUME Inv, LatestInv, TrendInv, [Next]_vars PROVE TrendInv'
  OBVIOUS
<1>1. /\ \A c, d \in Calls : c < d /\ sent[d].at # "off" => sent[c].at # "off"
      /\ \A c \in Calls : Newest(c) /\ Waiting(c) => sent[c].days = phone.days
      /\ ~trendLost => \/ phone.trend = phone.days
                       \/ \E c \in Calls : Newest(c) /\ Waiting(c)
      /\ (\E c \in Calls : FetchesTrend(c)) => \E c \in Calls : Newest(c)
  BY DEF TrendInv
<1>2. ASSUME UNCHANGED <<sent, phone, trendLost>> PROVE TrendInv'
  BY <1>2 DEF TrendInv, Newest, FetchesTrend, Waiting
<1>s. ASSUME NEW c \in Calls, NEW op, NEW days, NEW ended, Send(c, op, days, ended),
             \A d \in Calls : d \in ended => Waiting(d)
      PROVE  /\ \A b, d \in Calls : b < d /\ sent'[d].at # "off" => sent'[b].at # "off"
             /\ \A d \in Calls \ {c} : FetchesTrend(d)' = FetchesTrend(d)
             /\ FetchesTrend(c)' = (op = "trend") /\ ~FetchesTrend(c)
             /\ \A d \in Calls : FetchesTrend(d) => d <= c
  <2>1. sent[c].at = "off" /\ \A d \in Calls : d < c => sent[d].at # "off"
    BY <1>s DEF Send
  <2>2. /\ sent'[c].at = "waiting" /\ sent'[c].op = op
        /\ \A d \in Calls \ {c} : /\ sent'[d].op = sent[d].op
                                  /\ (sent'[d].at = "off") = (sent[d].at = "off")
    BY <1>s, SendIs DEF Waiting
  <2>3. \A b, d \in Calls : b < d /\ sent'[d].at # "off" => sent'[b].at # "off"
    <3> SUFFICES ASSUME NEW b \in Calls, NEW d \in Calls, b < d, sent'[d].at # "off",
                        b # c
                 PROVE  sent'[b].at # "off"
      BY <2>2
    <3>1. d = c => sent[b].at # "off"
      BY <2>1
    <3>2. d # c => sent[b].at # "off"
      BY <1>1, <2>2
    <3> QED
      BY <2>2, <3>1, <3>2
  <2>4. \A d \in Calls \ {c} : FetchesTrend(d)' = FetchesTrend(d)
    BY <2>2 DEF FetchesTrend
  <2>5. FetchesTrend(c)' = (op = "trend") /\ ~FetchesTrend(c)
    BY <2>1, <2>2 DEF FetchesTrend
  <2>6. \A d \in Calls : FetchesTrend(d) => d <= c
    <3> SUFFICES ASSUME NEW d \in Calls, FetchesTrend(d), ~(d <= c) PROVE FALSE
      OBVIOUS
    <3>1. c < d
      BY BoundsAssumption DEF Calls
    <3> QED
      BY <1>1, <2>1, <3>1 DEF FetchesTrend
  <2> QED
    BY <2>3, <2>4, <2>5, <2>6
<1>3. ASSUME NEW c \in Calls, NEW op \in {"score", "refresh"}, NEW ended,
             Send(c, op, None, ended), \A d \in Calls : d \in ended => Waiting(d)
      PROVE  \A d \in Calls : /\ FetchesTrend(d)' = FetchesTrend(d)
                              /\ Newest(d)' = Newest(d)
  <2>1. /\ \A d \in Calls \ {c} : FetchesTrend(d)' = FetchesTrend(d)
        /\ FetchesTrend(c)' = (op = "trend") /\ ~FetchesTrend(c)
    BY <1>s, <1>3
  <2>2. ~FetchesTrend(c)'
    BY <1>3, <2>1
  <2>3. FetchesTrend(c)' = FetchesTrend(c)
    BY <2>1, <2>2 DEF FetchesTrend
  <2>4. \A d \in Calls : FetchesTrend(d)' = FetchesTrend(d)
    BY <2>1, <2>3
  <2> QED
    BY <2>4, NewestStays
<1>4. ASSUME NEW c \in Calls, Launch(c) PROVE TrendInv'
  <2> DEFINE ended == {d \in Calls : Waiting(d)}
  <2>1. Send(c, "score", None, ended) /\ phone'.trend = None /\ phone'.days = None
    BY <1>4 DEF Launch, Fresh
  <2>2. \A d \in Calls : d \in ended => Waiting(d)
    OBVIOUS
  <2>3. \A d \in Calls : d # c => ~Waiting(d)'
    <3> SUFFICES ASSUME NEW d \in Calls, d # c PROVE ~Waiting(d)'
      OBVIOUS
    <3>1. d \in ended => sent'[d].at = "over"
      BY <2>1, SendIs
    <3>2. d \notin ended => sent'[d] = sent[d] /\ ~Waiting(d)
      BY <2>1, SendIs
    <3> QED
      BY <3>1, <3>2 DEF Waiting
  <2> HIDE DEF ended
  <2>4. \A d \in Calls : /\ FetchesTrend(d)' = FetchesTrend(d)
                         /\ Newest(d)' = Newest(d)
    BY <1>3, <2>1, <2>2
  <2>5. ~Newest(c)
    BY <1>s, <2>1, <2>2 DEF Newest
  <2> QED
    BY <1>1, <1>s, <2>1, <2>2, <2>3, <2>4, <2>5 DEF TrendInv
<1>5. ASSUME NEW c \in Calls, Recalculate(c) PROVE TrendInv'
  <2>1. Send(c, "refresh", None, {}) /\ UNCHANGED <<phone, trendLost>>
    BY <1>5 DEF Recalculate
  <2>2. /\ \A d \in Calls : FetchesTrend(d)' = FetchesTrend(d) /\ Newest(d)' = Newest(d)
        /\ ~Newest(c)
        /\ \A b, d \in Calls : b < d /\ sent'[d].at # "off" => sent'[b].at # "off"
    BY <1>s, <1>3, <2>1 DEF Newest
  <2>3. \A d \in Calls \ {c} : Waiting(d)' = Waiting(d) /\ sent'[d].days = sent[d].days
    BY <2>1, SendIs DEF Waiting
  <2> QED
    BY <1>1, <2>1, <2>2, <2>3 DEF TrendInv
<1>6. ASSUME NEW c \in Calls, NEW days \in Windows, ChooseWindow(c, days) PROVE TrendInv'
  <2>1. Send(c, "trend", days, {}) /\ phone'.days = days
    BY <1>6, ValuesAre DEF ChooseWindow, Phone
  <2>2. sent'[c].days = days /\ Waiting(c)'
    BY <2>1, SendIs DEF Waiting
  <2>3. FetchesTrend(c)' /\ \A d \in Calls : FetchesTrend(d)' => d <= c
    <3>0. FetchesTrend(c)'
      BY <2>1, SendIs DEF FetchesTrend
    <3>1. /\ \A d \in Calls \ {c} : FetchesTrend(d)' = FetchesTrend(d)
          /\ \A d \in Calls : FetchesTrend(d) => d <= c
      BY <1>s, <2>1
    <3>2. c <= c
      BY BoundsAssumption DEF Calls
    <3> QED
      BY <3>0, <3>1, <3>2
  <2>4. Newest(c)' /\ \A d \in Calls : Newest(d)' => d = c
    <3>1. Newest(c)'
      BY <2>3, Zenon DEF Newest
    <3>2. ASSUME NEW d \in Calls, Newest(d)' PROVE d = c
      <4>1. c <= d /\ d <= c
        BY <2>3, <3>2, Zenon DEF Newest
      <4> QED
        BY <4>1, BoundsAssumption DEF Calls
    <3> QED
      BY <3>1, <3>2
  <2> QED
    BY <1>s, <2>1, <2>2, <2>3, <2>4 DEF TrendInv
<1>7. ASSUME NEW c \in Calls, ScoreFulfilled(c) \/ RefreshFulfilled(c) PROVE TrendInv'
  <2>1. /\ Waiting(c) /\ sent[c].op # "trend" /\ sent' = [sent EXCEPT ![c].at = "told"]
        /\ phone'.trend = phone.trend /\ phone'.days = phone.days /\ trendLost' = trendLost
    BY <1>7, ValuesAre DEF ScoreFulfilled, RefreshFulfilled, Answered, Phone
  <2>2. ~Newest(c)
    BY <2>1 DEF Newest, FetchesTrend
  <2> QED
    BY <1>1, <2>1, <2>2, EndKeepsNewest DEF TrendInv
<1>8. ASSUME NEW c \in Calls, TrendFulfilled(c) PROVE TrendInv'
  <2>1. /\ Waiting(c) /\ FetchesTrend(c) /\ sent' = [sent EXCEPT ![c].at = "told"]
        /\ phone'.trend = sent[c].days /\ phone'.days = phone.days
        /\ trendLost' = \E d \in Calls : d # c /\ Newest(d) /\ ~Waiting(d)
    BY <1>8, ValuesAre DEF TrendFulfilled, Answered, Phone, FetchesTrend, Waiting
  <2>2. PICK b \in Calls : Newest(b)
    BY <1>1, <2>1
  <2>3. CASE b = c
    <3>1. phone'.trend = phone'.days
      BY <1>1, <2>1, <2>2, <2>3
    <3> QED
      BY <1>1, <2>1, <3>1, EndKeepsNewest DEF TrendInv
  <2>4. CASE b # c
    <3>1. ~trendLost' => Newest(b)' /\ Waiting(b)'
      BY <2>1, <2>2, <2>4, EndKeepsNewest
    <3> QED
      BY <1>1, <2>1, <3>1, EndKeepsNewest DEF TrendInv
  <2> QED
    BY <2>3, <2>4
<1>9. ASSUME NEW c \in Calls, Rejected(c) PROVE TrendInv'
  <2>1. /\ Waiting(c) /\ sent' = [sent EXCEPT ![c].at = "over"]
        /\ trendLost' = (trendLost \/ Newest(c))
        /\ phone'.trend = phone.trend /\ phone'.days = phone.days
    BY <1>9, ValuesAre DEF Rejected, Phone
  <2> QED
    BY <1>1, <2>1, EndKeepsNewest DEF TrendInv
<1>10. ASSUME NEW c \in Calls, ServerStep(c) PROVE TrendInv'
  BY <1>2, <1>10, HandlerStepIs
<1> QED
  BY <1>2, <1>4, <1>5, <1>6, <1>7, <1>8, <1>9, <1>10 DEF Next, UserStep, CallEnds, Tick, vars

(***************************************************************************)
(* The chart is of the window its title names once no trend is awaited,    *)
(* for any number of fetches under way together, unless the newest one was *)
(* rejected or answered before an older one (AnalyticsScreen.tsx,          *)
(* analytics.slice.ts fetchTrend).                                         *)
(***************************************************************************)
THEOREM ChartIsOfItsTitle == Spec => []TrendIsOfChoice
<1>1. Init => LatestInv
  BY BoundsAssumption
     DEF Init, LatestInv, ToldIsAnswered, TimesPast, CleanIsAlone, InTurn, OneAtATime,
         ComputedIsNewest, AnswerIsLatest, ShownIsLatest, Active, Waiting, Scores, Loose,
         Fresh, Idle, Unsent, Latest
<1>2. Init => TrendInv
  <2> SUFFICES ASSUME Init PROVE TrendInv
    OBVIOUS
  <2>1. phone.trend = phone.days
    BY DEF Init, Fresh
  <2>2. \A c \in Calls : c # 1 => sent[c].at = "off"
    BY DEF Init, Unsent
  <2>3. \A c \in Calls : ~FetchesTrend(c)
    BY <2>2 DEF Init, Unsent, FetchesTrend
  <2>4. \A c, d \in Calls : c < d => d # 1
    BY BoundsAssumption DEF Calls
  <2> QED
    BY <2>1, <2>2, <2>3, <2>4 DEF TrendInv, Newest
<1>3. Inv /\ TrendInv => TrendIsOfChoice
  BY DEF TrendInv, TrendIsOfChoice, TrendWaiting, Newest, FetchesTrend
<1> QED
  BY <1>1, <1>2, <1>3, StepKeepsLatest, StepKeepsTrend, InvHolds, PTL DEF Spec

----------------------------------------------------------------------------
(***************************************************************************)
(* Analytics.                                                              *)
(***************************************************************************)
\* Induction on the natural numbers, as the least element of a set: what fails for
\* some n fails for a least one.
LEMMA Least ==
    ASSUME NEW T, T \subseteq Nat, T # {}
    PROVE  \E n \in T : \A m \in T : n <= m
<1> DEFINE R == {ss \in Nat \X Nat : ss[1] < ss[2]}
<1>1. R = OpToRel(<, Nat)
  BY Zenon DEF OpToRel
<1>2. IsWellFoundedOn(R, Nat)
  BY <1>1, NatLessThanWellFounded, Zenon
<1>3. \A m, n \in Nat : m < n => <<m, n>> \in R
  OBVIOUS
<1> HIDE DEF R
<1>4. PICK n \in T : \A m \in T : ~(<<m, n>> \in R)
  BY <1>2, WFMin
<1>5. ASSUME NEW m \in T PROVE n <= m
  <2>1. m \in Nat /\ n \in Nat /\ ~(m < n)
    BY <1>3, <1>4
  <2> QED
    BY <2>1
<1> QED
  BY <1>5

\* The same as a set that holds a and with every n below N the next number.
LEMMA UpTo ==
    ASSUME NEW S, NEW a \in Nat, NEW N \in Nat, a \in S,
           \A n \in a..N - 1 : n \in S => n + 1 \in S
    PROVE  \A n \in a..N : n \in S
<1> DEFINE T == {n \in a..N : n \notin S}
<1>1. T \subseteq Nat
  OBVIOUS
<1>2. \A n \in T : n - 1 \in T
  <2> SUFFICES ASSUME NEW n \in a..N, n \notin S PROVE n - 1 \in a..N /\ n - 1 \notin S
    OBVIOUS
  <2>1. n # a /\ n - 1 \in a..N - 1 /\ (n - 1) + 1 = n
    OBVIOUS
  <2> QED
    BY <2>1
<1>3. T = {}
  <2> HIDE DEF T
  <2> SUFFICES ASSUME T # {} PROVE FALSE
    OBVIOUS
  <2>1. PICK n \in T : n \in Nat /\ \A m \in T : n <= m
    BY <1>1, Least
  <2> QED
    BY <1>2, <2>1
<1> QED
  BY <1>3

----------------------------------------------------------------------------
\* The loop of buildSessions: a step for each event after the first.
LEMMA LoopIs ==
    ASSUME NEW events, NEW N \in Nat, DOMAIN events = 1..N
    PROVE  /\ 1 \in 1..N => Loop(events)[1] = Opened(events[1])
           /\ \A i \in 1..N - 1 : Loop(events)[i + 1] = Turn(Loop(events)[i], events[i + 1])
<1> DEFINE After(f, i) ==
        IF i = 1 THEN Opened(events[1]) ELSE Turn(f[i - 1], events[i])
    IsLoop(f, n) == f = [i \in 1..n |-> After(f, i)]
    S == {n \in Nat : \E f : IsLoop(f, n)}
<1>1. 0 \in S
  <2> DEFINE g == [i \in 1..0 |-> events[i]]
  <2>1. 1..0 = {}
    OBVIOUS
  <2>2. IsLoop(g, 0)
    BY <2>1, Zenon
  <2> QED
    BY <2>2
<1>2. ASSUME NEW n \in Nat, n \in S PROVE n + 1 \in S
  <2>1. PICK f : IsLoop(f, n)
    BY <1>2
  <2> DEFINE g == [i \in 1..n + 1 |-> After(f, i)]
  <2>2. ASSUME NEW i \in 1..n + 1, i # 1 PROVE g[i - 1] = f[i - 1]
    <3>1. i - 1 \in 1..n + 1 /\ i - 1 \in 1..n
      BY <2>2
    <3> HIDE DEF After
    <3>2. g[i - 1] = After(f, i - 1)
      BY <3>1, Zenon
    <3>3. f[i - 1] = After(f, i - 1)
      BY <2>1, <3>1, Zenon
    <3> QED
      BY <3>2, <3>3, Zenon
  <2>3. IsLoop(g, n + 1)
    BY <2>2, Zenon
  <2> HIDE DEF IsLoop
  <2> QED
    BY <2>3
<1>3. PICK f : IsLoop(f, N)
  <2> HIDE DEF S
  <2>1. \A n \in 0..N - 1 : n \in S => n + 1 \in S
    BY <1>2
  <2>2. \A n \in 0..N : n \in S
    BY <1>1, <2>1, UpTo
  <2>3. N \in S
    BY <2>2
  <2> QED
    BY <2>3, Zenon DEF S
<1> DEFINE L == Loop(events)
<1>4. L = CHOOSE h : h = [i \in DOMAIN events |-> After(h, i)]
  BY Zenon DEF Loop
<1> HIDE DEF L
<1>5. L = [i \in 1..N |-> After(L, i)]
  BY <1>3, <1>4, Zenon
<1>6. /\ 1 \in 1..N => L[1] = Opened(events[1])
      /\ \A i \in 1..N : i # 1 => L[i] = Turn(L[i - 1], events[i])
  BY <1>5, Zenon
<1>7. \A i \in 1..N - 1 : i + 1 \in 1..N /\ i + 1 # 1 /\ (i + 1) - 1 = i
  OBVIOUS
<1> QED
  BY <1>6, <1>7 DEF L

\* The number of runs up to event i, and the k-th start.
LEMMA StartsAre ==
    ASSUME NEW events, NEW N \in Nat \ {0}, DOMAIN events = 1..N, Len(events) = N
    PROVE  /\ Starts(events) \subseteq 1..N
           /\ 1 \in Starts(events)
           /\ \A i \in 1..N - 1 : i + 1 \in Starts(events) <=> i + 1 \in Breaks(events)
<1>1. Breaks(events) \subseteq 2..N
  BY DEF Breaks
<1> QED
  BY <1>1 DEF Starts

LEMMA RunsToIs ==
    ASSUME NEW events, NEW N \in Nat \ {0}, DOMAIN events = 1..N, Len(events) = N
    PROVE  /\ RunsTo(events, 1) = 1
           /\ \A i \in 1..N : RunsTo(events, i) \in Nat
           /\ \A i \in 1..N - 1 : RunsTo(events, i + 1) =
                 IF i + 1 \in Starts(events) THEN RunsTo(events, i) + 1
                 ELSE RunsTo(events, i)
           /\ \A i, j \in Starts(events) :
                 i < j => RunsTo(events, i) < RunsTo(events, j)
<1> DEFINE S == Starts(events)
<1>1. S \subseteq 1..N /\ 1 \in S
  BY StartsAre
<1> HIDE DEF S
<1>2. \A i : RunsTo(events, i) = Cardinality(S \cap 1..i)
  BY DEF RunsTo, S
<1>3. ASSUME NEW i \in 1..N
      PROVE  IsFiniteSet(S \cap 1..i) /\ Cardinality(S \cap 1..i) \in Nat
  <2>1. IsFiniteSet(1..i)
    BY FS_Interval
  <2>2. IsFiniteSet(S \cap 1..i)
    BY <2>1, FS_Intersection
  <2> QED
    BY <2>2, FS_CardinalityType
<1>4. RunsTo(events, 1) = 1
  <2>1. S \cap 1..1 = {1}
    BY <1>1
  <2> QED
    BY <1>2, <2>1, FS_Singleton
<1>5. ASSUME NEW i \in 1..N - 1
      PROVE  RunsTo(events, i + 1) =
                 IF i + 1 \in S THEN RunsTo(events, i) + 1 ELSE RunsTo(events, i)
  <2>1. i \in 1..N /\ i + 1 \notin S \cap 1..i
    OBVIOUS
  <2>2. CASE i + 1 \in S
    <3>1. S \cap 1..i + 1 = (S \cap 1..i) \cup {i + 1}
      BY <1>1, <2>2
    <3> DEFINE A == S \cap 1..i
    <3>2. IsFiniteSet(A) /\ i + 1 \notin A
      BY <1>3, <2>1
    <3> HIDE DEF A
    <3>3. Cardinality(A \cup {i + 1}) = Cardinality(A) + 1
      BY <3>2, FS_AddElement
    <3> QED
      BY <1>2, <2>2, <3>1, <3>3 DEF A
  <2>3. CASE i + 1 \notin S
    <3>1. S \cap 1..i + 1 = S \cap 1..i
      BY <1>1, <2>3
    <3> QED
      BY <1>2, <2>3, <3>1
  <2> QED
    BY <2>2, <2>3
<1>6. ASSUME NEW i \in S, NEW j \in S, i < j
      PROVE  RunsTo(events, i) < RunsTo(events, j)
  <2>1. i \in 1..N /\ j \in 1..N
    BY <1>1
  <2> DEFINE A == S \cap 1..i
             B == S \cap 1..j
  <2>2. j \notin A /\ A \cup {j} \subseteq B
    BY <1>1, <1>6, <2>1
  <2>3. IsFiniteSet(A) /\ IsFiniteSet(B) /\ Cardinality(A) \in Nat /\ Cardinality(B) \in Nat
    BY <1>3, <2>1
  <2> HIDE DEF A, B
  <2>4. Cardinality(A \cup {j}) = Cardinality(A) + 1
    BY <2>2, <2>3, FS_AddElement
  <2>5. Cardinality(A \cup {j}) <= Cardinality(B)
    BY <2>2, <2>3, FS_Subset
  <2>6. Cardinality(A) < Cardinality(B)
    BY <2>3, <2>4, <2>5
  <2> QED
    BY <1>2, <2>6 DEF A, B
<1> QED
  BY <1>2, <1>3, <1>4, <1>5, <1>6 DEF S

LEMMA StartIs ==
    ASSUME NEW events, NEW N \in Nat \ {0}, DOMAIN events = 1..N, Len(events) = N,
           NEW i \in Starts(events)
    PROVE  Start(events, RunsTo(events, i)) = i
<1> DEFINE S == Starts(events)
<1>1. S \subseteq 1..N /\ \A j, k \in S : j < k => RunsTo(events, j) < RunsTo(events, k)
  BY StartsAre, RunsToIs
<1>2. \A j \in S : RunsTo(events, j) \in Nat
  BY <1>1, RunsToIs
<1>3. ASSUME NEW j \in S, RunsTo(events, j) = RunsTo(events, i) PROVE j = i
  <2>1. i \in Int /\ j \in Int /\ i \in S
    BY <1>1
  <2>2. ~(i < j) /\ ~(j < i)
    BY <1>1, <1>2, <1>3, <2>1
  <2> QED
    BY <2>1, <2>2
<1> QED
  BY <1>3, Zenon DEF Start
----------------------------------------------------------------------------
\* Sequences of events in the order of recorded_at, as the table keeps them.
IsHistory(events) ==
    /\ events \in Seq(Event)
    /\ \A i, j \in DOMAIN events : i < j => events[i].at <= events[j].at

FocusSession == [startedAt : Int, endedAt : Int, interrupted : BOOLEAN]

LoopState == [start : Int, last : Int, interrupted : BOOLEAN, sessions : Seq(FocusSession)]

LEMMA EventIs ==
    ASSUME NEW events \in Seq(Event)
    PROVE  /\ Len(events) \in Nat
           /\ DOMAIN events = 1..Len(events)
           /\ \A i \in 1..Len(events) : events[i] \in Event /\ events[i].at \in Nat
<1>1. \A ev \in Event : ev.at \in Nat
  BY TimesAssumption DEF Event
<1> QED
  BY <1>1

\* The session an event closes.
ClosedBy(loop, ev) ==
    [startedAt   |-> loop.start,
     endedAt     |-> loop.last,
     interrupted |-> (loop.interrupted \/ ev.type = "interruption")]

LEMMA ClosedByIs ==
    ASSUME NEW loop \in LoopState, NEW ev
    PROVE  /\ ClosedBy(loop, ev) \in FocusSession
           /\ ClosedBy(loop, ev).startedAt = loop.start
           /\ ClosedBy(loop, ev).endedAt = loop.last
           /\ ClosedBy(loop, ev).interrupted <=>
                 loop.interrupted \/ ev.type = "interruption"
<1>1. loop.start \in Int /\ loop.last \in Int
  BY DEF LoopState
<1> QED
  BY <1>1, Zenon DEF ClosedBy, FocusSession

\* One turn, field by field.
LEMMA TurnIs ==
    ASSUME NEW loop \in LoopState, NEW ev \in Event
    PROVE  /\ Turn(loop, ev) \in LoopState
           /\ Turn(loop, ev).last = ev.at
           /\ ~(ev.at - loop.last > Gap \/ ev.type = "task_paused") =>
                 /\ Turn(loop, ev).start = loop.start
                 /\ Turn(loop, ev).sessions = loop.sessions
                 /\ Turn(loop, ev).interrupted <=>
                       loop.interrupted \/ ev.type = "interruption"
           /\ ev.at - loop.last > Gap \/ ev.type = "task_paused" =>
                 /\ Turn(loop, ev).start = ev.at
                 /\ Turn(loop, ev).interrupted = FALSE
                 /\ Turn(loop, ev).sessions = Append(loop.sessions, ClosedBy(loop, ev))
<1>1. ev.at \in Nat
  BY TimesAssumption DEF Event
<1>2. /\ loop.start \in Int /\ loop.last \in Int /\ loop.interrupted \in BOOLEAN
      /\ loop.sessions \in Seq(FocusSession)
  BY DEF LoopState
<1> DEFINE hit == [loop EXCEPT !.interrupted = @ \/ ev.type = "interruption"]
<1>3. /\ hit \in LoopState
      /\ hit.start = loop.start /\ hit.last = loop.last /\ hit.sessions = loop.sessions
      /\ hit.interrupted <=> loop.interrupted \/ ev.type = "interruption"
  BY <1>2, Zenon DEF LoopState
<1>0. Session(hit) = ClosedBy(loop, ev)
  BY <1>2, Zenon DEF Session, ClosedBy, LoopState
<1> HIDE DEF hit
<1>4. CASE ~(ev.at - loop.last > Gap \/ ev.type = "task_paused")
  <2>1. Turn(loop, ev) = [hit EXCEPT !.last = ev.at]
    BY <1>4 DEF Turn, hit
  <2> QED
    BY <1>1, <1>3, <1>4, <2>1 DEF LoopState
<1>5. CASE ev.at - loop.last > Gap \/ ev.type = "task_paused"
  <2>1. Turn(loop, ev) =
            [start |-> ev.at, last |-> ev.at, interrupted |-> FALSE,
             sessions |-> Append(loop.sessions, Session(hit))]
    BY <1>5, Zenon DEF Turn, hit
  <2>2. Session(hit) \in FocusSession
    BY <1>0, ClosedByIs
  <2>3. Append(loop.sessions, Session(hit)) \in Seq(FocusSession)
    BY <1>2, <2>2
  <2>4. Turn(loop, ev) \in LoopState
    BY <1>1, <2>1, <2>3 DEF LoopState
  <2> QED
    BY <1>0, <1>5, <2>1, <2>4
<1> QED
  BY <1>4, <1>5

\* What the loop knows after event i: the run it is in, and the runs before it.
LoopHas(events, i) ==
    LET loop  == Loop(events)[i]
        run   == RunsTo(events, i)
        begin == Start(events, run)
    IN  /\ loop \in LoopState
        /\ run \in Nat \ {0} /\ begin \in 1..i
        /\ loop.start = events[begin].at
        /\ loop.last = events[i].at
        /\ loop.interrupted <=> \E k \in begin + 1..i : events[k].type = "interruption"
        /\ Len(loop.sessions) = run - 1
        /\ \A k \in 1..run - 1 : loop.sessions[k] =
              RunSession(events, Start(events, k), Start(events, k + 1) - 1)

\* Sessions are equal when their fields are.
LEMMA SessionIs ==
    ASSUME NEW s \in FocusSession, NEW events \in Seq(Event), NEW i, NEW j,
           s.startedAt = events[i].at, s.endedAt = events[j].at,
           s.interrupted <=> \E k \in i + 1..j + 1 :
                k <= Len(events) /\ events[k].type = "interruption"
    PROVE  s = RunSession(events, i, j)
<1> DEFINE hit == \E k \in i + 1..j + 1 : k <= Len(events) /\ events[k].type = "interruption"
<1>1. RunSession(events, i, j) =
          [startedAt |-> events[i].at, endedAt |-> events[j].at, interrupted |-> hit]
  BY DEF RunSession
<1>2. hit \in BOOLEAN
  OBVIOUS
<1> HIDE DEF hit
<1>3. s.interrupted = hit
  BY <1>2 DEF FocusSession, hit
<1>4. s = [startedAt |-> s.startedAt, endedAt |-> s.endedAt, interrupted |-> s.interrupted]
  BY DEF FocusSession
<1> QED
  BY <1>1, <1>3, <1>4

LEMMA LoopHasRuns ==
    ASSUME NEW events \in Seq(Event), Len(events) # 0
    PROVE  \A i \in 1..Len(events) : LoopHas(events, i)
<1> DEFINE N == Len(events)
<1>1. /\ N \in Nat \ {0} /\ DOMAIN events = 1..N /\ Len(events) = N
      /\ \A i \in 1..N : events[i] \in Event /\ events[i].at \in Nat
  BY EventIs
<1> HIDE DEF N
<1>2. /\ Loop(events)[1] = Opened(events[1])
      /\ \A i \in 1..N - 1 : Loop(events)[i + 1] = Turn(Loop(events)[i], events[i + 1])
  BY <1>1, LoopIs
<1>3. LoopHas(events, 1)
  <2>1. RunsTo(events, 1) = 1 /\ Start(events, 1) = 1
    BY <1>1, StartsAre, RunsToIs, StartIs
  <2>2. Opened(events[1]) \in LoopState
    <3>1. <<>> \in Seq(FocusSession) /\ events[1].at \in Int
      BY <1>1
    <3> QED
      BY <3>1 DEF Opened, LoopState
  <2>3. /\ Opened(events[1]).start = events[1].at
        /\ Opened(events[1]).last = events[1].at
        /\ Opened(events[1]).interrupted = FALSE
        /\ Len(Opened(events[1]).sessions) = 0
    BY DEF Opened
  <2> QED
    BY <1>2, <2>1, <2>2, <2>3 DEF LoopHas
<1>4. ASSUME NEW i \in 1..N - 1, LoopHas(events, i) PROVE LoopHas(events, i + 1)
  <2> DEFINE loop  == Loop(events)[i]
             next  == Loop(events)[i + 1]
             run   == RunsTo(events, i)
             begin == Start(events, run)
             ev    == events[i + 1]
  <2>1. /\ loop \in LoopState
        /\ run \in Nat \ {0} /\ begin \in 1..i
        /\ loop.start = events[begin].at
        /\ loop.last = events[i].at
        /\ loop.interrupted <=> \E k \in begin + 1..i : events[k].type = "interruption"
        /\ Len(loop.sessions) = run - 1
        /\ \A k \in 1..run - 1 : loop.sessions[k] =
              RunSession(events, Start(events, k), Start(events, k + 1) - 1)
    BY <1>4 DEF LoopHas
  <2>2. next = Turn(loop, ev) /\ i \in 1..N /\ i + 1 \in 1..N /\ ev \in Event
    BY <1>1, <1>2
  <2>3. i + 1 \in Starts(events) <=> ev.at - loop.last > Gap \/ ev.type = "task_paused"
    <3>1. i + 1 \in Starts(events) <=> i + 1 \in Breaks(events)
      BY <1>1, StartsAre
    <3>2. i + 1 \in 2..Len(events) /\ (i + 1) - 1 = i
      BY <1>1
    <3> QED
      BY <2>1, <3>1, <3>2 DEF Breaks
  <2>4. /\ next \in LoopState
        /\ next.last = ev.at
        /\ ~(ev.at - loop.last > Gap \/ ev.type = "task_paused") =>
              /\ next.start = loop.start /\ next.sessions = loop.sessions
              /\ next.interrupted <=> loop.interrupted \/ ev.type = "interruption"
        /\ ev.at - loop.last > Gap \/ ev.type = "task_paused" =>
              /\ next.start = ev.at /\ next.interrupted = FALSE
              /\ next.sessions = Append(loop.sessions, ClosedBy(loop, ev))
    <3> HIDE DEF loop, next, ev
    <3>1. loop \in LoopState /\ ev \in Event /\ next = Turn(loop, ev)
      BY <2>1, <2>2
    <3> QED
      BY <3>1, TurnIs
  <2>5. loop.interrupted \/ ev.type = "interruption" <=>
            \E k \in begin + 1..i + 1 : events[k].type = "interruption"
    BY <2>1
  <2>6. CASE i + 1 \notin Starts(events)
    <3>1. RunsTo(events, i + 1) = run
      BY <1>1, <2>6, RunsToIs
    <3>2. /\ next.start = loop.start /\ next.sessions = loop.sessions
          /\ next.interrupted <=> loop.interrupted \/ ev.type = "interruption"
      BY <2>3, <2>4, <2>6, Zenon
    <3>3. begin \in 1..i + 1
      BY <2>1
    <3> HIDE DEF loop, next, run, begin, ev
    <3> QED
      BY <2>1, <2>4, <2>5, <3>1, <3>2, <3>3 DEF LoopHas, next, run, begin, ev
  <2>7. CASE i + 1 \in Starts(events)
    <3>1. RunsTo(events, i + 1) = run + 1 /\ Start(events, run + 1) = i + 1
      BY <1>1, <2>7, RunsToIs, StartIs
    <3>2. /\ next.start = ev.at /\ next.interrupted = FALSE
          /\ next.sessions = Append(loop.sessions, ClosedBy(loop, ev))
      BY <2>3, <2>4, <2>7, Zenon
    <3> DEFINE session == ClosedBy(loop, ev)
    <3>3. /\ session \in FocusSession
          /\ session.startedAt = loop.start
          /\ session.endedAt = loop.last
          /\ session.interrupted <=> loop.interrupted \/ ev.type = "interruption"
          /\ next.sessions = Append(loop.sessions, session)
      BY <2>1, <3>2, ClosedByIs
    <3> HIDE DEF session
    <3>4. session = RunSession(events, begin, i)
      <4>1. session.interrupted <=> \E k \in begin + 1..i + 1 :
                k <= Len(events) /\ events[k].type = "interruption"
        <5>1. \A k \in begin + 1..i + 1 : k <= Len(events)
          BY <1>1, <2>1
        <5> QED
          BY <2>5, <3>3, <5>1
      <4>2. session.startedAt = events[begin].at /\ session.endedAt = events[i].at
        BY <2>1, <3>3
      <4> HIDE DEF loop, next, run, begin, ev
      <4> QED
        BY <3>3, <4>1, <4>2, SessionIs
    <3>5. loop.sessions \in Seq(FocusSession)
      BY <2>1 DEF LoopState
    <3>6. /\ Len(next.sessions) = run
          /\ \A k \in 1..run - 1 : next.sessions[k] = loop.sessions[k]
          /\ next.sessions[run] = session
      BY <2>1, <3>3, <3>5
    <3>7. \A k \in 1..run : next.sessions[k] =
              RunSession(events, Start(events, k), Start(events, k + 1) - 1)
      <4>1. \A k \in 1..run : k \in 1..run - 1 \/ k = run
        BY <2>1
      <4>2. Start(events, run + 1) - 1 = i
        BY <3>1
      <4> QED
        BY <2>1, <3>4, <3>6, <4>1, <4>2
    <3>8. /\ ~\E k \in (i + 1) + 1..i + 1 : events[k].type = "interruption"
          /\ i + 1 \in 1..i + 1
          /\ run + 1 \in Nat \ {0} /\ (run + 1) - 1 = run
      BY <2>1
    <3> HIDE DEF loop, next, run, begin
    <3> QED
      BY <2>4, <3>1, <3>2, <3>6, <3>7, <3>8 DEF LoopHas, next, run
  <2> QED
    BY <2>6, <2>7
<1> DEFINE S == {i \in 1..N : LoopHas(events, i)}
<1>5. 1 \in S /\ \A i \in 1..N - 1 : i \in S => i + 1 \in S
  BY <1>1, <1>3, <1>4
<1> HIDE DEF S
<1>6. \A i \in 1..N : i \in S
  BY <1>1, <1>5, UpTo
<1> QED
  BY <1>6 DEF S, N

\* buildSessions returns the runs, for any sequence of events.
LEMMA BuildIsRuns ==
    ASSUME NEW events \in Seq(Event)
    PROVE  /\ buildSessions(events) = Runs(events)
           /\ buildSessions(events) \in Seq(FocusSession)
<1>1. CASE events = <<>>
  <2>1. Starts(events) \cap 1..Len(events) = {}
    BY <1>1
  <2>2. RunsTo(events, Len(events)) = 0
    BY <2>1, FS_EmptySet DEF RunsTo
  <2>3. Runs(events) = <<>>
    BY <2>2 DEF Runs
  <2> QED
    BY <1>1, <2>3 DEF buildSessions
<1>2. CASE events # <<>>
  <2> DEFINE N    == Len(events)
             loop == Loop(events)[N]
             run  == RunsTo(events, N)
  <2>1. N \in Nat \ {0} /\ N \in 1..N
    BY <1>2, EventIs
  <2>2. LoopHas(events, N)
    BY <2>1, LoopHasRuns
  <2>3. /\ loop \in LoopState
        /\ run \in Nat \ {0} /\ Start(events, run) \in 1..N
        /\ loop.start = events[Start(events, run)].at
        /\ loop.last = events[N].at
        /\ loop.interrupted <=> \E k \in Start(events, run) + 1..N :
                                   events[k].type = "interruption"
        /\ Len(loop.sessions) = run - 1
        /\ \A k \in 1..run - 1 : loop.sessions[k] =
              RunSession(events, Start(events, k), Start(events, k + 1) - 1)
    BY <2>2 DEF LoopHas
  <2>4. buildSessions(events) = Append(loop.sessions, Session(loop))
    BY <1>2 DEF buildSessions
  <2>5. /\ Session(loop) \in FocusSession /\ loop.sessions \in Seq(FocusSession)
        /\ Session(loop).startedAt = loop.start /\ Session(loop).endedAt = loop.last
        /\ Session(loop).interrupted = loop.interrupted
    BY <2>3 DEF Session, FocusSession, LoopState
  <2>6. Session(loop) = RunSession(events, Start(events, run), N)
    <3>1. loop.interrupted <=> \E k \in Start(events, run) + 1..N + 1 :
              k <= Len(events) /\ events[k].type = "interruption"
      BY <2>1, <2>3
    <3> HIDE DEF loop, run, N
    <3> QED
      BY <2>3, <2>5, <3>1, SessionIs
  <2> HIDE DEF loop, run, N
  <2>7. /\ Append(loop.sessions, Session(loop)) \in Seq(FocusSession)
        /\ Len(Append(loop.sessions, Session(loop))) = run
        /\ \A k \in 1..run - 1 :
              Append(loop.sessions, Session(loop))[k] = loop.sessions[k]
        /\ Append(loop.sessions, Session(loop))[run] = Session(loop)
    BY <2>3, <2>5
  <2> DEFINE built == buildSessions(events)
  <2>8. \A k \in 1..run : built[k] = RunSession(events, Start(events, k), Stop(events, k))
    <3>1. \A k \in 1..run - 1 : Stop(events, k) = Start(events, k + 1) - 1
      BY <2>3 DEF Stop, run, N
    <3>2. Stop(events, run) = N
      BY <2>3 DEF Stop, run, N
    <3>3. \A k \in 1..run : k \in 1..run - 1 \/ k = run
      BY <2>3
    <3> QED
      BY <2>3, <2>4, <2>6, <2>7, <3>1, <3>2, <3>3
  <2>9. built \in Seq(FocusSession) /\ Len(built) = run
    BY <2>4, <2>7
  <2> HIDE DEF built
  <2>10. built = [k \in 1..run |-> RunSession(events, Start(events, k), Stop(events, k))]
    <3>1. built = [k \in 1..run |-> built[k]]
      BY <2>9
    <3> QED
      BY <2>8, <3>1
  <2> QED
    BY <2>9, <2>10 DEF Runs, run, N, built
<1> QED
  BY <1>1, <1>2
----------------------------------------------------------------------------
\* A suffix, place by place.
LEMMA SuffixIs ==
    ASSUME NEW s \in Seq(FocusSession), NEW t \in Seq(FocusSession), Len(s) <= Len(t),
           \A j \in 1..Len(s) : s[j] = t[j + (Len(t) - Len(s))]
    PROVE  IsSuffix(s, t)
<1>1. Len(s) \in Nat /\ Len(t) \in Nat
  OBVIOUS
<1> DEFINE r == Reverse(s)
           q == Reverse(t)
<1>2. /\ r \in Seq(FocusSession) /\ Len(r) = Len(s)
      /\ \A j \in 1..Len(s) : r[j] = s[Len(s) - j + 1]
  BY <1>1 DEF Reverse
<1>3. /\ q \in Seq(FocusSession) /\ Len(q) = Len(t)
      /\ \A j \in 1..Len(t) : q[j] = t[Len(t) - j + 1]
  BY <1>1 DEF Reverse
<1> HIDE DEF r, q
<1>4. \A j \in 1..Len(s) : r[j] = q[j]
  <2> SUFFICES ASSUME NEW j \in 1..Len(s) PROVE r[j] = q[j]
    OBVIOUS
  <2>1. /\ Len(s) - j + 1 \in 1..Len(s) /\ j \in 1..Len(t)
        /\ (Len(s) - j + 1) + (Len(t) - Len(s)) = Len(t) - j + 1
    BY <1>1
  <2> QED
    BY <1>2, <1>3, <2>1
<1>5. r = SubSeq(q, 1, Len(r))
  BY <1>1, <1>2, <1>3, <1>4
<1> QED
  BY <1>1, <1>2, <1>3, <1>5 DEF IsSuffix, IsPrefix, r, q

\* s is an end of t, its first session aside.
EndsAlike(s, t) ==
    /\ Len(s) # 0 /\ Len(s) <= Len(t)
    /\ \A j \in 2..Len(s) : s[j] = t[j + (Len(t) - Len(s))]

LEMMA AlikeAppend ==
    ASSUME NEW s \in Seq(FocusSession), NEW t \in Seq(FocusSession),
           NEW x \in FocusSession, NEW y \in FocusSession,
           \/ Len(s) = 0
           \/ EndsAlike(s, t) /\ x = y
    PROVE  EndsAlike(Append(s, x), Append(t, y))
<1> DEFINE s2 == Append(s, x)
           t2 == Append(t, y)
<1>1. /\ Len(s) \in Nat /\ Len(t) \in Nat
      /\ Len(s2) = Len(s) + 1 /\ Len(t2) = Len(t) + 1
      /\ \A j \in 1..Len(s) : s2[j] = s[j]
      /\ \A j \in 1..Len(t) : t2[j] = t[j]
      /\ s2[Len(s) + 1] = x /\ t2[Len(t) + 1] = y
  OBVIOUS
<1> HIDE DEF s2, t2
<1>2. CASE Len(s) = 0
  BY <1>1, <1>2 DEF EndsAlike, s2, t2
<1>3. CASE Len(s) # 0
  <2>1. /\ x = y /\ Len(s) <= Len(t)
        /\ \A j \in 2..Len(s) : s[j] = t[j + (Len(t) - Len(s))]
    BY <1>3 DEF EndsAlike
  <2>2. Len(t2) - Len(s2) = Len(t) - Len(s)
    BY <1>1
  <2>3. ASSUME NEW j \in 2..Len(s) + 1 PROVE s2[j] = t2[j + (Len(t) - Len(s))]
    <3>1. CASE j = Len(s) + 1
      <4>1. j + (Len(t) - Len(s)) = Len(t) + 1
        BY <1>1, <3>1
      <4> QED
        BY <1>1, <2>1, <3>1, <4>1
    <3>2. CASE j # Len(s) + 1
      <4>1. j \in 2..Len(s) /\ j \in 1..Len(s) /\ j + (Len(t) - Len(s)) \in 1..Len(t)
        BY <1>1, <2>1, <3>2
      <4> QED
        BY <1>1, <2>1, <4>1
    <3> QED
      BY <3>1, <3>2
  <2>4. Len(s2) # 0 /\ Len(s2) <= Len(t2)
    BY <1>1, <2>1
  <2>5. \A j \in 2..Len(s2) : s2[j] = t2[j + (Len(t2) - Len(s2))]
    BY <1>1, <2>2, <2>3
  <2>6. EndsAlike(s2, t2)
    BY <2>4, <2>5 DEF EndsAlike
  <2> QED
    BY <2>6 DEF s2, t2
<1> QED
  BY <1>2, <1>3

LEMMA AlikeIsSuffix ==
    ASSUME NEW s \in Seq(FocusSession), NEW t \in Seq(FocusSession), EndsAlike(s, t)
    PROVE  IsSuffix(Tail(s), t)
<1>1. /\ Len(s) \in Nat /\ Len(t) \in Nat /\ Len(s) # 0 /\ Len(s) <= Len(t)
      /\ \A j \in 2..Len(s) : s[j] = t[j + (Len(t) - Len(s))]
  BY DEF EndsAlike
<1> DEFINE u == Tail(s)
<1>2. /\ u \in Seq(FocusSession) /\ Len(u) = Len(s) - 1
      /\ \A j \in 1..Len(s) - 1 : u[j] = s[j + 1]
  BY <1>1
<1> HIDE DEF u
<1>3. ASSUME NEW j \in 1..Len(u) PROVE u[j] = t[j + (Len(t) - Len(u))]
  <2>1. /\ j \in 1..Len(s) - 1 /\ j + 1 \in 2..Len(s)
        /\ (j + 1) + (Len(t) - Len(s)) = j + (Len(t) - Len(u))
    BY <1>1, <1>2
  <2> QED
    BY <1>1, <1>2, <2>1
<1>4. Len(u) <= Len(t)
  BY <1>1, <1>2
<1> QED
  BY <1>2, <1>3, <1>4, SuffixIs DEF u

\* Two loops at the same event: the second is in its first session, or is where the
\* first one is.
Follows(cut, full) ==
    /\ full \in LoopState /\ cut \in LoopState
    /\ cut.last = full.last
    /\ \/ Len(cut.sessions) = 0
       \/ /\ cut.start = full.start
          /\ cut.interrupted = full.interrupted
          /\ EndsAlike(cut.sessions, full.sessions)

LEMMA TurnFollows ==
    ASSUME NEW cut, NEW full, Follows(cut, full), NEW ev \in Event
    PROVE  Follows(Turn(cut, ev), Turn(full, ev))
<1> DEFINE cut2  == Turn(cut, ev)
           full2 == Turn(full, ev)
<1>1. /\ full \in LoopState /\ cut \in LoopState
      /\ cut.last = full.last
      /\ \/ Len(cut.sessions) = 0
         \/ /\ cut.start = full.start
            /\ cut.interrupted = full.interrupted
            /\ EndsAlike(cut.sessions, full.sessions)
  BY DEF Follows
<1>2. /\ full2 \in LoopState /\ cut2 \in LoopState
      /\ full2.last = ev.at /\ cut2.last = ev.at
  BY <1>1, TurnIs
<1>3. CASE ~(ev.at - full.last > Gap \/ ev.type = "task_paused")
  <2>1. /\ full2.start = full.start /\ full2.sessions = full.sessions
        /\ full2.interrupted <=> full.interrupted \/ ev.type = "interruption"
    BY <1>1, <1>3, TurnIs
  <2>2. /\ cut2.start = cut.start /\ cut2.sessions = cut.sessions
        /\ cut2.interrupted <=> cut.interrupted \/ ev.type = "interruption"
    BY <1>1, <1>3, TurnIs
  <2> HIDE DEF cut2, full2
  <2>3. full2.interrupted \in BOOLEAN /\ cut2.interrupted \in BOOLEAN
    BY <1>2 DEF LoopState
  <2>4. cut.interrupted = full.interrupted => cut2.interrupted = full2.interrupted
    BY <2>1, <2>2, <2>3
  <2>5. Follows(cut2, full2)
    BY <1>1, <1>2, <2>1, <2>2, <2>4 DEF Follows
  <2> QED
    BY <2>5 DEF cut2, full2
<1>4. CASE ev.at - full.last > Gap \/ ev.type = "task_paused"
  <2>1. /\ full2.start = ev.at /\ full2.interrupted = FALSE
        /\ full2.sessions = Append(full.sessions, ClosedBy(full, ev))
    BY <1>1, <1>4, TurnIs
  <2>2. /\ cut2.start = ev.at /\ cut2.interrupted = FALSE
        /\ cut2.sessions = Append(cut.sessions, ClosedBy(cut, ev))
    BY <1>1, <1>4, TurnIs
  <2>3. /\ ClosedBy(full, ev) \in FocusSession /\ ClosedBy(cut, ev) \in FocusSession
        /\ full.sessions \in Seq(FocusSession) /\ cut.sessions \in Seq(FocusSession)
    BY <1>1, ClosedByIs DEF LoopState
  <2>4. \/ Len(cut.sessions) = 0
        \/ EndsAlike(cut.sessions, full.sessions) /\ ClosedBy(cut, ev) = ClosedBy(full, ev)
    BY <1>1, Zenon DEF ClosedBy
  <2> HIDE DEF cut2, full2
  <2>5. EndsAlike(cut2.sessions, full2.sessions)
    BY <2>1, <2>2, <2>3, <2>4, AlikeAppend
  <2>6. Follows(cut2, full2)
    BY <1>2, <2>1, <2>2, <2>5 DEF Follows
  <2> QED
    BY <2>6 DEF cut2, full2
<1> QED
  BY <1>3, <1>4

\* Whatever a loop over the end of a history makes of it.
LEMMA CutsFirstOnly ==
    ASSUME NEW events \in Seq(Event), NEW k \in DOMAIN events
    PROVE  IsSuffix(Tail(buildSessions(SubSeq(events, k, Len(events)))),
                    buildSessions(events))
<1> DEFINE N      == Len(events)
           ending == SubSeq(events, k, N)
           M      == N - k + 1
<1>1. /\ N \in Nat \ {0} /\ k \in 1..N /\ DOMAIN events = 1..N /\ Len(events) = N
      /\ \A i \in 1..N : events[i] \in Event
  BY EventIs
<1>2. M \in Nat \ {0} /\ ending \in Seq(Event) /\ Len(ending) = M
  BY <1>1
<1>3. DOMAIN ending = 1..M /\ \A j \in 1..M : ending[j] = events[j + k - 1]
  BY <1>1
<1> HIDE DEF N, ending
<1>4. /\ \A i \in 1..N : LoopHas(events, i)
      /\ \A j \in 1..M : LoopHas(ending, j)
  BY <1>1, <1>2, LoopHasRuns
<1>5. /\ \A i \in 1..N : Loop(events)[i] \in LoopState /\ Loop(events)[i].last = events[i].at
      /\ \A j \in 1..M : Loop(ending)[j] \in LoopState /\ Loop(ending)[j].last = ending[j].at
  BY <1>4 DEF LoopHas
<1>6. \A i \in 1..N - 1 : Loop(events)[i + 1] = Turn(Loop(events)[i], events[i + 1])
  BY <1>1, LoopIs
<1>7. /\ Loop(ending)[1] = Opened(ending[1])
      /\ \A j \in 1..M - 1 : Loop(ending)[j + 1] = Turn(Loop(ending)[j], ending[j + 1])
  <2>1. M \in Nat /\ 1 \in 1..M
    BY <1>2
  <2> HIDE DEF M
  <2> QED
    BY <1>3, <2>1, LoopIs
<1> DEFINE S == {j \in 1..M : Follows(Loop(ending)[j], Loop(events)[j + k - 1])}
<1>8. 1 \in S
  <2>1. 1 \in 1..M /\ 1 + k - 1 = k
    BY <1>1, <1>2
  <2>2. Len(Loop(ending)[1].sessions) = 0
    BY <1>7 DEF Opened
  <2>3. Loop(ending)[1].last = Loop(events)[k].last
    BY <1>1, <1>3, <1>5, <2>1
  <2>4. Follows(Loop(ending)[1], Loop(events)[k])
    BY <1>1, <1>5, <2>1, <2>2, <2>3 DEF Follows
  <2> QED
    BY <2>1, <2>4
<1>9. ASSUME NEW j \in 1..M - 1, j \in S PROVE j + 1 \in S
  <2> DEFINE i == j + k - 1
  <2>1. j + 1 \in 1..M /\ i \in 1..N - 1 /\ (j + 1) + k - 1 = i + 1 /\ i + 1 \in 1..N
    BY <1>1, <1>2
  <2>2. Follows(Loop(ending)[j], Loop(events)[i])
    BY <1>9
  <2> HIDE DEF i, M
  <2>3. ending[j + 1] = events[i + 1] /\ events[i + 1] \in Event
    BY <1>1, <1>3, <2>1
  <2>4. Follows(Turn(Loop(ending)[j], ending[j + 1]), Turn(Loop(events)[i], ending[j + 1]))
    BY <2>2, <2>3, TurnFollows
  <2>5. Follows(Loop(ending)[j + 1], Loop(events)[i + 1])
    BY <1>6, <1>7, <2>1, <2>3, <2>4
  <2> QED
    BY <2>1, <2>5
<1>10. Follows(Loop(ending)[M], Loop(events)[N])
  <2>1. \A j \in 1..M - 1 : j \in S => j + 1 \in S
    BY <1>9
  <2>2. M \in 1..M /\ M \in Nat /\ M + k - 1 = N
    BY <1>1, <1>2
  <2> HIDE DEF S, M
  <2>3. \A j \in 1..M : j \in S
    BY <1>8, <2>1, <2>2, UpTo
  <2>4. M \in S
    BY <2>2, <2>3
  <2> QED
    BY <2>2, <2>4 DEF S
<1> DEFINE full == Loop(events)[N]
           cut  == Loop(ending)[M]
<1>11. /\ buildSessions(events) = Append(full.sessions, Session(full))
       /\ buildSessions(ending) = Append(cut.sessions, Session(cut))
  <2>1. events # <<>> /\ ending # <<>>
    BY <1>1, <1>2
  <2> QED
    BY <1>1, <1>2, <2>1 DEF buildSessions
<1> HIDE DEF full, cut
<1>12. Follows(cut, full)
  BY <1>10 DEF full, cut
<1>13. /\ full \in LoopState /\ cut \in LoopState
       /\ cut.last = full.last
       /\ \/ Len(cut.sessions) = 0
          \/ /\ cut.start = full.start
             /\ cut.interrupted = full.interrupted
             /\ EndsAlike(cut.sessions, full.sessions)
  BY <1>12 DEF Follows
<1>14. /\ Session(full) \in FocusSession /\ Session(cut) \in FocusSession
       /\ full.sessions \in Seq(FocusSession) /\ cut.sessions \in Seq(FocusSession)
  BY <1>13 DEF LoopState, Session, FocusSession
<1>15. \/ Len(cut.sessions) = 0
       \/ EndsAlike(cut.sessions, full.sessions) /\ Session(cut) = Session(full)
  BY <1>13, Zenon DEF Session
<1>16. EndsAlike(buildSessions(ending), buildSessions(events))
  BY <1>11, <1>14, <1>15, AlikeAppend
<1>17. buildSessions(ending) \in Seq(FocusSession) /\ buildSessions(events) \in Seq(FocusSession)
  BY <1>2, BuildIsRuns
<1> QED
  BY <1>16, <1>17, AlikeIsSuffix DEF ending, N

----------------------------------------------------------------------------
\* What a function returns on a finite set is finite.
LEMMA ImageIs ==
    ASSUME NEW S, IsFiniteSet(S), NEW f
    PROVE  IsFiniteSet({f[x] : x \in S})
<1> DEFINE T == {f[x] : x \in S}
           g == [x \in S |-> f[x]]
<1>1. g \in [S -> T] /\ \A y \in T : \E x \in S : g[x] = y
  OBVIOUS
<1>2. g \in Surjection(S, T)
  BY <1>1, Zenon DEF Surjection
<1> HIDE DEF g, T
<1>3. IsFiniteSet(T)
  BY <1>2, FS_Surjection
<1> QED
  BY <1>3 DEF T

\* A finite set of integers has a greatest and a least element.
LEMMA Highest ==
    ASSUME NEW S, IsFiniteSet(S), S \subseteq Int, S # {}
    PROVE  \E p \in S : \A q \in S : q <= p
<1> DEFINE Above(p) == {q \in S : q > p}
           T == {Cardinality(Above(p)) : p \in S}
<1>1. \A p \in S : IsFiniteSet(Above(p)) /\ Cardinality(Above(p)) \in Nat
  BY FS_Subset, FS_CardinalityType
<1>2. T \subseteq Nat /\ T # {}
  BY <1>1
<1>3. PICK n \in T : \A m \in T : n <= m
  <2> HIDE DEF T
  <2> QED
    BY <1>2, Least
<1>4. PICK p \in S : n = Cardinality(Above(p))
  OBVIOUS
<1>5. ASSUME NEW q \in S PROVE q <= p
  <2> SUFFICES ASSUME q > p PROVE FALSE
    OBVIOUS
  <2>1. Above(q) \subseteq Above(p) /\ q \in Above(p) /\ q \notin Above(q)
    <3>1. p \in Int /\ q \in Int /\ \A r \in S : r \in Int
      OBVIOUS
    <3>2. (\A r \in S : r > q => r > p) /\ q > p /\ ~(q > q)
      BY <3>1
    <3> QED
      BY <3>2, Zenon
  <2>2. /\ IsFiniteSet(Above(p)) /\ Cardinality(Above(p)) \in Nat
        /\ IsFiniteSet(Above(q)) /\ Cardinality(Above(q)) \in Nat
    BY <1>1
  <2>3. Cardinality(Above(q)) \in T
    OBVIOUS
  <2>4. Cardinality(Above(p)) <= Cardinality(Above(q))
    BY <1>3, <1>4, <2>3
  <2> HIDE DEF Above, T
  <2>5. Above(q) # Above(p)
    BY <2>1
  <2>6. Cardinality(Above(q)) < Cardinality(Above(p))
    BY <2>1, <2>2, <2>5, FS_Subset
  <2> QED
    BY <2>2, <2>4, <2>6
<1> QED
  BY <1>5

LEMMA MinIs ==
    ASSUME NEW S, IsFiniteSet(S), S \subseteq Int, S # {}
    PROVE  Min(S) \in S /\ \A q \in S : Min(S) <= q
<1> DEFINE T == {-p : p \in S}
<1>1. IsFiniteSet(T)
  <2> DEFINE f == [p \in S |-> -p]
  <2>1. T = {f[p] : p \in S}
    OBVIOUS
  <2> HIDE DEF f
  <2> QED
    BY <2>1, ImageIs
<1>2. T \subseteq Int /\ T # {}
  <2>1. PICK p \in S : p \in Int
    OBVIOUS
  <2>2. -p \in T
    BY <2>1, Zenon
  <2>3. \A t \in T : t \in Int
    <3> TAKE t \in T
    <3>1. PICK q \in S : t = -q
      BY Zenon
    <3> QED
      BY <3>1
  <2> QED
    BY <2>2, <2>3, Zenon
<1>3. PICK r \in T : \A q \in T : q <= r
  <2> HIDE DEF T
  <2> QED
    BY <1>1, <1>2, Highest
<1>4. PICK p \in S : r = -p
  OBVIOUS
<1>5. \A q \in S : p <= q
  <2> SUFFICES ASSUME NEW q \in S PROVE p <= q
    OBVIOUS
  <2>1. -q \in T /\ -q <= -p
    BY <1>3, <1>4
  <2> QED
    BY <2>1
<1> QED
  BY <1>5 DEF Min

----------------------------------------------------------------------------
\* The fractions a sub-metric may be.
Fraction == {r \in [n : Nat, d : Nat \ {0}] : r.n <= r.d}

LEMMA clampIs ==
    ASSUME NEW n \in Int, NEW d \in Nat \ {0}
    PROVE  clamp(Ratio(n, d)) \in Fraction
BY DEF clamp, Ratio, Fraction

\* The shortest of a finite set of sessions is as long as one of them.
LEMMA ShortestIs ==
    ASSUME NEW sessions, NEW which, NEW k \in Nat,
           \A p \in which : sessions[p] \in FocusSession,
           IsFiniteSet(which), which # {}, k <= Cardinality(which)
    PROVE  Shortest(sessions, which, k) \in Int
<1> DEFINE Long(p) == Duration(sessions[p])
           Enough(q) == k <= Cardinality({r \in which : Long(r) <= Long(q)})
           S == {p \in which : Enough(p)}
           D == {Long(p) : p \in S}
           All == {Long(p) : p \in which}
<1>1. \A p \in which : Long(p) \in Int
  BY DEF Duration, FocusSession
<1> DEFINE f == [p \in which |-> Duration(sessions[p])]
<1>2. IsFiniteSet(All) /\ All \subseteq Int /\ All # {}
  <2>1. All = {f[p] : p \in which}
    OBVIOUS
  <2>2. IsFiniteSet({f[p] : p \in which})
    <3> HIDE DEF f
    <3> QED
      BY ImageIs
  <2> QED
    BY <1>1, <2>1, <2>2
<1>3. PICK v \in All : \A w \in All : w <= v
  <2> HIDE DEF All
  <2> QED
    BY <1>2, Highest
<1>4. PICK p \in which : v = Long(p)
  OBVIOUS
<1>5. {r \in which : Long(r) <= Long(p)} = which
  <2> SUFFICES ASSUME NEW r \in which PROVE Long(r) <= Long(p)
    OBVIOUS
  <2>1. Long(r) \in All
    OBVIOUS
  <2> QED
    BY <1>3, <1>4, <2>1
<1>6. p \in S
  <2> HIDE DEF Long
  <2> QED
    BY <1>5
<1>7. D \subseteq Int /\ D # {}
  BY <1>1, <1>6
<1>8. IsFiniteSet(D)
  <2>1. IsFiniteSet(S)
    <3>1. S \subseteq which
      OBVIOUS
    <3> HIDE DEF S
    <3> QED
      BY <3>1, FS_Subset
  <2>2. D = {f[q] : q \in S}
    OBVIOUS
  <2> HIDE DEF S, f
  <2>3. IsFiniteSet({f[q] : q \in S})
    BY <2>1, ImageIs
  <2> QED
    BY <2>2, <2>3
<1>9. Min(D) \in D
  <2> HIDE DEF D
  <2> QED
    BY <1>7, <1>8, MinIs
<1>10. Shortest(sessions, which, k) = Min(D)
  BY Zenon DEF Shortest
<1> HIDE DEF D
<1> QED
  BY <1>7, <1>9, <1>10

LEMMA FocusDepthIs ==
    ASSUME NEW sessions, IsFiniteSet(DOMAIN sessions),
           \A p \in DOMAIN sessions : sessions[p] \in FocusSession
    PROVE  computeFocusDepth(sessions) \in Fraction
<1> DEFINE which == {p \in DOMAIN sessions : /\ Duration(sessions[p]) >= DeepWork
                                             /\ ~sessions[p].interrupted}
<1>1. IsFiniteSet(which)
  BY FS_Subset
<1>2. CASE which = {}
  BY <1>2 DEF computeFocusDepth, Ratio, Fraction
<1>3. CASE which # {}
  <2>1. \A p \in which : sessions[p] \in FocusSession
    OBVIOUS
  <2>2. computeFocusDepth(sessions) = clamp(Ratio(TwiceMedian(sessions, which), 2 * Anchor))
    BY <1>3 DEF computeFocusDepth
  <2> HIDE DEF which
  <2>3. Cardinality(which) \in Nat /\ Cardinality(which) # 0
    BY <1>1, <1>3, FS_EmptySet, FS_CardinalityType
  <2> DEFINE half == Cardinality(which) \div 2
  <2>4. /\ half \in Nat /\ half <= Cardinality(which)
        /\ Cardinality(which) % 2 = 1 => half + 1 \in Nat /\ half + 1 <= Cardinality(which)
        /\ Cardinality(which) % 2 # 1 => half + 1 \in Nat /\ half + 1 <= Cardinality(which)
    BY <2>3
  <2> HIDE DEF half
  <2>5. /\ Shortest(sessions, which, half) \in Int
        /\ Shortest(sessions, which, half + 1) \in Int
    BY <1>1, <1>3, <2>1, <2>4, ShortestIs
  <2>6. TwiceMedian(sessions, which) \in Int
    BY <2>5 DEF TwiceMedian, half
  <2>7. 2 * Anchor \in Nat \ {0}
    BY AnchorAssumption
  <2> QED
    BY <2>2, <2>6, <2>7, clampIs
<1> QED
  BY <1>2, <1>3

----------------------------------------------------------------------------
\* The arithmetic of the score.
LEMMA Times2 ==
    ASSUME NEW a \in Int, NEW b \in Int
    PROVE  /\ a * b \in Int
           /\ a >= 0 /\ b >= 0 => a * b >= 0
           /\ a > 0 /\ b > 0 => a * b > 0
OBVIOUS

LEMMA TimesLeq ==
    ASSUME NEW a \in Int, NEW b \in Int, NEW k \in Nat, a <= b
    PROVE  a * k <= b * k /\ k * a <= k * b
<1>1. (b - a) * k >= 0
  BY Times2
<1>2. (b - a) * k = b * k - a * k
  OBVIOUS
<1>3. a * k \in Int /\ b * k \in Int /\ k * a = a * k /\ k * b = b * k
  OBVIOUS
<1> QED
  BY <1>1, <1>2, <1>3

LEMMA LeqTimes ==
    ASSUME NEW a \in Int, NEW b \in Int, NEW k \in Nat \ {0}, k * a <= k * b
    PROVE  a <= b
<1> SUFFICES ASSUME a >= b + 1 PROVE FALSE
  OBVIOUS
<1>1. k * (b + 1) <= k * a
  BY TimesLeq
<1>2. k * (b + 1) = k * b + k
  OBVIOUS
<1>3. k * a \in Int /\ k * b \in Int
  BY Times2
<1> QED
  BY <1>1, <1>2, <1>3

LEMMA DivIs ==
    ASSUME NEW a \in Int, NEW b \in Nat \ {0}
    PROVE  a \div b \in Int /\ b * (a \div b) <= a /\ a < b * (a \div b) + b
OBVIOUS

LEMMA DivLeast ==
    ASSUME NEW a \in Int, NEW b \in Nat \ {0}, NEW q \in Int
    PROVE  /\ b * q <= a => q <= a \div b
           /\ b * q > a => a \div b < q
<1> DEFINE p == a \div b
<1>1. p \in Int /\ b * p <= a /\ a < b * p + b
  BY DivIs
<1> HIDE DEF p
<1>2. b * (p + 1) = b * p + b /\ b * p \in Int /\ b * q \in Int
  <2>1. b * p \in Int /\ b * q \in Int
    BY <1>1, Times2
  <2>2. b * (p + 1) = b * p + b
    BY <1>1
  <2> QED
    BY <2>1, <2>2
<1>3. ASSUME b * q <= a PROVE q <= p
  <2> SUFFICES ASSUME p + 1 <= q PROVE FALSE
    BY <1>1
  <2>1. b * (p + 1) <= b * q
    BY <1>1, TimesLeq
  <2> QED
    BY <1>1, <1>2, <1>3, <2>1
<1>4. ASSUME b * q > a PROVE p < q
  <2> SUFFICES ASSUME q <= p PROVE FALSE
    BY <1>1
  <2>1. b * q <= b * p
    BY <1>1, TimesLeq
  <2> QED
    BY <1>1, <1>2, <1>4, <2>1
<1> QED
  BY <1>3, <1>4 DEF p

\* A fraction that may exceed 1, and when one is at most another.
Weight == [n : Nat, d : Nat \ {0}]

AtMost(p, q) == p.n * q.d <= q.n * p.d

LEMMA RatioIs ==
    ASSUME NEW n \in Nat, NEW d \in Nat \ {0}
    PROVE  Ratio(n, d) \in Weight /\ Ratio(n, d).n = n /\ Ratio(n, d).d = d
BY DEF Ratio, Weight

LEMMA WeighIs ==
    ASSUME NEW w \in Nat, NEW p \in Weight
    PROVE  Weigh(w, p) \in Weight /\ Weigh(w, p).n = w * p.n /\ Weigh(w, p).d = p.d
<1>1. p.n \in Nat /\ p.d \in Nat \ {0}
  BY DEF Weight
<1>2. w * p.n \in Nat
  BY <1>1, Times2
<1> QED
  BY <1>1, <1>2, RatioIs DEF Weigh

LEMMA PlusIs ==
    ASSUME NEW p \in Weight, NEW q \in Weight
    PROVE  /\ Plus(p, q) \in Weight
           /\ Plus(p, q).n = p.n * q.d + q.n * p.d
           /\ Plus(p, q).d = p.d * q.d
<1>1. p.n \in Nat /\ p.d \in Nat \ {0} /\ q.n \in Nat /\ q.d \in Nat \ {0}
  BY DEF Weight
<1>2. p.n * q.d \in Nat /\ q.n * p.d \in Nat /\ p.d * q.d \in Nat \ {0}
  BY <1>1, Times2
<1>3. p.n * q.d + q.n * p.d \in Nat
  BY <1>2
<1> QED
  BY <1>2, <1>3, RatioIs DEF Plus

LEMMA WeighKeeps ==
    ASSUME NEW w \in Nat, NEW p \in Weight, NEW q \in Weight, AtMost(p, q)
    PROVE  AtMost(Weigh(w, p), Weigh(w, q))
<1>1. p.n \in Nat /\ p.d \in Nat \ {0} /\ q.n \in Nat /\ q.d \in Nat \ {0}
  BY DEF Weight
<1>2. p.n * q.d \in Int /\ q.n * p.d \in Int /\ p.n * q.d <= q.n * p.d
  BY <1>1, Times2 DEF AtMost
<1>3. w * (p.n * q.d) <= w * (q.n * p.d)
  BY <1>2, TimesLeq
<1>4. w * (p.n * q.d) = (w * p.n) * q.d /\ w * (q.n * p.d) = (w * q.n) * p.d
  BY <1>1
<1> QED
  BY <1>3, <1>4, WeighIs DEF AtMost

LEMMA PlusKeeps ==
    ASSUME NEW p \in Weight, NEW q \in Weight, NEW r \in Weight, NEW s \in Weight,
           AtMost(p, q), AtMost(r, s)
    PROVE  AtMost(Plus(p, r), Plus(q, s))
<1>1. /\ p.n \in Nat /\ p.d \in Nat \ {0} /\ q.n \in Nat /\ q.d \in Nat \ {0}
      /\ r.n \in Nat /\ r.d \in Nat \ {0} /\ s.n \in Nat /\ s.d \in Nat \ {0}
  BY DEF Weight
<1>2. /\ p.n * q.d \in Int /\ q.n * p.d \in Int /\ p.n * q.d <= q.n * p.d
      /\ r.n * s.d \in Int /\ s.n * r.d \in Int /\ r.n * s.d <= s.n * r.d
      /\ r.d * s.d \in Nat /\ p.d * q.d \in Nat
  BY <1>1, Times2 DEF AtMost
<1>3. /\ (p.n * q.d) * (r.d * s.d) <= (q.n * p.d) * (r.d * s.d)
      /\ (r.n * s.d) * (p.d * q.d) <= (s.n * r.d) * (p.d * q.d)
  BY <1>2, TimesLeq
<1>4. /\ (p.n * q.d) * (r.d * s.d) \in Int /\ (q.n * p.d) * (r.d * s.d) \in Int
      /\ (r.n * s.d) * (p.d * q.d) \in Int /\ (s.n * r.d) * (p.d * q.d) \in Int
  BY <1>2, Times2
<1>5. (p.n * r.d + r.n * p.d) * (q.d * s.d) =
          (p.n * q.d) * (r.d * s.d) + (r.n * s.d) * (p.d * q.d)
  BY <1>1
<1>6. (q.n * s.d + s.n * q.d) * (p.d * r.d) =
          (q.n * p.d) * (r.d * s.d) + (s.n * r.d) * (p.d * q.d)
  BY <1>1
<1>7. (p.n * r.d + r.n * p.d) * (q.d * s.d) <= (q.n * s.d + s.n * q.d) * (p.d * r.d)
  BY <1>3, <1>4, <1>5, <1>6
<1> QED
  BY <1>7, PlusIs DEF AtMost

LEMMA clampKeeps ==
    ASSUME NEW n \in Int, NEW d \in Nat \ {0}, NEW m \in Int, NEW e \in Nat \ {0},
           n * e <= m * d
    PROVE  AtMost(clamp(Ratio(n, d)), clamp(Ratio(m, e)))
<1>0. n * e \in Int /\ m * d \in Int /\ n * d \in Int /\ d * e \in Int
  BY Times2
<1>1. CASE n < 0
  <2>1. clamp(Ratio(n, d)) = [n |-> 0, d |-> 1]
    BY <1>1 DEF clamp, Ratio
  <2>2. clamp(Ratio(m, e)) \in Fraction
    BY clampIs
  <2> QED
    BY <2>1, <2>2 DEF AtMost, Fraction
<1>2. CASE m > e
  <2>1. clamp(Ratio(m, e)) = [n |-> 1, d |-> 1]
    BY <1>2 DEF clamp, Ratio
  <2>2. clamp(Ratio(n, d)) \in Fraction
    BY clampIs
  <2> QED
    BY <2>1, <2>2 DEF AtMost, Fraction
<1>3. CASE n >= 0 /\ m <= e
  <2>1. m >= 0
    <3> SUFFICES ASSUME m < 0 PROVE FALSE
      OBVIOUS
    <3>1. n * e >= 0 /\ (0 - m) * d > 0
      BY <1>3, Times2
    <3>2. (0 - m) * d = -(m * d)
      OBVIOUS
    <3> QED
      BY <1>0, <3>1, <3>2
  <2>2. n <= d
    <3>1. m * d <= e * d
      BY <1>3, TimesLeq
    <3>2. e * n <= e * d
      <4>1. e * n = n * e /\ e * d \in Int
        OBVIOUS
      <4> QED
        BY <1>0, <3>1, <4>1
    <3> QED
      BY <3>2, LeqTimes
  <2>3. /\ clamp(Ratio(n, d)) = [n |-> n, d |-> d]
        /\ clamp(Ratio(m, e)) = [n |-> m, d |-> e]
    BY <1>3, <2>1, <2>2 DEF clamp, Ratio
  <2> QED
    BY <2>3 DEF AtMost
<1> QED
  BY <1>1, <1>2, <1>3

\* A fraction of 10000, to the nearest whole number.
Hundredths(r) == RoundRatio(10000 * r.n, r.d)

LEMMA RoundIs ==
    ASSUME NEW n \in Nat, NEW d \in Nat \ {0}, n <= d, NEW m, m = 10000 * n
    PROVE  RoundRatio(m, d) \in Int /\ 0 <= RoundRatio(m, d) /\ RoundRatio(m, d) <= 10000
<1> DEFINE a == 2 * m + d
           b == 2 * d
<1>1. a \in Nat /\ b \in Nat \ {0} /\ b * 0 <= a /\ b * 10001 > a
  OBVIOUS
<1>2. RoundRatio(m, d) = a \div b
  BY DEF RoundRatio
<1> HIDE DEF a, b
<1>3. a \div b \in Int /\ 0 <= a \div b /\ a \div b < 10001
  BY <1>1, DivIs, DivLeast
<1> DEFINE q == a \div b
<1>4. q \in Int /\ 0 <= q /\ q < 10001
  BY <1>3
<1> HIDE DEF q
<1>5. q \in Int /\ 0 <= q /\ q <= 10000
  BY <1>4
<1> QED
  BY <1>2, <1>5 DEF q

LEMMA HundredthsIs ==
    ASSUME NEW r \in Fraction
    PROVE  Hundredths(r) \in Int /\ 0 <= Hundredths(r) /\ Hundredths(r) <= 10000
<1>1. r.n \in Nat /\ r.d \in Nat \ {0} /\ r.n <= r.d
  BY DEF Fraction
<1> DEFINE m == 10000 * r.n
           n == r.n
           d == r.d
<1>2. m = 10000 * n /\ n \in Nat /\ d \in Nat \ {0} /\ n <= d
  BY <1>1
<1>3. Hundredths(r) = RoundRatio(m, d)
  BY DEF Hundredths
<1> HIDE DEF m, n, d
<1>4. RoundRatio(m, d) \in Int /\ 0 <= RoundRatio(m, d) /\ RoundRatio(m, d) <= 10000
  BY <1>2, RoundIs
<1> QED
  BY <1>3, <1>4

LEMMA HundredthsKeep ==
    ASSUME NEW p \in Fraction, NEW q \in Fraction, AtMost(p, q)
    PROVE  Hundredths(p) <= Hundredths(q)
<1>1. p.n \in Nat /\ p.d \in Nat \ {0} /\ q.n \in Nat /\ q.d \in Nat \ {0}
  BY DEF Fraction
<1> DEFINE a == 2 * (10000 * p.n) + p.d
           b == 2 * p.d
           c == 2 * (10000 * q.n) + q.d
           e == 2 * q.d
           x == a \div b
<1>2. a \in Nat /\ b \in Nat \ {0} /\ c \in Nat /\ e \in Nat \ {0}
  BY <1>1
<1>3. x \in Int /\ b * x <= a
  <2> HIDE DEF a, b
  <2> QED
    BY <1>2, DivIs
<1> HIDE DEF x
<1>4. p.n * q.d \in Int /\ q.n * p.d \in Int /\ p.n * q.d <= q.n * p.d
  BY <1>1, Times2 DEF AtMost
<1>5. (b * x) * q.d <= a * q.d
  <2>1. b * x \in Int
    BY <1>2, <1>3, Times2
  <2> HIDE DEF a, b
  <2> QED
    BY <1>1, <1>2, <1>3, <2>1, TimesLeq
<1>6. p.d * (e * x) = (b * x) * q.d
  BY <1>1, <1>3
<1>7. a * q.d <= p.d * c
  <2>1. a * q.d = 20000 * (p.n * q.d) + p.d * q.d
    BY <1>1
  <2>2. p.d * c = 20000 * (q.n * p.d) + p.d * q.d
    BY <1>1
  <2>3. p.d * q.d \in Int
    BY <1>1, Times2
  <2> QED
    BY <1>4, <2>1, <2>2, <2>3
<1>8. e * x <= c
  <2>1. e * x \in Int /\ p.d * (e * x) \in Int /\ a * q.d \in Int /\ p.d * c \in Int
    BY <1>1, <1>2, <1>3, Times2
  <2>2. p.d * (e * x) <= p.d * c
    BY <1>5, <1>6, <1>7, <2>1
  <2> HIDE DEF e, c
  <2> QED
    BY <1>1, <1>2, <2>1, <2>2, LeqTimes
<1>9. x <= c \div e
  <2> HIDE DEF e, c
  <2> QED
    BY <1>2, <1>3, <1>8, DivLeast
<1> QED
  BY <1>9 DEF Hundredths, RoundRatio, x, a, b, c, e

----------------------------------------------------------------------------
\* What the sub-metrics are computed from.
InputRow ==
    [tasksCompleted : Nat, tasksDueInWindow : Nat, tasksOverdue : Nat, tasksTotal : Nat,
     storyPointsCompleted : Nat, historicalAvgStoryPoints : Nat, activeDays : Nat]

FocusTime(sessions) ==
    /\ IsFiniteSet(DOMAIN sessions)
    /\ \A p \in DOMAIN sessions : sessions[p] \in FocusSession

LEMMA InputIs ==
    ASSUME NEW in \in InputRow
    PROVE  /\ in.tasksCompleted \in Nat /\ in.tasksDueInWindow \in Nat
           /\ in.tasksOverdue \in Nat /\ in.tasksTotal \in Nat
           /\ in.storyPointsCompleted \in Nat /\ in.historicalAvgStoryPoints \in Nat
           /\ in.activeDays \in Nat
BY DEF InputRow

LEMMA FractionIs ==
    ASSUME NEW r \in Fraction
    PROVE  r \in Weight /\ r.n \in Nat /\ r.d \in Nat \ {0} /\ r.n <= r.d
BY DEF Fraction, Weight

LEMMA CompletionRateIs ==
    ASSUME NEW in \in InputRow
    PROVE  computeCompletionRate(in) \in Fraction
<1>1. in.tasksCompleted \in Nat /\ in.tasksDueInWindow \in Nat
  BY InputIs
<1>2. Ratio(7, 10) \in Fraction /\ Ratio(1, 2) \in Fraction
  BY DEF Ratio, Fraction
<1>3. CASE in.tasksDueInWindow = 0
  BY <1>2, <1>3 DEF computeCompletionRate
<1>4. CASE in.tasksDueInWindow # 0
  <2>1. clamp(Ratio(in.tasksCompleted, in.tasksDueInWindow)) \in Fraction
    BY <1>1, <1>4, clampIs
  <2> QED
    BY <1>4, <2>1 DEF computeCompletionRate
<1> QED
  BY <1>3, <1>4

LEMMA VelocityIndexIs ==
    ASSUME NEW in \in InputRow
    PROVE  computeVelocityIndex(in) \in Fraction
<1>1. in.storyPointsCompleted \in Nat /\ in.historicalAvgStoryPoints \in Nat
  BY InputIs
<1>2. Ratio(1, 2) \in Fraction
  BY DEF Ratio, Fraction
<1>3. CASE in.historicalAvgStoryPoints = 0
  BY <1>2, <1>3 DEF computeVelocityIndex
<1>4. CASE in.historicalAvgStoryPoints # 0
  <2>1. clamp(Ratio(in.storyPointsCompleted, in.historicalAvgStoryPoints)) \in Fraction
    BY <1>1, <1>4, clampIs
  <2> QED
    BY <1>4, <2>1 DEF computeVelocityIndex
<1> QED
  BY <1>3, <1>4

LEMMA ConsistencyIs ==
    ASSUME NEW in \in InputRow
    PROVE  computeConsistency(in) \in Fraction
<1>1. in.activeDays \in Nat
  BY InputIs
<1>2. clamp(Ratio(in.activeDays, 7)) \in Fraction
  BY <1>1, clampIs
<1> QED
  BY <1>2 DEF computeConsistency

LEMMA OverdueRatioIs ==
    ASSUME NEW in \in InputRow
    PROVE  computeOverdueRatio(in) \in Fraction
<1>1. in.tasksOverdue \in Nat /\ in.tasksTotal \in Nat
  BY InputIs
<1>2. Ratio(1, 1) \in Fraction
  BY DEF Ratio, Fraction
<1>3. CASE in.tasksTotal = 0
  BY <1>2, <1>3 DEF computeOverdueRatio
<1>4. CASE in.tasksTotal # 0
  <2>1. clamp(Ratio(in.tasksTotal - in.tasksOverdue, in.tasksTotal)) \in Fraction
    BY <1>1, <1>4, clampIs
  <2> QED
    BY <1>4, <2>1 DEF computeOverdueRatio
<1> QED
  BY <1>3, <1>4

LEMMA WeightedIs ==
    ASSUME NEW in \in InputRow, NEW sessions, FocusTime(sessions)
    PROVE  Weighted(in, sessions) \in Weight
<1>1. /\ computeCompletionRate(in) \in Weight /\ computeVelocityIndex(in) \in Weight
      /\ computeFocusDepth(sessions) \in Weight /\ computeConsistency(in) \in Weight
      /\ computeOverdueRatio(in) \in Weight
  BY CompletionRateIs, VelocityIndexIs, FocusDepthIs, ConsistencyIs, OverdueRatioIs,
     FractionIs DEF FocusTime
<1> QED
  BY <1>1, WeighIs, PlusIs DEF Weighted

LEMMA ScoreIs ==
    ASSUME NEW in \in InputRow, NEW sessions, FocusTime(sessions)
    PROVE  computeProductivityScore(in, sessions) \in 0..10000
<1> DEFINE raw == Weighted(in, sessions)
           bounded == clamp(Ratio(raw.n, 20 * raw.d))
<1>1. raw.n \in Int /\ 20 * raw.d \in Nat \ {0}
  <2>1. raw \in Weight
    BY WeightedIs
  <2> QED
    BY <2>1 DEF Weight
<1> HIDE DEF raw
<1>2. bounded \in Fraction
  BY <1>1, clampIs
<1> HIDE DEF bounded
<1>3. Hundredths(bounded) \in Int /\ 0 <= Hundredths(bounded) /\ Hundredths(bounded) <= 10000
  BY <1>2, HundredthsIs
<1>4. computeProductivityScore(in, sessions) = Hundredths(bounded)
  BY DEF computeProductivityScore, Hundredths, bounded, raw
<1> DEFINE h == Hundredths(bounded)
<1>5. h \in Int /\ 0 <= h /\ h <= 10000
  BY <1>3
<1> HIDE DEF h
<1>6. h \in 0..10000
  BY <1>5
<1> QED
  BY <1>4, <1>6 DEF h

----------------------------------------------------------------------------
\* Doing more of what was due, more story points, less overdue.
LEMMA MetricsKeep ==
    ASSUME NEW a \in InputRow, NEW b \in InputRow, Better(a, b)
    PROVE  /\ AtMost(computeCompletionRate(b), computeCompletionRate(a))
           /\ AtMost(computeVelocityIndex(b), computeVelocityIndex(a))
           /\ AtMost(computeOverdueRatio(b), computeOverdueRatio(a))
<1>1. /\ a.tasksDueInWindow = b.tasksDueInWindow /\ a.tasksTotal = b.tasksTotal
      /\ a.historicalAvgStoryPoints = b.historicalAvgStoryPoints
      /\ b.tasksCompleted <= a.tasksCompleted
      /\ b.storyPointsCompleted <= a.storyPointsCompleted
      /\ a.tasksOverdue <= b.tasksOverdue
      /\ b.tasksTotal - b.tasksOverdue <= a.tasksTotal - a.tasksOverdue
  BY InputIs DEF Better
<1>2. \A p \in Fraction : AtMost(p, p)
  BY DEF AtMost, Fraction
<1>3. AtMost(computeCompletionRate(b), computeCompletionRate(a))
  <2>1. CASE a.tasksDueInWindow = 0
    <3>1. computeCompletionRate(b) = computeCompletionRate(a)
      BY <1>1, <2>1 DEF computeCompletionRate
    <3> QED
      BY <1>2, <3>1, CompletionRateIs
  <2>2. CASE a.tasksDueInWindow # 0
    <3> DEFINE d == a.tasksDueInWindow
    <3>1. d \in Nat \ {0} /\ a.tasksCompleted \in Int /\ b.tasksCompleted \in Int
      BY <2>2, InputIs
    <3> HIDE DEF d
    <3>2. b.tasksCompleted * d <= a.tasksCompleted * d
      BY <1>1, <3>1, TimesLeq
    <3>3. AtMost(clamp(Ratio(b.tasksCompleted, d)), clamp(Ratio(a.tasksCompleted, d)))
      BY <3>1, <3>2, clampKeeps
    <3> QED
      BY <1>1, <2>2, <3>3 DEF computeCompletionRate, d
  <2> QED
    BY <2>1, <2>2
<1>4. AtMost(computeVelocityIndex(b), computeVelocityIndex(a))
  <2>1. CASE a.historicalAvgStoryPoints = 0
    <3>1. computeVelocityIndex(b) = computeVelocityIndex(a)
      BY <1>1, <2>1 DEF computeVelocityIndex
    <3> QED
      BY <1>2, <3>1, VelocityIndexIs
  <2>2. CASE a.historicalAvgStoryPoints # 0
    <3> DEFINE d == a.historicalAvgStoryPoints
    <3>1. /\ d \in Nat \ {0} /\ a.storyPointsCompleted \in Int
          /\ b.storyPointsCompleted \in Int
      BY <2>2, InputIs
    <3> HIDE DEF d
    <3>2. b.storyPointsCompleted * d <= a.storyPointsCompleted * d
      BY <1>1, <3>1, TimesLeq
    <3>3. AtMost(clamp(Ratio(b.storyPointsCompleted, d)),
                 clamp(Ratio(a.storyPointsCompleted, d)))
      BY <3>1, <3>2, clampKeeps
    <3> QED
      BY <1>1, <2>2, <3>3 DEF computeVelocityIndex, d
  <2> QED
    BY <2>1, <2>2
<1>5. AtMost(computeOverdueRatio(b), computeOverdueRatio(a))
  <2>1. CASE a.tasksTotal = 0
    <3>1. computeOverdueRatio(b) = computeOverdueRatio(a)
      BY <1>1, <2>1 DEF computeOverdueRatio
    <3> QED
      BY <1>2, <3>1, OverdueRatioIs
  <2>2. CASE a.tasksTotal # 0
    <3> DEFINE d == a.tasksTotal
               x == a.tasksTotal - a.tasksOverdue
               y == b.tasksTotal - b.tasksOverdue
    <3>1. d \in Nat \ {0} /\ x \in Int /\ y \in Int /\ y <= x
      BY <1>1, <2>2, InputIs
    <3> HIDE DEF d, x, y
    <3>2. y * d <= x * d
      BY <3>1, TimesLeq
    <3>3. AtMost(clamp(Ratio(y, d)), clamp(Ratio(x, d)))
      BY <3>1, <3>2, clampKeeps
    <3> QED
      BY <1>1, <2>2, <3>3 DEF computeOverdueRatio, d, x, y
  <2> QED
    BY <2>1, <2>2
<1> QED
  BY <1>3, <1>4, <1>5

LEMMA ScoreKeeps ==
    ASSUME NEW a \in InputRow, NEW b \in InputRow, Better(a, b),
           a.activeDays = b.activeDays, NEW sessions, FocusTime(sessions)
    PROVE  computeProductivityScore(a, sessions) >= computeProductivityScore(b, sessions)
<1> DEFINE A1 == computeCompletionRate(a)
           A2 == computeVelocityIndex(a)
           A3 == computeFocusDepth(sessions)
           A4 == computeConsistency(a)
           A5 == computeOverdueRatio(a)
           B1 == computeCompletionRate(b)
           B2 == computeVelocityIndex(b)
           B4 == computeConsistency(b)
           B5 == computeOverdueRatio(b)
<1>1. /\ A1 \in Weight /\ A2 \in Weight /\ A3 \in Weight /\ A4 \in Weight /\ A5 \in Weight
      /\ B1 \in Weight /\ B2 \in Weight /\ B4 \in Weight /\ B5 \in Weight
  BY CompletionRateIs, VelocityIndexIs, FocusDepthIs, ConsistencyIs, OverdueRatioIs,
     FractionIs DEF FocusTime
<1>2. AtMost(B1, A1) /\ AtMost(B2, A2) /\ AtMost(B5, A5)
  BY MetricsKeep
<1>3. AtMost(A3, A3) /\ AtMost(B4, A4)
  <2>1. B4 = A4
    BY DEF computeConsistency
  <2>2. \A p \in Weight : AtMost(p, p)
    BY DEF AtMost, Weight
  <2> QED
    BY <1>1, <2>1, <2>2
<1>4. /\ Weighted(a, sessions) = Plus(Weigh(7, A1), Plus(Weigh(5, A2),
                Plus(Weigh(4, A3), Plus(Weigh(3, A4), Weigh(1, A5)))))
      /\ Weighted(b, sessions) = Plus(Weigh(7, B1), Plus(Weigh(5, B2),
                Plus(Weigh(4, A3), Plus(Weigh(3, B4), Weigh(1, B5)))))
  BY DEF Weighted
<1> HIDE DEF A1, A2, A3, A4, A5, B1, B2, B4, B5
<1>5. /\ Weigh(7, A1) \in Weight /\ Weigh(7, B1) \in Weight
      /\ AtMost(Weigh(7, B1), Weigh(7, A1))
  BY <1>1, <1>2, WeighIs, WeighKeeps
<1>6. /\ Weigh(5, A2) \in Weight /\ Weigh(5, B2) \in Weight
      /\ AtMost(Weigh(5, B2), Weigh(5, A2))
  BY <1>1, <1>2, WeighIs, WeighKeeps
<1>7. Weigh(4, A3) \in Weight /\ AtMost(Weigh(4, A3), Weigh(4, A3))
  BY <1>1, <1>3, WeighIs, WeighKeeps
<1>8. /\ Weigh(3, A4) \in Weight /\ Weigh(3, B4) \in Weight
      /\ AtMost(Weigh(3, B4), Weigh(3, A4))
  BY <1>1, <1>3, WeighIs, WeighKeeps
<1>9. /\ Weigh(1, A5) \in Weight /\ Weigh(1, B5) \in Weight
      /\ AtMost(Weigh(1, B5), Weigh(1, A5))
  BY <1>1, <1>2, WeighIs, WeighKeeps
<1> DEFINE P4 == Plus(Weigh(3, A4), Weigh(1, A5))
           Q4 == Plus(Weigh(3, B4), Weigh(1, B5))
           P3 == Plus(Weigh(4, A3), P4)
           Q3 == Plus(Weigh(4, A3), Q4)
           P2 == Plus(Weigh(5, A2), P3)
           Q2 == Plus(Weigh(5, B2), Q3)
           P1 == Plus(Weigh(7, A1), P2)
           Q1 == Plus(Weigh(7, B1), Q2)
<1>10. P4 \in Weight /\ Q4 \in Weight /\ AtMost(Q4, P4)
  BY <1>8, <1>9, PlusIs, PlusKeeps
<1> HIDE DEF P4, Q4
<1>11. P3 \in Weight /\ Q3 \in Weight /\ AtMost(Q3, P3)
  BY <1>7, <1>10, PlusIs, PlusKeeps
<1> HIDE DEF P3, Q3
<1>12. P2 \in Weight /\ Q2 \in Weight /\ AtMost(Q2, P2)
  BY <1>6, <1>11, PlusIs, PlusKeeps
<1> HIDE DEF P2, Q2
<1>13. P1 \in Weight /\ Q1 \in Weight /\ AtMost(Q1, P1)
  BY <1>5, <1>12, PlusIs, PlusKeeps
<1>14. Weighted(a, sessions) = P1 /\ Weighted(b, sessions) = Q1
  BY <1>4 DEF P1, P2, P3, P4, Q1, Q2, Q3, Q4
<1> HIDE DEF P1, Q1
<1> DEFINE hi == clamp(Ratio(P1.n, 20 * P1.d))
           lo == clamp(Ratio(Q1.n, 20 * Q1.d))
<1>15. hi \in Fraction /\ lo \in Fraction /\ AtMost(lo, hi)
  <2>1. P1.n \in Nat /\ P1.d \in Nat \ {0} /\ Q1.n \in Nat /\ Q1.d \in Nat \ {0}
    BY <1>13 DEF Weight
  <2>2. Q1.n * P1.d \in Int /\ P1.n * Q1.d \in Int /\ Q1.n * P1.d <= P1.n * Q1.d
    BY <1>13, <2>1, Times2 DEF AtMost
  <2>3. Q1.n * (20 * P1.d) = 20 * (Q1.n * P1.d) /\ P1.n * (20 * Q1.d) = 20 * (P1.n * Q1.d)
    BY <2>1
  <2>4. Q1.n * (20 * P1.d) <= P1.n * (20 * Q1.d)
    BY <2>2, <2>3
  <2>5. 20 * P1.d \in Nat \ {0} /\ 20 * Q1.d \in Nat \ {0}
    BY <2>1
  <2> QED
    BY <2>1, <2>4, <2>5, clampIs, clampKeeps
<1> HIDE DEF hi, lo
<1>16. Hundredths(lo) <= Hundredths(hi) /\ Hundredths(lo) \in Int /\ Hundredths(hi) \in Int
  BY <1>15, HundredthsKeep, HundredthsIs
<1>17. /\ computeProductivityScore(a, sessions) = Hundredths(hi)
       /\ computeProductivityScore(b, sessions) = Hundredths(lo)
  BY <1>14 DEF computeProductivityScore, Hundredths, hi, lo
<1> QED
  BY <1>16, <1>17

----------------------------------------------------------------------------
\* u is s with e put in at place i.
Inserted(u, s, i, e) ==
    /\ Len(u) = Len(s) + 1
    /\ \A j \in 1..i - 1 : u[j] = s[j]
    /\ u[i] = e
    /\ \A j \in i + 1..Len(s) + 1 : u[j] = s[j - 1]

LEMMA InsertIs ==
    ASSUME NEW T, NEW s \in Seq(T), NEW i \in 1..Len(s) + 1, NEW e \in T
    PROVE  InsertAt(s, i, e) \in Seq(T) /\ Inserted(InsertAt(s, i, e), s, i, e)
<1> DEFINE front == SubSeq(s, 1, i - 1)
           back == SubSeq(s, i, Len(s))
<1>1. Len(s) \in Nat
  OBVIOUS
<1>2. front \in Seq(T) /\ Len(front) = i - 1 /\ \A j \in 1..i - 1 : front[j] = s[j]
  BY <1>1
<1>3. /\ back \in Seq(T) /\ Len(back) = Len(s) - i + 1
      /\ \A j \in 1..Len(s) - i + 1 : back[j] = s[j + i - 1]
  BY <1>1
<1>4. InsertAt(s, i, e) = front \o <<e>> \o back
  BY DEF InsertAt
<1> HIDE DEF front, back
<1> DEFINE first == front \o <<e>>
<1>5. first \in Seq(T) /\ Len(first) = i /\ first[i] = e /\ \A j \in 1..i - 1 : first[j] = s[j]
  BY <1>1, <1>2
<1> HIDE DEF first
<1>6. first \o back \in Seq(T) /\ Len(first \o back) = Len(s) + 1
  <2>0. first \in Seq(T) /\ back \in Seq(T)
    BY <1>3, <1>5
  <2>1. Len(first \o back) = Len(first) + Len(back)
    BY <2>0
  <2>2. first \o back \in Seq(T)
    BY <2>0
  <2> QED
    BY <1>1, <1>3, <1>5, <2>1, <2>2
<1>7. \A j \in 1..i : (first \o back)[j] = first[j]
  BY <1>1, <1>3, <1>5
<1>8. ASSUME NEW j \in i + 1..Len(s) + 1 PROVE (first \o back)[j] = s[j - 1]
  <2>1. j - i \in 1..Len(s) - i + 1 /\ (j - i) + i - 1 = j - 1
    BY <1>1
  <2>2. (first \o back)[j] = back[j - i]
    BY <1>1, <1>3, <1>5
  <2>3. back[j - i] = s[(j - i) + i - 1]
    BY <1>3, <2>1
  <2> QED
    BY <2>1, <2>2, <2>3
<1>9. \A j \in 1..i - 1 : j \in 1..i
  OBVIOUS
<1> QED
  BY <1>4, <1>5, <1>6, <1>7, <1>8, <1>9 DEF first, Inserted

----------------------------------------------------------------------------
\* The rows of the two tables.
LEMMA TypeIs ==
    ASSUME ATypeOK
    PROVE  /\ bound.events \in Nat /\ bound.scores \in Nat
           /\ \A t \in TaskIds : IsHistory(history[t])
           /\ scores \in Seq(ScoreRow)
           /\ \A i, j \in DOMAIN scores :
                 i < j => scores[i].computedAt <= scores[j].computedAt
<1>1. bound.events \in Nat /\ bound.scores \in Nat
  BY RowBoundsAssumption DEF ATypeOK
<1>2. \A t \in TaskIds : history[t] \in Seq(Event)
  BY DEF ATypeOK
<1>3. \A t \in TaskIds : \A i, j \in DOMAIN history[t] :
          i < j => history[t][i].at <= history[t][j].at
  BY DEF ATypeOK, Ascending
<1>4. \A i, j \in DOMAIN scores : i < j => scores[i].computedAt <= scores[j].computedAt
  BY DEF ATypeOK, Ascending
<1> QED
  BY <1>1, <1>2, <1>3, <1>4 DEF IsHistory, ATypeOK

LEMMA EventRowsIs ==
    ASSUME ATypeOK
    PROVE  /\ IsFiniteSet(EventRows)
           /\ \A r \in EventRows : /\ r = <<r[1], r[2]>>
                                   /\ EventAt(r) \in Event /\ EventAt(r).at \in Nat
<1>1. IsFiniteSet(1..bound.events)
  <2>1. bound.events \in Int
    BY TypeIs
  <2> QED
    BY <2>1, FS_Interval
<1>2. IsFiniteSet(TaskIds \X (1..bound.events))
  BY <1>1, TaskIdsAssumption, FS_Product
<1>3. IsFiniteSet(EventRows)
  BY <1>2, FS_Subset DEF EventRows
<1>4. ASSUME NEW r \in EventRows
      PROVE  r = <<r[1], r[2]>> /\ EventAt(r) \in Event /\ EventAt(r).at \in Nat
  <2>1. r = <<r[1], r[2]>> /\ r[1] \in TaskIds /\ r[2] \in DOMAIN history[r[1]]
    BY DEF EventRows
  <2> DEFINE events == history[r[1]]
  <2>2. events \in Seq(Event)
    BY <2>1, TypeIs DEF IsHistory
  <2>3. r[2] \in 1..Len(events)
    BY <2>1, <2>2
  <2> HIDE DEF events
  <2>4. events[r[2]] \in Event /\ events[r[2]].at \in Nat
    BY <2>2, <2>3, EventIs
  <2> QED
    BY <2>1, <2>4 DEF EventAt, events
<1> QED
  BY <1>3, <1>4

LEMMA InWindowIs ==
    ASSUME ATypeOK, NEW t \in TaskIds, NEW start, NEW end
    PROVE  InWindow(t, start, end) \in Seq(Event)
<1> DEFINE events == history[t]
           before == {i \in DOMAIN events : events[i].at < start}
           upTo   == {i \in DOMAIN events : events[i].at <= end}
<1>1. events \in Seq(Event) /\ Len(events) \in Nat /\ DOMAIN events = 1..Len(events)
  BY TypeIs, EventIs DEF IsHistory
<1>2. IsFiniteSet(1..Len(events)) /\ Cardinality(1..Len(events)) = Len(events)
  BY <1>1, FS_Interval
<1>3. before \subseteq 1..Len(events) /\ upTo \subseteq 1..Len(events)
  BY <1>1
<1>4. InWindow(t, start, end) = SubSeq(events, Cardinality(before) + 1, Cardinality(upTo))
  BY DEF InWindow
<1> HIDE DEF events, before, upTo
<1>5. /\ Cardinality(before) \in Nat /\ Cardinality(upTo) \in Nat
      /\ Cardinality(upTo) <= Len(events)
  <2>1. IsFiniteSet(before) /\ IsFiniteSet(upTo) /\ Cardinality(upTo) <= Len(events)
    BY <1>2, <1>3, FS_Subset
  <2> QED
    BY <2>1, FS_CardinalityType
<1>6. SubSeq(events, Cardinality(before) + 1, Cardinality(upTo)) \in Seq(Event)
  BY <1>1, <1>5
<1> QED
  BY <1>4, <1>6

LEMMA FocusSessionsAre ==
    ASSUME ATypeOK, NEW start, NEW end
    PROVE  FocusTime(getFocusSessions(start, end))
<1> DEFINE of == [t \in TaskIds |-> buildSessions(InWindow(t, start, end))]
           places == [t \in TaskIds |-> {t} \X DOMAIN of[t]]
           all == {places[t] : t \in TaskIds}
<1>1. ASSUME NEW t \in TaskIds
      PROVE  of[t] \in Seq(FocusSession) /\ Len(of[t]) \in Nat /\ DOMAIN of[t] = 1..Len(of[t])
  <2>1. of[t] = buildSessions(InWindow(t, start, end))
    OBVIOUS
  <2> HIDE DEF of
  <2>2. of[t] \in Seq(FocusSession)
    BY <2>1, InWindowIs, BuildIsRuns
  <2> QED
    BY <2>2
<1>2. IsFiniteSet(all)
  <2> HIDE DEF places
  <2> QED
    BY TaskIdsAssumption, ImageIs
<1>3. \A x \in all : IsFiniteSet(x)
  <2> SUFFICES ASSUME NEW t \in TaskIds PROVE IsFiniteSet({t} \X DOMAIN of[t])
    OBVIOUS
  <2>1. IsFiniteSet(1..Len(of[t]))
    BY <1>1, FS_Interval
  <2>2. IsFiniteSet({t})
    BY FS_Singleton
  <2> HIDE DEF of
  <2> QED
    BY <1>1, <2>1, <2>2, FS_Product
<1>4. IsFiniteSet(UNION all)
  <2> HIDE DEF all
  <2> QED
    BY <1>2, <1>3, FS_UNION
<1>5. getFocusSessions(start, end) = [p \in UNION all |-> of[p[1]][p[2]]]
  <2>1. all = {{t} \X DOMAIN of[t] : t \in TaskIds}
    OBVIOUS
  <2> HIDE DEF all
  <2> QED
    BY <2>1 DEF getFocusSessions
<1>6. ASSUME NEW p \in UNION all PROVE of[p[1]][p[2]] \in FocusSession
  <2>1. PICK t \in TaskIds : p \in {t} \X DOMAIN of[t]
    OBVIOUS
  <2> HIDE DEF of
  <2>2. p[1] = t /\ p[2] \in 1..Len(of[t])
    BY <1>1, <2>1
  <2> QED
    BY <1>1, <2>2
<1> HIDE DEF all, of
<1> QED
  BY <1>4, <1>5, <1>6 DEF FocusTime

LEMMA ScoringInputIs ==
    ASSUME ATypeOK, NEW stats \in Stats, NEW end
    PROVE  /\ ScoringInput(stats, end) \in InputRow
           /\ ScoringInput(stats, end).activeDays = ActiveDays(end - Window, end)
           /\ ScoringInput(stats, end).tasksCompleted = stats.tasksCompleted
           /\ ScoringInput(stats, end).tasksDueInWindow = stats.tasksDueInWindow
           /\ ScoringInput(stats, end).tasksOverdue = stats.tasksOverdue
           /\ ScoringInput(stats, end).tasksTotal = stats.tasksTotal
           /\ ScoringInput(stats, end).storyPointsCompleted = stats.storyPointsCompleted
           /\ ScoringInput(stats, end).historicalAvgStoryPoints =
                 stats.historicalAvgStoryPoints
<1> DEFINE start == end - Window
           places == {q \in EventRows : /\ EventAt(q).type = "task_completed"
                                      /\ start <= EventAt(q).at /\ EventAt(q).at <= end}
           day == [r \in places |-> DayOf(EventAt(r).at)]
           days == ActiveDays(start, end)
<1>1. days \in Nat
  <2>1. IsFiniteSet(places)
    BY EventRowsIs, FS_Subset
  <2>2. days = Cardinality({day[r] : r \in places})
    <3>1. {day[r] : r \in places} = {DayOf(EventAt(r).at) : r \in places}
      OBVIOUS
    <3> QED
      BY <3>1 DEF ActiveDays
  <2> HIDE DEF day, places, days
  <2>3. IsFiniteSet({day[r] : r \in places})
    BY <2>1, ImageIs
  <2> QED
    BY <2>2, <2>3, FS_CardinalityType
<1> HIDE DEF days
<1>3. stats \in StatsRow
  BY StatsAssumption
<1> DEFINE in == ScoringInput(stats, end)
<1>4. in = [f \in DOMAIN stats \cup {"activeDays"} |->
              IF f = "activeDays" THEN days ELSE stats[f]]
  BY DEF ScoringInput, days
<1>5. DOMAIN stats = {"tasksCompleted", "tasksDueInWindow", "tasksOverdue", "tasksTotal",
                      "storyPointsCompleted", "historicalAvgStoryPoints"}
  BY <1>3 DEF StatsRow
<1>6. /\ stats.tasksCompleted \in Nat /\ stats.tasksDueInWindow \in Nat
      /\ stats.tasksOverdue \in Nat /\ stats.tasksTotal \in Nat
      /\ stats.storyPointsCompleted \in Nat /\ stats.historicalAvgStoryPoints \in Nat
  BY <1>3 DEF StatsRow
<1> HIDE DEF in
<1>7. /\ in.activeDays = days
      /\ in.tasksCompleted = stats.tasksCompleted
      /\ in.tasksDueInWindow = stats.tasksDueInWindow
      /\ in.tasksOverdue = stats.tasksOverdue
      /\ in.tasksTotal = stats.tasksTotal
      /\ in.storyPointsCompleted = stats.storyPointsCompleted
      /\ in.historicalAvgStoryPoints = stats.historicalAvgStoryPoints
  BY <1>4, <1>5
<1>8. in = [tasksCompleted |-> in.tasksCompleted,
            tasksDueInWindow |-> in.tasksDueInWindow,
            tasksOverdue |-> in.tasksOverdue,
            tasksTotal |-> in.tasksTotal,
            storyPointsCompleted |-> in.storyPointsCompleted,
            historicalAvgStoryPoints |-> in.historicalAvgStoryPoints,
            activeDays |-> in.activeDays]
  BY <1>4, <1>5
<1>9. in \in InputRow
  BY <1>1, <1>6, <1>7, <1>8 DEF InputRow
<1> QED
  BY <1>7, <1>9 DEF in, days

LEMMA ScoreAtIs ==
    ASSUME ATypeOK, NEW stats \in Stats, NEW end
    PROVE  ScoreAt(stats, end) \in ScoreRange
<1>1. ScoringInput(stats, end) \in InputRow /\ FocusTime(getFocusSessions(end - Window, end))
  BY ScoringInputIs, FocusSessionsAre
<1> QED
  BY <1>1, ScoreIs DEF ScoreAt, ScoreRange

----------------------------------------------------------------------------
\* Putting a row where it fits keeps a table sorted.
LEMMA EventStaysSorted ==
    ASSUME NEW s, IsHistory(s), NEW i \in 1..Len(s) + 1, NEW ev \in Event,
           i > 1 => s[i - 1].at <= ev.at, i <= Len(s) => ev.at <= s[i].at
    PROVE  IsHistory(InsertAt(s, i, ev))
<1> DEFINE u == InsertAt(s, i, ev)
<1>1. /\ s \in Seq(Event) /\ Len(s) \in Nat /\ DOMAIN s = 1..Len(s)
      /\ \A j \in 1..Len(s) : s[j].at \in Nat
      /\ \A j, k \in 1..Len(s) : j < k => s[j].at <= s[k].at
  BY EventIs DEF IsHistory
<1>2. /\ u \in Seq(Event) /\ Len(u) = Len(s) + 1
      /\ \A j \in 1..i - 1 : u[j] = s[j]
      /\ u[i] = ev
      /\ \A j \in i + 1..Len(s) + 1 : u[j] = s[j - 1]
  <2>1. u \in Seq(Event) /\ Inserted(u, s, i, ev)
    BY <1>1, InsertIs
  <2> QED
    BY <2>1 DEF Inserted
<1>3. DOMAIN u = 1..Len(s) + 1
  BY <1>2
<1>4. ev.at \in Nat
  BY TimesAssumption DEF Event
<1> HIDE DEF u
<1>5. ASSUME NEW j \in 1..Len(s) + 1, NEW k \in 1..Len(s) + 1, j < k
      PROVE  u[j].at <= u[k].at
  <2>1. CASE j # i /\ k # i
    <3> DEFINE a == IF j < i THEN j ELSE j - 1
               b == IF k < i THEN k ELSE k - 1
    <3>1. a \in 1..Len(s) /\ b \in 1..Len(s) /\ a < b
      BY <1>1, <1>5, <2>1
    <3>2. u[j] = s[a] /\ u[k] = s[b]
      <4>1. /\ j < i => j \in 1..i - 1
            /\ ~(j < i) => j \in i + 1..Len(s) + 1
            /\ k < i => k \in 1..i - 1
            /\ ~(k < i) => k \in i + 1..Len(s) + 1
        BY <1>1, <2>1
      <4> QED
        BY <1>2, <4>1
    <3> HIDE DEF a, b
    <3> QED
      BY <1>1, <3>1, <3>2
  <2>2. CASE j = i
    <3>1. k - 1 \in 1..Len(s) /\ i \in 1..Len(s) /\ k \in i + 1..Len(s) + 1
      BY <1>1, <1>5, <2>2
    <3>2. ev.at <= s[i].at /\ (k - 1 = i \/ i < k - 1)
      BY <1>1, <3>1
    <3>0. s[i].at \in Nat
      BY <1>1, <3>1
    <3>3. s[i].at <= s[k - 1].at
      <4>1. CASE k - 1 = i
        BY <3>0, <4>1
      <4>2. CASE i < k - 1
        BY <1>1, <3>1, <4>2
      <4> QED
        BY <3>2, <4>1, <4>2
    <3>4. u[k] = s[k - 1] /\ u[j] = ev
      BY <1>2, <2>2, <3>1
    <3> QED
      BY <1>1, <1>4, <3>1, <3>2, <3>3, <3>4
  <2>3. CASE k = i
    <3>1. j \in 1..Len(s) /\ i - 1 \in 1..Len(s) /\ j \in 1..i - 1 /\ i > 1
      BY <1>1, <1>5, <2>3
    <3>2. s[i - 1].at <= ev.at /\ (j = i - 1 \/ j < i - 1)
      BY <1>1, <3>1
    <3>3. s[j].at <= s[i - 1].at
      BY <1>1, <3>1, <3>2
    <3>4. u[j] = s[j] /\ u[k] = ev
      BY <1>2, <2>3, <3>1
    <3> QED
      BY <1>1, <1>4, <3>1, <3>2, <3>3, <3>4
  <2> QED
    BY <2>1, <2>2, <2>3
<1>6. IsHistory(u)
  BY <1>2, <1>3, <1>5 DEF IsHistory
<1> QED
  BY <1>6 DEF u

LEMMA ScoreStaysSorted ==
    ASSUME NEW s \in Seq(ScoreRow), NEW i \in 1..Len(s) + 1, NEW row \in ScoreRow,
           \A j, k \in DOMAIN s : j < k => s[j].computedAt <= s[k].computedAt,
           i > 1 => s[i - 1].computedAt <= row.computedAt,
           i <= Len(s) => row.computedAt <= s[i].computedAt
    PROVE  /\ InsertAt(s, i, row) \in Seq(ScoreRow)
           /\ \A j, k \in DOMAIN InsertAt(s, i, row) : j < k =>
                 InsertAt(s, i, row)[j].computedAt <= InsertAt(s, i, row)[k].computedAt
<1> DEFINE u == InsertAt(s, i, row)
<1>0. \A r \in ScoreRow : r.computedAt \in Nat
  BY TimesAssumption DEF ScoreRow
<1>1. /\ Len(s) \in Nat /\ DOMAIN s = 1..Len(s)
      /\ \A j \in 1..Len(s) : s[j].computedAt \in Nat
      /\ \A j, k \in 1..Len(s) : j < k => s[j].computedAt <= s[k].computedAt
  BY <1>0
<1>2. /\ u \in Seq(ScoreRow) /\ Len(u) = Len(s) + 1
      /\ \A j \in 1..i - 1 : u[j] = s[j]
      /\ u[i] = row
      /\ \A j \in i + 1..Len(s) + 1 : u[j] = s[j - 1]
  <2>1. u \in Seq(ScoreRow) /\ Inserted(u, s, i, row)
    BY InsertIs
  <2> QED
    BY <2>1 DEF Inserted
<1>3. DOMAIN u = 1..Len(s) + 1
  BY <1>2
<1>4. row.computedAt \in Nat
  BY <1>0
<1> HIDE DEF u
<1>5. ASSUME NEW j \in 1..Len(s) + 1, NEW k \in 1..Len(s) + 1, j < k
      PROVE  u[j].computedAt <= u[k].computedAt
  <2>1. CASE j # i /\ k # i
    <3> DEFINE a == IF j < i THEN j ELSE j - 1
               b == IF k < i THEN k ELSE k - 1
    <3>1. a \in 1..Len(s) /\ b \in 1..Len(s) /\ a < b
      BY <1>1, <1>5, <2>1
    <3>2. u[j] = s[a] /\ u[k] = s[b]
      <4>1. /\ j < i => j \in 1..i - 1
            /\ ~(j < i) => j \in i + 1..Len(s) + 1
            /\ k < i => k \in 1..i - 1
            /\ ~(k < i) => k \in i + 1..Len(s) + 1
        BY <1>1, <2>1
      <4> QED
        BY <1>2, <4>1
    <3> HIDE DEF a, b
    <3> QED
      BY <1>1, <3>1, <3>2
  <2>2. CASE j = i
    <3>1. k - 1 \in 1..Len(s) /\ i \in 1..Len(s) /\ k \in i + 1..Len(s) + 1
      BY <1>1, <1>5, <2>2
    <3>2. /\ row.computedAt <= s[i].computedAt /\ (k - 1 = i \/ i < k - 1)
          /\ s[i].computedAt \in Nat
      BY <1>1, <3>1
    <3>3. s[i].computedAt <= s[k - 1].computedAt
      <4>1. CASE k - 1 = i
        BY <3>2, <4>1
      <4>2. CASE i < k - 1
        BY <1>1, <3>1, <4>2
      <4> QED
        BY <3>2, <4>1, <4>2
    <3>4. u[k] = s[k - 1] /\ u[j] = row
      BY <1>2, <2>2, <3>1
    <3> QED
      BY <1>1, <1>4, <3>1, <3>2, <3>3, <3>4
  <2>3. CASE k = i
    <3>1. j \in 1..Len(s) /\ i - 1 \in 1..Len(s) /\ j \in 1..i - 1 /\ i > 1
      BY <1>1, <1>5, <2>3
    <3>2. s[i - 1].computedAt <= row.computedAt /\ (j = i - 1 \/ j < i - 1)
      BY <1>1, <3>1
    <3>3. s[j].computedAt <= s[i - 1].computedAt
      BY <1>1, <3>1, <3>2
    <3>4. u[j] = s[j] /\ u[k] = row
      BY <1>2, <2>3, <3>1
    <3> QED
      BY <1>1, <1>4, <3>1, <3>2, <3>3, <3>4
  <2> QED
    BY <2>1, <2>2, <2>3
<1> QED
  BY <1>2, <1>3, <1>5 DEF u

----------------------------------------------------------------------------
\* The invariant, in the words of the lemmas above.
LEMMA TypeFrom ==
    ASSUME bound \in Bounds, DOMAIN history = TaskIds,
           history = [t \in TaskIds |-> history[t]],
           \A t \in TaskIds : IsHistory(history[t]),
           computed \subseteq ScoreRow, scores \in Seq(ScoreRow),
           \A i, j \in DOMAIN scores : i < j => scores[i].computedAt <= scores[j].computedAt
    PROVE  ATypeOK
<1>1. history \in [TaskIds -> Seq(Event)]
  BY DEF IsHistory
<1>2. \A t \in TaskIds : Ascending(history[t], LAMBDA ev : ev.at)
  BY DEF IsHistory, Ascending
<1>3. Ascending(scores, LAMBDA s : s.computedAt)
  BY DEF Ascending
<1> QED
  BY <1>1, <1>2, <1>3 DEF ATypeOK

\* A step of Record, in those words too.
LEMMA RecordIs ==
    ASSUME ATypeOK, NEW t \in TaskIds, NEW type \in EventTypes, NEW at \in Times,
           NEW i \in 1..Len(history[t]) + 1, Record(t, type, at, i)
    PROVE  LET ev == [type |-> type, at |-> at]
           IN  /\ ev \in Event /\ IsHistory(history[t])
               /\ i > 1 => history[t][i - 1].at <= ev.at
               /\ i <= Len(history[t]) => ev.at <= history[t][i].at
               /\ history' = [history EXCEPT ![t] = InsertAt(history[t], i, ev)]
               /\ UNCHANGED <<bound, computed, scores>>
<1>1. FitsAt(history[t], i, LAMBDA ev : ev.at, at)
  BY DEF Record
<1>2. /\ i > 1 => history[t][i - 1].at <= at
      /\ i <= Len(history[t]) => at <= history[t][i].at
  BY <1>1 DEF FitsAt
<1>3. [type |-> type, at |-> at] \in Event
  BY DEF Event
<1> QED
  BY <1>2, <1>3, TypeIs DEF Record

LEMMA AnalyticsTypeStep ==
    ASSUME ATypeOK, [ANext]_avars
    PROVE  ATypeOK'
<1>1. ASSUME NEW t \in TaskIds, NEW type \in EventTypes, NEW at \in Times,
             NEW i \in 1..Len(history[t]) + 1, Record(t, type, at, i)
      PROVE  ATypeOK'
  <2> DEFINE ev == [type |-> type, at |-> at]
             events == InsertAt(history[t], i, ev)
  <2>1. /\ ev \in Event /\ IsHistory(history[t])
        /\ i > 1 => history[t][i - 1].at <= ev.at
        /\ i <= Len(history[t]) => ev.at <= history[t][i].at
        /\ history' = [history EXCEPT ![t] = events]
        /\ bound' = bound /\ computed' = computed /\ scores' = scores
    BY <1>1, RecordIs
  <2>0. history \in [TaskIds -> Seq(Event)]
    BY DEF ATypeOK
  <2> HIDE DEF ev
  <2>2. IsHistory(events)
    BY <2>1, EventStaysSorted
  <2> HIDE DEF events
  <2>3. \A u \in TaskIds : history'[u] = IF u = t THEN events ELSE history[u]
    BY <2>0, <2>1
  <2>4. \A u \in TaskIds : IsHistory(history'[u])
    BY <2>2, <2>3, TypeIs
  <2>5. history' \in [TaskIds -> Seq(Event)]
    BY <2>0, <2>1, <2>2 DEF IsHistory
  <2> QED
    BY <2>1, <2>4, <2>5, TypeIs DEF ATypeOK, Ascending, IsHistory
<1>2. ASSUME NEW stats \in Stats, NEW at \in Times, ComputeScore(stats, at)
      PROVE  ATypeOK'
  <2> DEFINE row == [computedAt |-> at, score |-> ScoreAt(stats, at)]
  <2>1. row \in ScoreRow
    BY ScoreAtIs DEF ScoreRow
  <2>2. computed' = computed \cup {row} /\ UNCHANGED <<bound, history, scores>>
    BY <1>2 DEF ComputeScore
  <2> HIDE DEF row
  <2> QED
    BY <2>1, <2>2 DEF ATypeOK, Ascending
<1>3. ASSUME NEW row \in computed, PersistScore(row)
      PROVE  ATypeOK'
  <2>1. /\ computed' = computed \ {row} /\ bound' = bound /\ history' = history
        /\ row \in ScoreRow
    BY <1>3 DEF PersistScore, ATypeOK
  <2>2. PICK i \in 1..Len(scores) + 1 :
            /\ FitsAt(scores, i, LAMBDA s : s.computedAt, row.computedAt)
            /\ scores' = InsertAt(scores, i, row)
    BY <1>3 DEF PersistScore
  <2>3. /\ i > 1 => scores[i - 1].computedAt <= row.computedAt
        /\ i <= Len(scores) => row.computedAt <= scores[i].computedAt
    BY <2>2 DEF FitsAt
  <2>4. /\ scores' \in Seq(ScoreRow)
        /\ \A j, k \in DOMAIN scores' :
              j < k => scores'[j].computedAt <= scores'[k].computedAt
    <3>1. /\ scores \in Seq(ScoreRow)
          /\ \A j, k \in DOMAIN scores :
                j < k => scores[j].computedAt <= scores[k].computedAt
      BY TypeIs
    <3> QED
      BY <2>1, <2>2, <2>3, <3>1, ScoreStaysSorted
  <2> QED
    BY <2>1, <2>4 DEF ATypeOK, Ascending
<1>4. CASE UNCHANGED avars
  BY <1>4 DEF avars, ATypeOK, Ascending
<1> QED
  BY <1>1, <1>2, <1>3, <1>4 DEF ANext

\* Stored scores lie between 0 and 10000 hundredths of a point, and both tables stay
\* in the order of their time however late a row comes in.
THEOREM AnalyticsTypeCorrect == ASpec => []ATypeOK
<1>1. AInit => ATypeOK
  <2> SUFFICES ASSUME AInit PROVE ATypeOK
    OBVIOUS
  <2>1. <<>> \in Seq(Event) /\ <<>> \in Seq(ScoreRow) /\ DOMAIN <<>> = {}
    OBVIOUS
  <2>2. \A t \in TaskIds : IsHistory(history[t])
    BY <2>1 DEF AInit, IsHistory
  <2> QED
    BY <2>1, <2>2, TypeFrom DEF AInit
<1>2. ATypeOK /\ [ANext]_avars => ATypeOK'
  BY AnalyticsTypeStep
<1> QED
  BY <1>1, <1>2, PTL DEF ASpec

\* The sessions that the dashboard shows are the runs of events between two breaks.
THEOREM SessionsAreTheRuns == ASpec => []SessionsAreRuns
<1>1. ATypeOK => SessionsAreRuns
  <2> SUFFICES ASSUME ATypeOK, NEW t \in TaskIds
               PROVE  buildSessions(history[t]) = Runs(history[t])
    BY DEF SessionsAreRuns
  <2>1. history[t] \in Seq(Event)
    BY TypeIs DEF IsHistory
  <2> QED
    BY <2>1, BuildIsRuns
<1> QED
  BY <1>1, AnalyticsTypeCorrect, PTL

\* A window over the events may cut the first session that it shows, and no other.
THEOREM WindowKeepsTheRest == ASpec => []WindowCutsFirstOnly
<1>1. ATypeOK => WindowCutsFirstOnly
  <2> SUFFICES ASSUME ATypeOK, NEW t \in TaskIds, NEW k \in DOMAIN history[t]
               PROVE  IsSuffix(Tail(buildSessions(SubSeq(history[t], k, Len(history[t])))),
                               buildSessions(history[t]))
    BY DEF WindowCutsFirstOnly
  <2>1. history[t] \in Seq(Event)
    BY TypeIs DEF IsHistory
  <2> QED
    BY <2>1, CutsFirstOnly
<1> QED
  BY <1>1, AnalyticsTypeCorrect, PTL

\* Doing more of what was due never lowers the score, whatever the events are.
THEOREM WorkNeverLowersScore == ASpec => []BetterWorkScoresNoLess
<1>1. ATypeOK => BetterWorkScoresNoLess
  <2> SUFFICES ASSUME ATypeOK PROVE BetterWorkScoresNoLess
    OBVIOUS
  <2> DEFINE end      == CHOOSE at \in Times : \A x \in Times : x <= at
             sessions == getFocusSessions(end - Window, end)
             score    == [s \in Stats |->
                             computeProductivityScore(ScoringInput(s, end), sessions)]
  <2>1. ASSUME NEW a \in Stats, NEW b \in Stats, Better(a, b)
        PROVE  score[a] >= score[b]
    <3>1. FocusTime(sessions)
      BY FocusSessionsAre
    <3> HIDE DEF end, sessions
    <3> DEFINE x == ScoringInput(a, end)
               y == ScoringInput(b, end)
    <3>2. /\ x \in InputRow /\ y \in InputRow
          /\ x.activeDays = y.activeDays
          /\ Better(x, y)
      BY <2>1, ScoringInputIs DEF Better
    <3> HIDE DEF x, y
    <3>3. computeProductivityScore(x, sessions) >= computeProductivityScore(y, sessions)
      BY <3>1, <3>2, ScoreKeeps
    <3> QED
      BY <3>3 DEF x, y
  <2> QED
    BY <2>1 DEF BetterWorkScoresNoLess
<1> QED
  BY <1>1, AnalyticsTypeCorrect, PTL

----------------------------------------------------------------------------
\* The rows joined to an event are those of its day, or 0.
LEMMA JoinedIs ==
    ASSUME ATypeOK, NEW r \in EventRows, NEW day, day = DayOf(EventAt(r).at)
    PROVE  /\ RowsOf(day) = {} => JoinedScores(r) = {0}
           /\ RowsOf(day) # {} => JoinedScores(r) = RowsOf(day)
           /\ 0 \notin RowsOf(day)
           /\ IsFiniteSet(JoinedScores(r))
<1>1. /\ RowsOf(day) = {} => JoinedScores(r) = {0}
      /\ RowsOf(day) # {} => JoinedScores(r) = RowsOf(day)
  BY DEF JoinedScores, RowsOf
<1>2. DOMAIN scores = 1..Len(scores) /\ Len(scores) \in Nat
  BY DEF ATypeOK
<1>3. 0 \notin RowsOf(day)
  BY <1>2 DEF RowsOf
<1>4. IsFiniteSet(DOMAIN scores)
  BY <1>2, FS_Interval
<1>5. IsFiniteSet(RowsOf(day))
  BY <1>4, FS_Subset DEF RowsOf
<1> QED
  BY <1>1, <1>3, <1>5, FS_Singleton

\* The pairs of an event and a score row that fall into one bucket.
PairsOf(day, score, ks) == EventsOf(day) \X {k \in ks : ScoreOf(k) = score}

\* A bucket counts the pairs of its day and score; each joined pair has its bucket.
LEMMA BucketsAre ==
    ASSUME ATypeOK
    PROVE  /\ \A b \in getDailyBuckets : \E r \in EventRows : \E k \in JoinedScores(r) :
                /\ b.bucket = DayOf(EventAt(r).at) /\ b.score = ScoreOf(k)
                /\ b.eventsCount =
                      Cardinality(PairsOf(b.bucket, b.score, JoinedScores(r)))
           /\ \A r \in EventRows : \A k \in JoinedScores(r) : \E b \in getDailyBuckets :
                b.bucket = DayOf(EventAt(r).at) /\ b.score = ScoreOf(k)
<1> DEFINE joined  == UNION {{r} \X JoinedScores(r) : r \in EventRows}
           Key(j)  == <<DayOf(EventAt(j[1]).at), ScoreOf(j[2])>>
           Of(key) == {j \in joined : Key(j) = key}
           Bucket(key) == [bucket      |-> key[1],
                           score       |-> key[2],
                           eventsCount |-> Cardinality(Of(key))]
<1>1. getDailyBuckets = {Bucket(key) : key \in {Key(j) : j \in joined}}
  BY Zenon DEF getDailyBuckets
<1>2. \A j : j \in joined <=> \E r \in EventRows : \E k \in JoinedScores(r) : j = <<r, k>>
  OBVIOUS
<1>3. \A r, k : Key(<<r, k>>) = <<DayOf(EventAt(r).at), ScoreOf(k)>>
  OBVIOUS
<1>4. \A day, score : /\ Bucket(<<day, score>>).bucket = day
                      /\ Bucket(<<day, score>>).score = score
                      /\ Bucket(<<day, score>>).eventsCount = Cardinality(Of(<<day, score>>))
  OBVIOUS
<1>5. ASSUME NEW r \in EventRows, NEW score
      PROVE  Of(<<DayOf(EventAt(r).at), score>>) =
                 PairsOf(DayOf(EventAt(r).at), score, JoinedScores(r))
  <2> DEFINE day == DayOf(EventAt(r).at)
  <2>1. \A q \in EventRows : DayOf(EventAt(q).at) = day => JoinedScores(q) = JoinedScores(r)
    BY DEF JoinedScores
  <2>2. ASSUME NEW j \in Of(<<day, score>>) PROVE j \in PairsOf(day, score, JoinedScores(r))
    <3>1. PICK q \in EventRows : \E k \in JoinedScores(q) : j = <<q, k>>
      BY <1>2, <2>2
    <3>2. PICK k \in JoinedScores(q) : j = <<q, k>>
      BY <3>1
    <3>3. DayOf(EventAt(q).at) = day /\ ScoreOf(k) = score
      BY <1>3, <2>2, <3>2
    <3> QED
      BY <2>1, <3>2, <3>3 DEF PairsOf, EventsOf
  <2>3. ASSUME NEW j \in PairsOf(day, score, JoinedScores(r)) PROVE j \in Of(<<day, score>>)
    <3>1. PICK q \in EventsOf(day), k \in JoinedScores(r) : j = <<q, k>> /\ ScoreOf(k) = score
      BY <2>3 DEF PairsOf
    <3>2. q \in EventRows /\ DayOf(EventAt(q).at) = day
      BY <3>1 DEF EventsOf
    <3>3. j \in joined /\ Key(j) = <<day, score>>
      BY <1>2, <1>3, <2>1, <3>1, <3>2
    <3> QED
      BY <3>3
  <2> QED
    BY <2>2, <2>3
<1> HIDE DEF joined, Key, Of, Bucket
<1>6. ASSUME NEW b \in getDailyBuckets
      PROVE  \E r \in EventRows : \E k \in JoinedScores(r) :
                /\ b.bucket = DayOf(EventAt(r).at) /\ b.score = ScoreOf(k)
                /\ b.eventsCount =
                      Cardinality(PairsOf(b.bucket, b.score, JoinedScores(r)))
  <2>1. PICK j \in joined : b = Bucket(Key(j))
    BY <1>1
  <2>2. PICK r \in EventRows : \E k \in JoinedScores(r) : j = <<r, k>>
    BY <1>2, <2>1
  <2>3. PICK k \in JoinedScores(r) : j = <<r, k>>
    BY <2>2
  <2>4. b = Bucket(<<DayOf(EventAt(r).at), ScoreOf(k)>>)
    BY <1>3, <2>1, <2>3
  <2>5. /\ b.bucket = DayOf(EventAt(r).at) /\ b.score = ScoreOf(k)
        /\ b.eventsCount = Cardinality(Of(<<DayOf(EventAt(r).at), ScoreOf(k)>>))
    BY <1>4, <2>4
  <2> QED
    BY <1>5, <2>5
<1>7. ASSUME NEW r \in EventRows, NEW k \in JoinedScores(r)
      PROVE  \E b \in getDailyBuckets : b.bucket = DayOf(EventAt(r).at) /\ b.score = ScoreOf(k)
  <2>1. <<r, k>> \in joined
    BY <1>2
  <2>2. Bucket(Key(<<r, k>>)) \in getDailyBuckets
    BY <1>1, <2>1
  <2> QED
    BY <1>3, <1>4, <2>2
<1> QED
  BY <1>6, <1>7

(***************************************************************************)
(* Every day with events has a bucket for each of its scores, which counts *)
(* the day's events once for each score row that has it.                   *)
(***************************************************************************)
THEOREM BucketsCountEveryDay == ASpec => []BucketsCountDays
<1>1. ATypeOK => BucketsCountDays
  <2> SUFFICES ASSUME ATypeOK PROVE BucketsCountDays
    OBVIOUS
  <2>1. {b.bucket : b \in getDailyBuckets} = {DayOf(EventAt(r).at) : r \in EventRows}
    <3>1. ASSUME NEW b \in getDailyBuckets
          PROVE  \E r \in EventRows : b.bucket = DayOf(EventAt(r).at)
      BY BucketsAre
    <3>2. ASSUME NEW r \in EventRows
          PROVE  \E b \in getDailyBuckets : b.bucket = DayOf(EventAt(r).at)
      <4> DEFINE day == DayOf(EventAt(r).at)
      <4>1. JoinedScores(r) # {}
        <5> HIDE DEF day
        <5> QED
          BY JoinedIs DEF day
      <4> QED
        BY <4>1, BucketsAre
    <3> QED
      BY <3>1, <3>2
  <2>2. ASSUME NEW b \in getDailyBuckets
        PROVE  /\ CountsItsRows(b)
               /\ \A i \in RowsOf(b.bucket) : \E c \in getDailyBuckets :
                     c.bucket = b.bucket /\ c.score = scores[i].score
    <3>0. PICK r \in EventRows : \E k \in JoinedScores(r) :
              /\ b.bucket = DayOf(EventAt(r).at) /\ b.score = ScoreOf(k)
              /\ b.eventsCount = Cardinality(PairsOf(b.bucket, b.score, JoinedScores(r)))
      BY BucketsAre, Zenon
    <3>1. PICK k \in JoinedScores(r) :
              /\ b.bucket = DayOf(EventAt(r).at) /\ b.score = ScoreOf(k)
              /\ b.eventsCount = Cardinality(PairsOf(b.bucket, b.score, JoinedScores(r)))
      BY <3>0
    <3> DEFINE ks == {i \in JoinedScores(r) : ScoreOf(i) = b.score}
    <3>2. /\ RowsOf(b.bucket) = {} => JoinedScores(r) = {0}
          /\ RowsOf(b.bucket) # {} => JoinedScores(r) = RowsOf(b.bucket)
          /\ 0 \notin RowsOf(b.bucket)
          /\ IsFiniteSet(JoinedScores(r))
      BY <3>1, JoinedIs
    <3>3. IsFiniteSet(ks) /\ IsFiniteSet(EventsOf(b.bucket))
      BY <3>2, EventRowsIs, FS_Subset DEF EventsOf
    <3>4. /\ Cardinality(EventsOf(b.bucket)) \in Nat
          /\ PairsOf(b.bucket, b.score, JoinedScores(r)) = EventsOf(b.bucket) \X ks
      BY <3>3, FS_CardinalityType DEF PairsOf
    <3>5. b.eventsCount = Cardinality(EventsOf(b.bucket)) * Cardinality(ks)
      <4> HIDE DEF ks
      <4> QED
        BY <3>1, <3>3, <3>4, FS_Product
    <3>6. CASE RowsOf(b.bucket) = {}
      <4>1. k = 0 /\ JoinedScores(r) = {0}
        BY <3>2, <3>6
      <4>2. b.score = 0 /\ ks = {0}
        BY <3>1, <4>1 DEF ScoreOf
      <4>3. Cardinality(ks) = 1
        <5> HIDE DEF ks
        <5> QED
          BY <4>2, FS_Singleton
      <4> HIDE DEF ks
      <4>4. b.eventsCount = Cardinality(EventsOf(b.bucket))
        BY <3>4, <3>5, <4>3
      <4> QED
        BY <3>6, <4>2, <4>4 DEF CountsItsRows
    <3>7. CASE RowsOf(b.bucket) # {}
      <4>1. ks = WithScore(RowsOf(b.bucket), b.score)
        BY <3>2, <3>7 DEF WithScore, ScoreOf
      <4>2. CountsItsRows(b)
        <5> HIDE DEF ks
        <5> QED
          BY <3>5, <3>7, <4>1 DEF CountsItsRows
      <4>3. ASSUME NEW i \in RowsOf(b.bucket)
            PROVE  \E c \in getDailyBuckets : c.bucket = b.bucket /\ c.score = scores[i].score
        <5>1. i \in JoinedScores(r) /\ i # 0
          BY <3>2, <3>7
        <5>2. ScoreOf(i) = scores[i].score
          BY <5>1 DEF ScoreOf
        <5> QED
          BY <3>1, <5>1, <5>2, BucketsAre
      <4> QED
        BY <4>2, <4>3
    <3> QED
      BY <3>6, <3>7
  <2> QED
    BY <2>1, <2>2 DEF BucketsCountDays
<1> QED
  BY <1>1, AnalyticsTypeCorrect, PTL

----------------------------------------------------------------------------
\* The events a..b are a run: a starts one, none of a + 1..b does, and b is the last
\* event or is in front of a start.
IsRun(events, a, b) ==
    /\ a \in Starts(events) /\ b \in a..Len(events)
    /\ \A c \in a + 1..b : c \notin Starts(events)
    /\ b = Len(events) \/ b + 1 \in Starts(events)

\* There is a k-th start for each k up to the number of runs.
LEMMA StartOf ==
    ASSUME NEW events, NEW N \in Nat \ {0}, DOMAIN events = 1..N, Len(events) = N,
           NEW k \in 1..RunsTo(events, N)
    PROVE  Start(events, k) \in Starts(events) /\ RunsTo(events, Start(events, k)) = k
<1> DEFINE T == {i \in 1..N : RunsTo(events, i) >= k}
<1>1. /\ RunsTo(events, 1) = 1
      /\ \A i \in 1..N : RunsTo(events, i) \in Nat
      /\ \A i \in 1..N - 1 : RunsTo(events, i + 1) =
            IF i + 1 \in Starts(events) THEN RunsTo(events, i) + 1 ELSE RunsTo(events, i)
  BY RunsToIs
<1>2. Starts(events) \subseteq 1..N /\ 1 \in Starts(events)
  BY StartsAre
<1>3. k \in Nat /\ k >= 1 /\ N \in T
  <2>1. N \in 1..N
    OBVIOUS
  <2> QED
    BY <1>1, <2>1
<1>4. PICK i \in T : \A j \in T : i <= j
  <2>1. T \subseteq Nat /\ T # {}
    BY <1>3
  <2> HIDE DEF T
  <2> QED
    BY <2>1, Least
<1>5. i \in 1..N /\ RunsTo(events, i) >= k
  OBVIOUS
<1>6. i \in Starts(events) /\ RunsTo(events, i) = k
  <2>1. CASE i = 1
    BY <1>1, <1>2, <1>3, <1>5, <2>1
  <2>2. CASE i # 1
    <3>1. i - 1 \in 1..N /\ i - 1 \in 1..N - 1 /\ (i - 1) + 1 = i /\ ~(i <= i - 1)
      BY <1>5, <2>2
    <3>2. ~(RunsTo(events, i - 1) >= k)
      BY <1>4, <3>1
    <3>3. RunsTo(events, i) = IF i \in Starts(events) THEN RunsTo(events, i - 1) + 1
                              ELSE RunsTo(events, i - 1)
      BY <1>1, <3>1
    <3>4. RunsTo(events, i - 1) \in Nat /\ RunsTo(events, i) \in Nat
      BY <1>1, <1>5, <3>1
    <3> QED
      BY <1>3, <1>5, <3>2, <3>3, <3>4
  <2> QED
    BY <2>1, <2>2
<1> QED
  BY <1>6, StartIs

LEMMA RunsToGrows ==
    ASSUME NEW events, NEW N \in Nat \ {0}, DOMAIN events = 1..N, Len(events) = N,
           NEW i \in 1..N
    PROVE  RunsTo(events, i) <= RunsTo(events, N)
<1> DEFINE A == Starts(events) \cap 1..i
           B == Starts(events) \cap 1..N
<1>1. IsFiniteSet(1..N)
  BY FS_Interval
<1>2. IsFiniteSet(B) /\ A \subseteq B
  <2>1. 1..i \subseteq 1..N
    OBVIOUS
  <2>2. A \subseteq B
    BY <2>1
  <2> QED
    BY <1>1, <2>2, FS_Intersection
<1> HIDE DEF A, B
<1>3. Cardinality(A) <= Cardinality(B)
  BY <1>2, FS_Subset
<1> QED
  BY <1>3 DEF RunsTo, A, B

\* Every session of buildSessions is that of a run, and every run's is there.
LEMMA SessionsOfRuns ==
    ASSUME NEW events \in Seq(Event), Len(events) # 0
    PROVE  /\ \A k \in 1..RunsTo(events, Len(events)) :
                 IsRun(events, Start(events, k), Stop(events, k))
           /\ \A a, b : IsRun(events, a, b) =>
                 \E k \in 1..RunsTo(events, Len(events)) :
                    a = Start(events, k) /\ b = Stop(events, k)
<1> DEFINE N == Len(events)
           run == RunsTo(events, N)
           S == Starts(events)
<1>1. N \in Nat \ {0} /\ DOMAIN events = 1..N /\ Len(events) = N
  BY EventIs
<1> HIDE DEF N
<1>2. S \subseteq 1..N /\ 1 \in S
  BY <1>1, StartsAre
<1>3. /\ RunsTo(events, 1) = 1
      /\ \A i \in 1..N : RunsTo(events, i) \in Nat /\ RunsTo(events, i) <= run
      /\ \A i, j \in S : i < j => RunsTo(events, i) < RunsTo(events, j)
  BY <1>1, RunsToIs, RunsToGrows
<1>4. run \in Nat
  <2>1. N \in 1..N
    BY <1>1
  <2> QED
    BY <1>3, <2>1
<1>5. \A k \in 1..run : Start(events, k) \in S /\ RunsTo(events, Start(events, k)) = k
  BY <1>1, StartOf
<1> HIDE DEF run, S
<1>6. ASSUME NEW k \in 1..run
      PROVE  IsRun(events, Start(events, k), Stop(events, k))
  <2> DEFINE a == Start(events, k)
  <2>1. a \in S /\ a \in 1..N /\ RunsTo(events, a) = k
    BY <1>2, <1>5
  <2>2. CASE k < run
    <3> DEFINE c == Start(events, k + 1)
    <3>1. c \in S /\ c \in 1..N /\ RunsTo(events, c) = k + 1
      <4>1. k + 1 \in 1..run
        BY <1>4, <2>2
      <4> QED
        BY <1>2, <1>5, <4>1
    <3>2. Stop(events, k) = c - 1
      BY <1>1, <2>2 DEF Stop, run, N
    <3> HIDE DEF a, c
    <3>3. a < c
      BY <1>3, <2>1, <3>1
    <3>4. \A x \in a + 1..c - 1 : x \notin S
      <4> SUFFICES ASSUME NEW x \in a + 1..c - 1, x \in S PROVE FALSE
        OBVIOUS
      <4>1. x \in 1..N /\ a < x /\ x < c
        BY <1>1, <2>1, <3>1
      <4>2. RunsTo(events, a) < RunsTo(events, x) /\ RunsTo(events, x) < RunsTo(events, c)
        BY <1>3, <2>1, <3>1, <4>1
      <4> QED
        BY <1>3, <2>1, <3>1, <4>1, <4>2
    <3>5. c - 1 \in a..N /\ (c - 1) + 1 = c
      BY <1>1, <2>1, <3>1, <3>3
    <3> QED
      BY <2>1, <3>1, <3>2, <3>4, <3>5 DEF IsRun, S, N, a
  <2>3. CASE ~(k < run)
    <3>1. k = run
      BY <1>4, <2>3
    <3>2. Stop(events, k) = N
      BY <2>3 DEF Stop, run, N
    <3> HIDE DEF a
    <3>3. \A x \in a + 1..N : x \notin S
      <4> SUFFICES ASSUME NEW x \in a + 1..N, x \in S PROVE FALSE
        OBVIOUS
      <4>1. x \in 1..N /\ a < x
        BY <1>1, <2>1
      <4>2. RunsTo(events, a) < RunsTo(events, x) /\ RunsTo(events, x) <= run
        BY <1>3, <2>1, <4>1
      <4> QED
        BY <1>3, <1>4, <2>1, <3>1, <4>1, <4>2
    <3>4. N \in a..N
      BY <1>1, <2>1
    <3> QED
      BY <2>1, <3>2, <3>3, <3>4 DEF IsRun, S, N, a
  <2> QED
    BY <2>2, <2>3
<1>7. ASSUME NEW a, NEW b, IsRun(events, a, b)
      PROVE  \E k \in 1..run : a = Start(events, k) /\ b = Stop(events, k)
  <2>1. /\ a \in S /\ b \in a..N /\ a \in 1..N
        /\ \A c \in a + 1..b : c \notin S
        /\ b = N \/ b + 1 \in S
    BY <1>2, <1>7 DEF IsRun, S, N
  <2> DEFINE k == RunsTo(events, a)
  <2>2. k \in Nat /\ k <= run
    BY <1>3, <2>1
  <2>3. k >= 1
    <3>1. a = 1 \/ 1 < a
      BY <2>1
    <3> QED
      BY <1>2, <1>3, <2>1, <2>2, <3>1
  <2>4. Start(events, k) = a
    BY <1>1, <2>1, StartIs DEF S
  <2> HIDE DEF k
  <2>5. ASSUME k < run
        PROVE  /\ Start(events, k + 1) \in S /\ Start(events, k + 1) \in b + 1..N
               /\ RunsTo(events, Start(events, k + 1)) = k + 1
    <3> DEFINE c == Start(events, k + 1)
    <3>1. k + 1 \in 1..run
      BY <1>4, <2>2, <2>5
    <3>2. c \in S /\ c \in 1..N /\ RunsTo(events, c) = k + 1
      BY <1>2, <1>5, <3>1
    <3> HIDE DEF c
    <3>3. a < c
      <4> SUFFICES ASSUME ~(a < c) PROVE FALSE
        OBVIOUS
      <4>1. c = a \/ c < a
        BY <2>1, <3>2
      <4> QED
        BY <1>3, <2>1, <2>2, <3>2, <4>1 DEF k
    <3>4. c \notin a + 1..b
      BY <2>1, <3>2
    <3>5. c \in b + 1..N
      BY <2>1, <3>2, <3>3, <3>4
    <3> QED
      BY <3>2, <3>5 DEF c
  <2>6. CASE b = N
    <3>1. ~(k < run)
      <4> SUFFICES ASSUME k < run PROVE FALSE
        OBVIOUS
      <4>1. Start(events, k + 1) \in N + 1..N
        BY <2>5, <2>6
      <4> QED
        BY <1>1, <4>1
    <3>2. Stop(events, k) = N
      BY <3>1 DEF Stop, run, N
    <3> QED
      BY <2>2, <2>3, <2>4, <2>6, <3>2
  <2>7. CASE b # N
    <3>1. b + 1 \in S /\ b + 1 \in 1..N /\ a < b + 1
      BY <1>2, <2>1, <2>7
    <3>2. k < RunsTo(events, b + 1) /\ RunsTo(events, b + 1) <= run
          /\ RunsTo(events, b + 1) \in Nat
      BY <1>3, <2>1, <3>1 DEF k
    <3>3. k < run
      BY <1>4, <2>2, <3>2
    <3> DEFINE c == Start(events, k + 1)
    <3>4. c \in S /\ c \in b + 1..N /\ RunsTo(events, c) = k + 1
      BY <2>5, <3>3
    <3> HIDE DEF c
    <3>5. c = b + 1
      <4> SUFFICES ASSUME c # b + 1 PROVE FALSE
        OBVIOUS
      <4>1. b + 1 < c
        BY <2>1, <3>4
      <4>2. RunsTo(events, b + 1) < RunsTo(events, c)
        BY <1>3, <3>1, <3>4, <4>1
      <4> QED
        BY <2>2, <3>2, <3>4, <4>2
    <3>6. Stop(events, k) = c - 1
      BY <3>3 DEF Stop, run, N, c
    <3>7. c - 1 = b
      BY <2>1, <3>5
    <3> QED
      BY <2>2, <2>3, <2>4, <3>3, <3>6, <3>7
  <2> QED
    BY <2>6, <2>7
<1> QED
  BY <1>6, <1>7 DEF run, N

LEMMA RangeIs ==
    ASSUME NEW events \in Seq(Event), Len(events) # 0
    PROVE  /\ \A s \in Range(buildSessions(events)) :
                 \E a, b : IsRun(events, a, b) /\ s = RunSession(events, a, b)
           /\ \A a, b : IsRun(events, a, b) =>
                 RunSession(events, a, b) \in Range(buildSessions(events))
<1> DEFINE run == RunsTo(events, Len(events))
           Of(k) == RunSession(events, Start(events, k), Stop(events, k))
<1>1. Range(buildSessions(events)) = {Of(k) : k \in 1..run}
  <2>1. buildSessions(events) = [k \in 1..run |-> Of(k)]
    BY BuildIsRuns DEF Runs
  <2> HIDE DEF Of, run
  <2> QED
    BY <2>1 DEF Range
<1> HIDE DEF run
<1>2. /\ \A k \in 1..run : IsRun(events, Start(events, k), Stop(events, k))
      /\ \A a, b : IsRun(events, a, b) =>
            \E k \in 1..run : a = Start(events, k) /\ b = Stop(events, k)
  BY SessionsOfRuns DEF run
<1> QED
  BY <1>1, <1>2, Zenon

----------------------------------------------------------------------------
\* Where event j of s is in u, after one was put in at place i.
Moved(j, i) == IF j < i THEN j ELSE j + 1

LEMMA SameRunSession ==
    ASSUME NEW s, NEW a, NEW b, NEW u, NEW c, NEW d,
           s[a].at = u[c].at, s[b].at = u[d].at,
           (\E k \in a + 1..b + 1 : k <= Len(s) /\ s[k].type = "interruption") <=>
           (\E k \in c + 1..d + 1 : k <= Len(u) /\ u[k].type = "interruption")
    PROVE  RunSession(s, a, b) = RunSession(u, c, d)
<1> DEFINE P == \E k \in a + 1..b + 1 : k <= Len(s) /\ s[k].type = "interruption"
           Q == \E k \in c + 1..d + 1 : k <= Len(u) /\ u[k].type = "interruption"
<1>1. P \in BOOLEAN /\ Q \in BOOLEAN /\ (P <=> Q)
  OBVIOUS
<1>2. /\ RunSession(s, a, b) = [startedAt |-> s[a].at, endedAt |-> s[b].at, interrupted |-> P]
      /\ RunSession(u, c, d) = [startedAt |-> u[c].at, endedAt |-> u[d].at, interrupted |-> Q]
  BY DEF RunSession
<1> HIDE DEF P, Q
<1>3. P = Q
  BY <1>1
<1> QED
  BY <1>2, <1>3

\* An event that is put in changes what is a break only at its place and behind it.
LEMMA BreaksMove ==
    ASSUME NEW s, NEW u, NEW N \in Nat, NEW i \in 1..N + 1, NEW ev,
           Len(s) = N, Inserted(u, s, i, ev), NEW j \in 2..N, j # i
    PROVE  j \in Breaks(s) <=> Moved(j, i) \in Breaks(u)
<1>1. /\ Len(u) = N + 1
      /\ \A k \in 1..i - 1 : u[k] = s[k]
      /\ \A k \in i + 1..N + 1 : u[k] = s[k - 1]
  BY DEF Inserted
<1>2. CASE j < i
  <2>1. j \in 1..i - 1 /\ j - 1 \in 1..i - 1 /\ j \in 2..N + 1 /\ Moved(j, i) = j
    BY <1>2 DEF Moved
  <2>2. u[j] = s[j] /\ u[j - 1] = s[j - 1]
    BY <1>1, <2>1
  <2> QED
    BY <1>1, <2>1, <2>2 DEF Breaks
<1>3. CASE ~(j < i)
  <2>1. /\ j + 1 \in i + 1..N + 1 /\ j \in i + 1..N + 1 /\ j + 1 \in 2..N + 1
        /\ (j + 1) - 1 = j /\ Moved(j, i) = j + 1
    BY <1>3 DEF Moved
  <2>2. u[j + 1] = s[j] /\ u[j] = s[j - 1]
    BY <1>1, <2>1
  <2> QED
    BY <1>1, <2>1, <2>2 DEF Breaks
<1> QED
  BY <1>2, <1>3

LEMMA StartsMove ==
    ASSUME NEW s \in Seq(Event), NEW u \in Seq(Event), NEW i \in 1..Len(s) + 1, NEW ev,
           Inserted(u, s, i, ev), NEW j \in 1..Len(s), j # i
    PROVE  j \in Starts(s) <=> Moved(j, i) \in Starts(u)
<1> DEFINE N == Len(s)
<1>1. N \in Nat \ {0} /\ DOMAIN s = 1..N /\ Len(u) = N + 1 /\ DOMAIN u = 1..N + 1
  BY EventIs DEF Inserted
<1> HIDE DEF N
<1>2. CASE j = 1
  <2>1. Moved(j, i) = 1
    BY <1>1, <1>2 DEF Moved, N
  <2> QED
    BY <1>1, <1>2, <2>1 DEF Starts
<1>3. CASE j # 1
  <2>1. j \in 2..N /\ Moved(j, i) # 1
    BY <1>1, <1>3 DEF N, Moved
  <2>2. j \in Breaks(s) <=> Moved(j, i) \in Breaks(u)
    BY <1>1, <2>1, BreaksMove DEF N
  <2> QED
    BY <1>3, <2>1, <2>2 DEF Starts
<1> QED
  BY <1>2, <1>3

\* A run that ends before the event in front of the place, or begins after the one
\* behind it, stays a run.
LEMMA RunStays ==
    ASSUME NEW s \in Seq(Event), NEW u \in Seq(Event), NEW i \in 1..Len(s) + 1, NEW ev,
           Inserted(u, s, i, ev), NEW a, NEW b, IsRun(s, a, b), b + 1 < i \/ a > i
    PROVE  /\ IsRun(u, Moved(a, i), Moved(b, i))
           /\ RunSession(s, a, b) = RunSession(u, Moved(a, i), Moved(b, i))
<1> DEFINE N == Len(s)
<1>1. N \in Nat /\ Len(u) = N + 1 /\ i \in 1..N + 1
  BY DEF Inserted
<1>2. /\ \A k \in 1..i - 1 : u[k] = s[k]
      /\ \A k \in i + 1..N + 1 : u[k] = s[k - 1]
  BY DEF Inserted
<1>3. /\ a \in Starts(s) /\ b \in a..N
      /\ \A c \in a + 1..b : c \notin Starts(s)
      /\ b = N \/ b + 1 \in Starts(s)
  BY DEF IsRun
<1>4. \A j \in 1..N : j # i => (j \in Starts(s) <=> Moved(j, i) \in Starts(u))
  BY StartsMove
<1> HIDE DEF N
<1>5. a \in 1..N
  <2>1. Starts(s) \subseteq 1..N
    BY EventIs DEF Starts, Breaks, N
  <2> QED
    BY <1>3, <2>1
<1>6. CASE b + 1 < i
  <2>1. a \in 1..i - 1 /\ b \in 1..i - 1 /\ b + 1 \in 1..i - 1 /\ b + 1 \in 1..N
        /\ Moved(a, i) = a /\ Moved(b, i) = b /\ Moved(b + 1, i) = b + 1 /\ b # N
    BY <1>1, <1>3, <1>5, <1>6 DEF Moved
  <2>2. a \in Starts(u) /\ b + 1 \in Starts(u)
    <3>1. a # i /\ b + 1 # i
      BY <1>1, <2>1
    <3> QED
      BY <1>3, <1>4, <1>5, <2>1, <3>1
  <2>3. ASSUME NEW c \in a + 1..b PROVE c \notin Starts(u)
    <3>1. c \in 1..N /\ c # i /\ Moved(c, i) = c
      BY <1>1, <2>1 DEF Moved
    <3> QED
      BY <1>3, <1>4, <3>1
  <2>4. IsRun(u, a, b)
    <3>1. b \in a..Len(u)
      BY <1>1, <1>3, <2>1
    <3> QED
      BY <2>2, <2>3, <3>1 DEF IsRun
  <2>5. \A k \in a + 1..b + 1 : u[k] = s[k] /\ k <= Len(u) /\ k <= Len(s)
    <3> SUFFICES ASSUME NEW k \in a + 1..b + 1
                 PROVE  u[k] = s[k] /\ k <= Len(u) /\ k <= Len(s)
      OBVIOUS
    <3>1. k \in 1..i - 1 /\ k <= N /\ k <= N + 1
      BY <1>1, <2>1
    <3> QED
      BY <1>1, <1>2, <3>1 DEF N
  <2>6. u[a] = s[a] /\ u[b] = s[b]
    BY <1>2, <2>1
  <2>8. (\E k \in a + 1..b + 1 : k <= Len(s) /\ s[k].type = "interruption") <=>
        (\E k \in a + 1..b + 1 : k <= Len(u) /\ u[k].type = "interruption")
    BY <2>5, Zenon
  <2>7. RunSession(s, a, b) = RunSession(u, a, b)
    BY <2>6, <2>8, SameRunSession
  <2> QED
    BY <2>1, <2>4, <2>7
<1>7. CASE a > i
  <2>1. /\ a + 1 \in i + 1..N + 1 /\ b + 1 \in i + 1..N + 1 /\ a - 1 \in 1..N
        /\ Moved(a, i) = a + 1 /\ Moved(b, i) = b + 1
        /\ (a + 1) - 1 = a /\ (b + 1) - 1 = b /\ b \in Nat
    BY <1>1, <1>3, <1>5, <1>7 DEF Moved
  <2>2. a + 1 \in Starts(u)
    BY <1>3, <1>4, <1>5, <1>7, <2>1
  <2>3. ASSUME NEW c \in (a + 1) + 1..b + 1 PROVE c \notin Starts(u)
    <3>1. c - 1 \in 1..N /\ c - 1 # i /\ Moved(c - 1, i) = c /\ c - 1 \in a + 1..b
      BY <1>1, <1>5, <1>7, <2>1 DEF Moved
    <3> QED
      BY <1>3, <1>4, <3>1
  <2>4. b + 1 = N + 1 \/ (b + 1) + 1 \in Starts(u)
    <3>1. CASE b = N
      BY <3>1
    <3>2. CASE b # N
      <4>1. b + 1 \in Starts(s) /\ b + 1 \in 1..N /\ b + 1 # i
            /\ Moved(b + 1, i) = (b + 1) + 1
        BY <1>1, <1>3, <1>7, <2>1, <3>2 DEF Moved
      <4> QED
        BY <1>4, <4>1
    <3> QED
      BY <3>1, <3>2
  <2>5. IsRun(u, a + 1, b + 1)
    <3>1. b + 1 \in a + 1..Len(u)
      BY <1>1, <1>3, <2>1
    <3> QED
      BY <1>1, <2>2, <2>3, <2>4, <3>1 DEF IsRun
  <2>6. u[a + 1] = s[a] /\ u[b + 1] = s[b]
    BY <1>2, <2>1
  <2>7. (\E k \in a + 1..b + 1 : k <= Len(s) /\ s[k].type = "interruption") <=>
        (\E k \in (a + 1) + 1..(b + 1) + 1 : k <= Len(u) /\ u[k].type = "interruption")
    <3>1. ASSUME NEW k \in a + 1..b + 1, k <= Len(s)
          PROVE  /\ k + 1 \in (a + 1) + 1..(b + 1) + 1 /\ k + 1 <= Len(u)
                 /\ u[k + 1] = s[k]
      <4>1. k + 1 \in i + 1..N + 1 /\ (k + 1) - 1 = k /\ k + 1 <= N + 1
            /\ k + 1 \in (a + 1) + 1..(b + 1) + 1
        BY <1>1, <1>5, <1>7, <2>1, <3>1 DEF N
      <4> QED
        BY <1>1, <1>2, <4>1
    <3>2. ASSUME NEW k \in (a + 1) + 1..(b + 1) + 1, k <= Len(u)
          PROVE  k - 1 \in a + 1..b + 1 /\ k - 1 <= Len(s) /\ u[k] = s[k - 1]
      <4>1. k \in i + 1..N + 1 /\ k - 1 <= N /\ k - 1 \in a + 1..b + 1
        BY <1>1, <1>5, <1>7, <2>1, <3>2
      <4> QED
        BY <1>1, <1>2, <4>1 DEF N
    <3> QED
      BY <3>1, <3>2, Zenon
  <2>8. RunSession(s, a, b) = RunSession(u, a + 1, b + 1)
    BY <2>6, <2>7, SameRunSession
  <2> QED
    BY <2>1, <2>5, <2>8
<1> QED
  BY <1>6, <1>7

\* The sessions away from the place are there before and after.
LEMMA InsertIsLocal ==
    ASSUME NEW s, IsHistory(s), NEW u \in Seq(Event), NEW i \in 1..Len(s) + 1, NEW ev,
           Inserted(u, s, i, ev), NEW x \in Range(buildSessions(s)), Away(x, s, i)
    PROVE  x \in Range(buildSessions(u))
<1>1. s \in Seq(Event) /\ Len(s) \in Nat /\ DOMAIN s = 1..Len(s)
      /\ (\A j \in 1..Len(s) : s[j].at \in Nat)
      /\ \A j, k \in 1..Len(s) : j < k => s[j].at <= s[k].at
  BY EventIs DEF IsHistory
<1>2. Len(s) # 0
  <2> SUFFICES ASSUME Len(s) = 0 PROVE FALSE
    OBVIOUS
  <2>1. s = <<>>
    BY <1>1
  <2>2. Range(buildSessions(s)) = {}
    BY <2>1 DEF buildSessions, Range
  <2> QED
    BY <2>2
<1>3. PICK a, b : IsRun(s, a, b) /\ x = RunSession(s, a, b)
  BY <1>1, <1>2, RangeIs
<1>4. a \in 1..Len(s) /\ b \in a..Len(s) /\ b \in 1..Len(s)
  <2>1. Starts(s) \subseteq 1..Len(s)
    BY <1>1 DEF Starts, Breaks
  <2>2. a \in 1..Len(s) /\ b \in a..Len(s)
    BY <1>3, <2>1 DEF IsRun
  <2> QED
    BY <1>1, <2>2
<1>5. x.startedAt = s[a].at /\ x.endedAt = s[b].at
  BY <1>3 DEF RunSession
<1>6. b + 1 < i \/ a > i
  <2>1. CASE i > 1 /\ s[b].at < s[i - 1].at
    <3>1. i - 1 \in 1..Len(s)
      BY <1>1, <2>1
    <3>2. ~(i - 1 < b) /\ i - 1 # b
      BY <1>1, <1>4, <2>1, <3>1
    <3> QED
      BY <1>4, <3>1, <3>2
  <2>2. CASE i <= Len(s) /\ s[a].at > s[i].at
    <3>1. i \in 1..Len(s)
      BY <1>1, <2>2
    <3>2. ~(a < i) /\ a # i
      BY <1>1, <1>4, <2>2, <3>1
    <3> QED
      BY <1>4, <3>1, <3>2
  <2> QED
    BY <1>5, <2>1, <2>2 DEF Away
<1>7. IsRun(u, Moved(a, i), Moved(b, i)) /\ x = RunSession(u, Moved(a, i), Moved(b, i))
  BY <1>1, <1>3, <1>6, RunStays
<1>8. Len(u) # 0
  BY <1>1 DEF Inserted
<1> QED
  BY <1>7, <1>8, RangeIs

LEMMA LocalStep ==
    ASSUME ATypeOK, [ANext]_avars, NEW t \in TaskIds, Len(history'[t]) > Len(history[t])
    PROVE  \E i \in DOMAIN history'[t] :
               /\ NewPlace(t, i)
               /\ \A s \in Range(buildSessions(history[t])) :
                     Away(s, history[t], i) => s \in Range(buildSessions(history'[t]))
<1>0. history \in [TaskIds -> Seq(Event)] /\ Len(history[t]) \in Nat
  BY DEF ATypeOK
<1>1. history' # history
  <2> SUFFICES ASSUME history' = history PROVE FALSE
    OBVIOUS
  <2>1. Len(history'[t]) = Len(history[t])
    OBVIOUS
  <2> QED
    BY <1>0, <2>1
<1>2. PICK r \in TaskIds, type \in EventTypes, at \in Times :
          \E i \in 1..Len(history[r]) + 1 : Record(r, type, at, i)
  BY <1>1 DEF ANext, avars, ComputeScore, PersistScore
<1>3. PICK i \in 1..Len(history[r]) + 1 : Record(r, type, at, i)
  BY <1>2
<1> DEFINE ev == [type |-> type, at |-> at]
<1>4. /\ ev \in Event /\ IsHistory(history[r])
      /\ history' = [history EXCEPT ![r] = InsertAt(history[r], i, ev)]
  BY <1>3, RecordIs
<1>5. r = t
  <2> SUFFICES ASSUME r # t PROVE FALSE
    OBVIOUS
  <2>1. history'[t] = history[t]
    BY <1>0, <1>4
  <2> QED
    BY <1>0, <2>1
<1> HIDE DEF ev
<1>6. history'[t] = InsertAt(history[t], i, ev) /\ history[t] \in Seq(Event)
  BY <1>0, <1>4, <1>5
<1>7. history'[t] \in Seq(Event) /\ Inserted(history'[t], history[t], i, ev)
  BY <1>4, <1>5, <1>6, InsertIs
<1>8. NewPlace(t, i)
  BY <1>6, <1>7 DEF NewPlace, Inserted
<1>9. i \in DOMAIN history'[t]
  BY <1>5, <1>7 DEF Inserted
<1>10. \A s \in Range(buildSessions(history[t])) :
          Away(s, history[t], i) => s \in Range(buildSessions(history'[t]))
  BY <1>4, <1>5, <1>7, InsertIsLocal
<1> QED
  BY <1>8, <1>9, <1>10

\* An event, however late, changes no session but those next to its place.
THEOREM EventsAreLocal == ASpec => EventIsLocal
<1>1. ATypeOK /\ [ANext]_avars =>
          \A t \in TaskIds : Len(history'[t]) > Len(history[t]) =>
              \E i \in DOMAIN history'[t] :
                  /\ NewPlace(t, i)
                  /\ \A s \in Range(buildSessions(history[t])) :
                        Away(s, history[t], i) => s \in Range(buildSessions(history'[t]))
  BY LocalStep
<1> QED
  BY <1>1, AnalyticsTypeCorrect, PTL DEF ASpec, EventIsLocal

----------------------------------------------------------------------------
\* The running sums of linearRegression.
LEMMA SumsAre ==
    ASSUME NEW n \in Nat, NEW s \in [1..n -> Int]
    PROVE  /\ Sums(s)[0] = 0
           /\ \A i \in 0..n : Sums(s)[i] \in Int
           /\ \A i \in 0..n - 1 : Sums(s)[i + 1] = Sums(s)[i] + s[i + 1]
           /\ Sum(s) = Sums(s)[n]
<1>1. Len(s) = n
  OBVIOUS
<1> DEFINE After(f, i) == IF i = 0 THEN 0 ELSE f[i - 1] + s[i]
           IsSum(f, m) == f = [i \in 0..m |-> After(f, i)]
           S == {m \in Nat : \E f : IsSum(f, m)}
<1>2. 0 \in S
  <2> DEFINE g == [i \in 0..0 |-> 0]
  <2>1. IsSum(g, 0)
    OBVIOUS
  <2> QED
    BY <2>1
<1>3. ASSUME NEW m \in Nat, m \in S PROVE m + 1 \in S
  <2>1. PICK f : IsSum(f, m)
    BY <1>3
  <2> DEFINE g == [i \in 0..m + 1 |-> After(f, i)]
  <2>2. ASSUME NEW i \in 0..m + 1, i # 0 PROVE g[i - 1] = f[i - 1]
    <3>1. i - 1 \in 0..m + 1 /\ i - 1 \in 0..m
      BY <2>2
    <3> HIDE DEF After
    <3>2. g[i - 1] = After(f, i - 1)
      BY <3>1, Zenon
    <3>3. f[i - 1] = After(f, i - 1)
      BY <2>1, <3>1, Zenon
    <3> QED
      BY <3>2, <3>3, Zenon
  <2>3. IsSum(g, m + 1)
    BY <2>2, Zenon
  <2> HIDE DEF IsSum
  <2> QED
    BY <2>3
<1>4. PICK f : IsSum(f, n)
  <2> HIDE DEF S
  <2>1. \A m \in 0..n - 1 : m \in S => m + 1 \in S
    BY <1>3
  <2>2. \A m \in 0..n : m \in S
    BY <1>2, <2>1, UpTo
  <2>3. n \in S
    BY <2>2
  <2> QED
    BY <2>3, Zenon DEF S
<1> DEFINE L == Sums(s)
<1>5. L = CHOOSE h : h = [i \in 0..n |-> After(h, i)]
  BY <1>1, Zenon DEF Sums
<1> HIDE DEF L
<1>6. L = [i \in 0..n |-> After(L, i)]
  BY <1>4, <1>5, Zenon
<1>7. /\ L[0] = 0
      /\ \A i \in 0..n : i # 0 => L[i] = L[i - 1] + s[i]
  <2>1. 0 \in 0..n
    OBVIOUS
  <2> QED
    BY <1>6, <2>1, Zenon
<1>8. \A i \in 0..n - 1 : L[i + 1] = L[i] + s[i + 1]
  <2>1. \A i \in 0..n - 1 : i + 1 \in 0..n /\ i + 1 # 0 /\ (i + 1) - 1 = i
    OBVIOUS
  <2> QED
    BY <1>7, <2>1
<1> DEFINE I == {i \in 0..n : L[i] \in Int}
<1>9. \A i \in 0..n : i \in I
  <2>1. 0 \in I
    BY <1>7
  <2>2. \A i \in 0..n - 1 : i \in I => i + 1 \in I
    <3> SUFFICES ASSUME NEW i \in 0..n - 1, L[i] \in Int PROVE i + 1 \in 0..n /\ L[i + 1] \in Int
      OBVIOUS
    <3>1. i + 1 \in 1..n /\ s[i + 1] \in Int
      OBVIOUS
    <3> QED
      BY <1>8, <3>1
  <2> HIDE DEF I
  <2> QED
    BY <2>1, <2>2, UpTo
<1> QED
  BY <1>1, <1>7, <1>8, <1>9 DEF L, Sum

----------------------------------------------------------------------------
\* A pair of observations that climbs at the rate adds to the slope accordingly.
LEMMA PairClimbs ==
    ASSUME NEW a \in Nat, NEW b \in Int, NEW z \in Int, NEW rate \in Nat,
           z * b >= rate * a
    PROVE  z * (a * b) >= rate * (a * a)
<1>1. rate * a \in Int /\ z * b \in Int
  BY Times2
<1>2. (rate * a) * a <= (z * b) * a
  BY <1>1, TimesLeq
<1>3. (rate * a) * a = rate * (a * a) /\ (z * b) * a = z * (a * b)
  OBVIOUS
<1>4. rate * (a * a) \in Int /\ z * (a * b) \in Int
  BY Times2
<1> QED
  BY <1>2, <1>3, <1>4

\* What one more observation adds to the sums around the point <<X, Y>>.
Moment(n, A, B, C, X, Y) == C + n * (X * Y) - X * B - Y * A

LEMMA MomentStep ==
    ASSUME NEW n \in Int, NEW A \in Int, NEW B \in Int, NEW C \in Int,
           NEW X \in Int, NEW Y \in Int, NEW x \in Int, NEW y \in Int
    PROVE  Moment(n + 1, A + x, B + y, C + x * y, X, Y) =
               Moment(n, A, B, C, X, Y) + (X - x) * (Y - y)
BY DEF Moment

LEMMA MomentIs ==
    ASSUME NEW n \in Int, NEW A \in Int, NEW B \in Int, NEW C \in Int,
           NEW X \in Int, NEW Y \in Int
    PROVE  Moment(n, A, B, C, X, Y) \in Int
<1>1. X * Y \in Int /\ X * B \in Int /\ Y * A \in Int
  BY Times2
<1>2. n * (X * Y) \in Int
  BY <1>1, Times2
<1> QED
  BY <1>1, <1>2 DEF Moment

\* Adding keeps what a sign times one sum and a rate times the other satisfy.
LEMMA AddClimbs ==
    ASSUME NEW z \in Int, NEW rate \in Nat, NEW p \in Int, NEW q \in Int,
           NEW r \in Int, NEW s \in Int, z * p >= rate * q, z * r >= rate * s
    PROVE  z * (p + r) >= rate * (q + s)
<1>1. z * (p + r) = z * p + z * r /\ rate * (q + s) = rate * q + rate * s
  OBVIOUS
<1>2. z * p \in Int /\ z * r \in Int /\ rate * q \in Int /\ rate * s \in Int
  BY Times2
<1> QED
  BY <1>1, <1>2

\* n observations x, y in the order of x, each at least the rate above the one before.
Climbing(n, x, y, z, rate) ==
    /\ x \in [1..n -> Int] /\ y \in [1..n -> Int]
    /\ \A i \in 1..n - 1 : x[i] <= x[i + 1]
    /\ \A i \in 1..n - 1 : z * (y[i + 1] - y[i]) >= rate * (x[i + 1] - x[i])

LEMMA FarClimbs ==
    ASSUME NEW n \in Nat, NEW x, NEW y, NEW z \in Int, NEW rate \in Nat,
           Climbing(n, x, y, z, rate), NEW i \in 1..n
    PROVE  \A m \in i..n : x[i] <= x[m] /\ z * (y[m] - y[i]) >= rate * (x[m] - x[i])
<1>1. /\ \A k \in 1..n : x[k] \in Int /\ y[k] \in Int
      /\ \A k \in 1..n - 1 : x[k] <= x[k + 1]
      /\ \A k \in 1..n - 1 : z * (y[k + 1] - y[k]) >= rate * (x[k + 1] - x[k])
  BY DEF Climbing
<1> DEFINE P(m) == x[i] <= x[m] /\ z * (y[m] - y[i]) >= rate * (x[m] - x[i])
           S == {m \in i..n : P(m)}
<1>2. i \in S
  <2>1. x[i] \in Int /\ y[i] \in Int
    BY <1>1
  <2>2. x[i] - x[i] = 0 /\ y[i] - y[i] = 0
    BY <2>1
  <2>3. z * 0 = 0 /\ rate * 0 = 0
    OBVIOUS
  <2> QED
    BY <2>1, <2>2, <2>3
<1>3. ASSUME NEW m \in i..n - 1, P(m) PROVE P(m + 1)
  <2>1. m \in 1..n /\ m + 1 \in 1..n /\ m \in 1..n - 1
    OBVIOUS
  <2> DEFINE p == y[m] - y[i]
             q == x[m] - x[i]
             r == y[m + 1] - y[m]
             s == x[m + 1] - x[m]
  <2>2. /\ x[i] \in Int /\ x[m] \in Int /\ x[m + 1] \in Int
        /\ y[i] \in Int /\ y[m] \in Int /\ y[m + 1] \in Int
    BY <1>1, <2>1
  <2>3. /\ p \in Int /\ q \in Int /\ r \in Int /\ s \in Int
        /\ p + r = y[m + 1] - y[i] /\ q + s = x[m + 1] - x[i]
    BY <2>2
  <2>4. z * p >= rate * q /\ z * r >= rate * s
    BY <1>1, <1>3, <2>1
  <2> HIDE DEF p, q, r, s
  <2>5. z * (p + r) >= rate * (q + s)
    BY <2>3, <2>4, AddClimbs
  <2>6. x[m] <= x[m + 1] /\ x[i] <= x[m]
    BY <1>1, <1>3, <2>1
  <2>7. x[i] <= x[m + 1]
    BY <2>2, <2>6
  <2> QED
    BY <2>3, <2>5, <2>7
<1>4. \A m \in i..n - 1 : m \in S => m + 1 \in S
  <2> HIDE DEF P
  <2> QED
    BY <1>3
<1> HIDE DEF S
<1>5. i \in Nat
  OBVIOUS
<1>6. \A m \in i..n : m \in S
  BY <1>2, <1>4, <1>5, UpTo
<1> QED
  BY <1>6 DEF S

Products(n, x, y) == [i \in 1..n |-> x[i] * y[i]]

\* The four running sums step by step.
LEMMA FourSums ==
    ASSUME NEW n \in Nat, NEW x \in [1..n -> Int], NEW y \in [1..n -> Int]
    PROVE  LET A == Sums(x)
               B == Sums(y)
               C == Sums(Products(n, x, y))
               D == Sums(Products(n, x, x))
           IN  /\ A[0] = 0 /\ B[0] = 0 /\ C[0] = 0 /\ D[0] = 0
               /\ \A i \in 0..n :
                     A[i] \in Int /\ B[i] \in Int /\ C[i] \in Int /\ D[i] \in Int
               /\ \A i \in 0..n - 1 :
                     /\ x[i + 1] \in Int /\ y[i + 1] \in Int
                     /\ A[i + 1] = A[i] + x[i + 1]
                     /\ B[i + 1] = B[i] + y[i + 1]
                     /\ C[i + 1] = C[i] + x[i + 1] * y[i + 1]
                     /\ D[i + 1] = D[i] + x[i + 1] * x[i + 1]
<1> DEFINE p == Products(n, x, y)
           q == Products(n, x, x)
<1>1. \A i \in 1..n : x[i] \in Int /\ y[i] \in Int
  OBVIOUS
<1>2. \A i \in 1..n : x[i] * y[i] \in Int /\ x[i] * x[i] \in Int
  BY <1>1, Times2
<1>3. p \in [1..n -> Int] /\ q \in [1..n -> Int]
  BY <1>2 DEF Products
<1>4. \A i \in 0..n - 1 : i + 1 \in 1..n /\ p[i + 1] = x[i + 1] * y[i + 1]
                          /\ q[i + 1] = x[i + 1] * x[i + 1]
  BY DEF Products
<1> HIDE DEF p, q
<1>5. /\ Sums(x)[0] = 0
      /\ \A i \in 0..n : Sums(x)[i] \in Int
      /\ \A i \in 0..n - 1 : Sums(x)[i + 1] = Sums(x)[i] + x[i + 1]
  BY SumsAre
<1>6. /\ Sums(y)[0] = 0
      /\ \A i \in 0..n : Sums(y)[i] \in Int
      /\ \A i \in 0..n - 1 : Sums(y)[i + 1] = Sums(y)[i] + y[i + 1]
  BY SumsAre
<1>7. /\ Sums(p)[0] = 0
      /\ \A i \in 0..n : Sums(p)[i] \in Int
      /\ \A i \in 0..n - 1 : Sums(p)[i + 1] = Sums(p)[i] + p[i + 1]
  BY <1>3, SumsAre
<1>8. /\ Sums(q)[0] = 0
      /\ \A i \in 0..n : Sums(q)[i] \in Int
      /\ \A i \in 0..n - 1 : Sums(q)[i + 1] = Sums(q)[i] + q[i + 1]
  BY <1>3, SumsAre
<1> QED
  BY <1>1, <1>4, <1>5, <1>6, <1>7, <1>8 DEF p, q

\* Around a later observation, the earlier ones keep the rate.
LEMMA MomentClimbs ==
    ASSUME NEW n \in Nat, NEW x, NEW y, NEW z \in Int, NEW rate \in Nat,
           Climbing(n, x, y, z, rate), NEW k \in 1..n - 1
    PROVE  LET num == Moment(k, Sums(x)[k], Sums(y)[k], Sums(Products(n, x, y))[k],
                             x[k + 1], y[k + 1])
               den == Moment(k, Sums(x)[k], Sums(x)[k], Sums(Products(n, x, x))[k],
                             x[k + 1], x[k + 1])
           IN  z * num >= rate * den /\ den >= 0 /\ (x[1] < x[k + 1] => den > 0)
<1> DEFINE A == Sums(x)
           B == Sums(y)
           C == Sums(Products(n, x, y))
           D == Sums(Products(n, x, x))
           X == x[k + 1]
           Y == y[k + 1]
           Num(j) == Moment(j, A[j], B[j], C[j], X, Y)
           Den(j) == Moment(j, A[j], A[j], D[j], X, X)
           P(j) == /\ z * Num(j) >= rate * Den(j) /\ Den(j) >= 0
                   /\ j > 0 /\ x[1] < X => Den(j) > 0
<1>1. x \in [1..n -> Int] /\ y \in [1..n -> Int]
  BY DEF Climbing
<1>2. /\ A[0] = 0 /\ B[0] = 0 /\ C[0] = 0 /\ D[0] = 0
      /\ \A i \in 0..n : A[i] \in Int /\ B[i] \in Int /\ C[i] \in Int /\ D[i] \in Int
      /\ \A i \in 0..n - 1 :
            /\ x[i + 1] \in Int /\ y[i + 1] \in Int
            /\ A[i + 1] = A[i] + x[i + 1]
            /\ B[i + 1] = B[i] + y[i + 1]
            /\ C[i + 1] = C[i] + x[i + 1] * y[i + 1]
            /\ D[i + 1] = D[i] + x[i + 1] * x[i + 1]
  BY <1>1, FourSums
<1>3. X \in Int /\ Y \in Int
  <2>1. k \in 0..n - 1
    OBVIOUS
  <2> QED
    BY <1>2, <2>1
<1>4. \A i \in 1..k : x[i] <= X /\ z * (Y - y[i]) >= rate * (X - x[i])
  <2> SUFFICES ASSUME NEW i \in 1..k PROVE x[i] <= X /\ z * (Y - y[i]) >= rate * (X - x[i])
    OBVIOUS
  <2>1. i \in 1..n /\ k + 1 \in i..n
    OBVIOUS
  <2> QED
    BY <2>1, FarClimbs
<1> HIDE DEF A, B, C, D, X, Y
<1>5. \A j \in 0..k : Num(j) \in Int /\ Den(j) \in Int
  <2> SUFFICES ASSUME NEW j \in 0..k PROVE Num(j) \in Int /\ Den(j) \in Int
    OBVIOUS
  <2>1. j \in 0..n /\ j \in Int
    OBVIOUS
  <2>2. A[j] \in Int /\ B[j] \in Int /\ C[j] \in Int /\ D[j] \in Int
    BY <1>2, <2>1
  <2> QED
    BY <1>3, <2>1, <2>2, MomentIs
<1>6. P(0)
  <2>1. Num(0) = 0 /\ Den(0) = 0
    BY <1>2, <1>3 DEF Moment
  <2> QED
    BY <2>1
<1>7. ASSUME NEW j \in 0..k - 1, P(j) PROVE P(j + 1)
  <2> DEFINE a == X - x[j + 1]
             b == Y - y[j + 1]
  <2>1. j \in 0..n /\ j \in 0..n - 1 /\ j \in 0..k /\ j + 1 \in 0..k /\ j + 1 \in 1..k /\ j \in Int
    OBVIOUS
  <2>2. /\ A[j] \in Int /\ B[j] \in Int /\ C[j] \in Int /\ D[j] \in Int
        /\ x[j + 1] \in Int /\ y[j + 1] \in Int
    BY <1>2, <2>1
  <2>3. Num(j + 1) = Num(j) + a * b
    <3>1. Num(j + 1) = Moment(j + 1, A[j] + x[j + 1], B[j] + y[j + 1],
                              C[j] + x[j + 1] * y[j + 1], X, Y)
      BY <1>2, <2>1
    <3>2. Moment(j + 1, A[j] + x[j + 1], B[j] + y[j + 1], C[j] + x[j + 1] * y[j + 1], X, Y)
              = Num(j) + a * b
      <4> DEFINE An == A[j]
                 Bn == B[j]
                 Cn == C[j]
                 xn == x[j + 1]
                 yn == y[j + 1]
      <4>1. An \in Int /\ Bn \in Int /\ Cn \in Int /\ xn \in Int /\ yn \in Int
        BY <2>2
      <4> HIDE DEF An, Bn, Cn, xn, yn
      <4>2. Moment(j + 1, An + xn, Bn + yn, Cn + xn * yn, X, Y)
                = Moment(j, An, Bn, Cn, X, Y) + (X - xn) * (Y - yn)
        BY <1>3, <2>1, <4>1 DEF Moment
      <4> QED
        BY <4>2, Zenon DEF An, Bn, Cn, xn, yn
    <3> QED
      BY <3>1, <3>2, Zenon
  <2>4. Den(j + 1) = Den(j) + a * a
    <3>1. Den(j + 1) = Moment(j + 1, A[j] + x[j + 1], A[j] + x[j + 1],
                              D[j] + x[j + 1] * x[j + 1], X, X)
      BY <1>2, <2>1
    <3> QED
      BY <1>3, <2>1, <2>2, <3>1, MomentStep
  <2>5. a \in Nat /\ b \in Int /\ z * b >= rate * a
    BY <1>3, <1>4, <2>1, <2>2
  <2>6. a * b \in Int /\ a * a \in Int /\ a * a >= 0 /\ (a > 0 => a * a > 0)
    <3> HIDE DEF a, b
    <3> QED
      BY <2>5, Times2
  <2>7. z * (a * b) >= rate * (a * a)
    <3> HIDE DEF a, b
    <3> QED
      BY <2>5, PairClimbs
  <2>8. Num(j) \in Int /\ Den(j) \in Int
    BY <1>5, <2>1
  <2>9. z * Num(j) >= rate * Den(j) /\ Den(j) >= 0 /\ (j > 0 /\ x[1] < X => Den(j) > 0)
    BY <1>7
  <2>10. j = 0 /\ x[1] < X => a > 0
    BY <1>3, <2>2
  <2> HIDE DEF Num, Den, a, b
  <2>11. z * Num(j + 1) >= rate * Den(j + 1)
    BY <2>3, <2>4, <2>6, <2>7, <2>8, <2>9, AddClimbs
  <2>12. Den(j + 1) >= 0
    BY <2>4, <2>6, <2>8, <2>9
  <2>13. x[1] < X => Den(j + 1) > 0
    <3>1. j = 0 \/ j > 0
      OBVIOUS
    <3> QED
      BY <2>4, <2>6, <2>8, <2>9, <2>10, <3>1
  <2> QED
    BY <2>11, <2>12, <2>13
<1> DEFINE S == {j \in 0..k : P(j)}
<1>8. P(k)
  <2>1. 0 \in S /\ \A j \in 0..k - 1 : j \in S => j + 1 \in S
    <3> HIDE DEF P
    <3> QED
      BY <1>6, <1>7
  <2>2. k \in Nat
    OBVIOUS
  <2> HIDE DEF S
  <2>3. \A j \in 0..k : j \in S
    BY <2>1, <2>2, UpTo
  <2>4. k \in S
    BY <2>3
  <2> QED
    BY <2>4 DEF S
<1>9. k > 0
  OBVIOUS
<1> QED
  BY <1>8, <1>9 DEF A, B, C, D, X, Y

\* So does the regression: its slope is at least the rate.
LEMMA FitClimbs ==
    ASSUME NEW n \in Nat \ {0}, NEW x, NEW y, NEW z \in Int, NEW rate \in Nat,
           Climbing(n, x, y, z, rate)
    PROVE  LET num == n * Sum(Products(n, x, y)) - Sum(x) * Sum(y)
               den == n * Sum(Products(n, x, x)) - Sum(x) * Sum(x)
           IN  /\ num \in Int /\ den \in Int
               /\ z * num >= rate * den /\ den >= 0
               /\ x[1] < x[n] => den > 0
<1> DEFINE A == Sums(x)
           B == Sums(y)
           C == Sums(Products(n, x, y))
           D == Sums(Products(n, x, x))
           Num(j) == j * C[j] - A[j] * B[j]
           Den(j) == j * D[j] - A[j] * A[j]
           P(j) == z * Num(j) >= rate * Den(j) /\ Den(j) >= 0 /\ (x[1] < x[j] => Den(j) > 0)
<1>1. x \in [1..n -> Int] /\ y \in [1..n -> Int]
  BY DEF Climbing
<1>2. /\ A[0] = 0 /\ B[0] = 0 /\ C[0] = 0 /\ D[0] = 0
      /\ \A i \in 0..n : A[i] \in Int /\ B[i] \in Int /\ C[i] \in Int /\ D[i] \in Int
      /\ \A i \in 0..n - 1 :
            /\ x[i + 1] \in Int /\ y[i + 1] \in Int
            /\ A[i + 1] = A[i] + x[i + 1]
            /\ B[i + 1] = B[i] + y[i + 1]
            /\ C[i + 1] = C[i] + x[i + 1] * y[i + 1]
            /\ D[i + 1] = D[i] + x[i + 1] * x[i + 1]
  BY <1>1, FourSums
<1>3. /\ Sum(x) = A[n] /\ Sum(y) = B[n]
      /\ Sum(Products(n, x, y)) = C[n] /\ Sum(Products(n, x, x)) = D[n]
  <2>1. Products(n, x, y) \in [1..n -> Int] /\ Products(n, x, x) \in [1..n -> Int]
    <3>1. \A i \in 1..n : x[i] \in Int /\ y[i] \in Int
      BY <1>1
    <3>2. \A i \in 1..n : x[i] * y[i] \in Int /\ x[i] * x[i] \in Int
      BY <3>1, Times2
    <3> QED
      BY <3>2 DEF Products
  <2> QED
    BY <1>1, <2>1, SumsAre
<1>4. \A j \in 1..n - 1 :
          LET num == Moment(j, A[j], B[j], C[j], x[j + 1], y[j + 1])
              den == Moment(j, A[j], A[j], D[j], x[j + 1], x[j + 1])
          IN  z * num >= rate * den /\ den >= 0 /\ (x[1] < x[j + 1] => den > 0)
  BY MomentClimbs
<1> HIDE DEF A, B, C, D
<1>5. \A j \in 0..n : Num(j) \in Int /\ Den(j) \in Int
  <2> SUFFICES ASSUME NEW j \in 0..n PROVE Num(j) \in Int /\ Den(j) \in Int
    OBVIOUS
  <2>1. j \in Int /\ A[j] \in Int /\ B[j] \in Int /\ C[j] \in Int /\ D[j] \in Int
    BY <1>2
  <2>2. j * C[j] \in Int /\ A[j] * B[j] \in Int /\ j * D[j] \in Int /\ A[j] * A[j] \in Int
    BY <2>1, Times2
  <2> QED
    BY <2>2
<1>6. P(1)
  <2>1. /\ x[1] \in Int /\ y[1] \in Int /\ A[1] = x[1] /\ B[1] = y[1]
        /\ C[1] = x[1] * y[1] /\ D[1] = x[1] * x[1]
    <3>1. 0 \in 0..n - 1 /\ 0 + 1 = 1
      OBVIOUS
    <3>2. /\ x[1] \in Int /\ y[1] \in Int
          /\ A[1] = A[0] + x[1] /\ B[1] = B[0] + y[1]
          /\ C[1] = C[0] + x[1] * y[1] /\ D[1] = D[0] + x[1] * x[1]
      BY <1>2, <3>1
    <3>3. x[1] * y[1] \in Int /\ x[1] * x[1] \in Int
      BY <3>2, Times2
    <3> QED
      BY <1>2, <3>2, <3>3
  <2>2. Num(1) = 0 /\ Den(1) = 0 /\ ~(x[1] < x[1])
    BY <2>1
  <2> QED
    BY <2>2
<1>7. ASSUME NEW j \in 1..n - 1, P(j) PROVE P(j + 1)
  <2> DEFINE num == Moment(j, A[j], B[j], C[j], x[j + 1], y[j + 1])
             den == Moment(j, A[j], A[j], D[j], x[j + 1], x[j + 1])
  <2>1. j \in 0..n - 1 /\ j \in 0..n /\ j \in Int
    OBVIOUS
  <2>2. /\ A[j] \in Int /\ B[j] \in Int /\ C[j] \in Int /\ D[j] \in Int
        /\ x[j + 1] \in Int /\ y[j + 1] \in Int
    BY <1>2, <2>1
  <2>3. /\ Num(j + 1) = (j + 1) * (C[j] + x[j + 1] * y[j + 1])
                            - (A[j] + x[j + 1]) * (B[j] + y[j + 1])
        /\ Den(j + 1) = (j + 1) * (D[j] + x[j + 1] * x[j + 1])
                            - (A[j] + x[j + 1]) * (A[j] + x[j + 1])
    BY <1>2, <2>1
  <2>4. Num(j + 1) = Num(j) + num /\ Den(j + 1) = Den(j) + den
    <3>1. (j + 1) * (C[j] + x[j + 1] * y[j + 1]) - (A[j] + x[j + 1]) * (B[j] + y[j + 1])
              = (j * C[j] - A[j] * B[j]) + num
      <4> DEFINE An == A[j]
                 Bn == B[j]
                 Cn == C[j]
                 xn == x[j + 1]
                 yn == y[j + 1]
      <4>1. An \in Int /\ Bn \in Int /\ Cn \in Int /\ xn \in Int /\ yn \in Int
        BY <2>2
      <4> HIDE DEF An, Bn, Cn, xn, yn
      <4>2. (j + 1) * (Cn + xn * yn) - (An + xn) * (Bn + yn)
                = (j * Cn - An * Bn) + Moment(j, An, Bn, Cn, xn, yn)
        BY <2>1, <4>1 DEF Moment
      <4> QED
        BY <4>2, Zenon DEF An, Bn, Cn, xn, yn
    <3>2. (j + 1) * (D[j] + x[j + 1] * x[j + 1]) - (A[j] + x[j + 1]) * (A[j] + x[j + 1])
              = (j * D[j] - A[j] * A[j]) + den
      <4> DEFINE An == A[j]
                 Dn == D[j]
                 xn == x[j + 1]
      <4>1. An \in Int /\ Dn \in Int /\ xn \in Int
        BY <2>2
      <4> HIDE DEF An, Dn, xn
      <4>2. (j + 1) * (Dn + xn * xn) - (An + xn) * (An + xn)
                = (j * Dn - An * An) + Moment(j, An, An, Dn, xn, xn)
        BY <2>1, <4>1 DEF Moment
      <4> QED
        BY <4>2, Zenon DEF An, Dn, xn
    <3> HIDE DEF num, den
    <3> QED
      BY <2>3, <3>1, <3>2
  <2>5. num \in Int /\ den \in Int
    BY <2>1, <2>2, MomentIs
  <2>6. z * num >= rate * den /\ den >= 0 /\ (x[1] < x[j + 1] => den > 0)
    BY <1>4
  <2>7. Num(j) \in Int /\ Den(j) \in Int
    BY <1>5, <2>1
  <2>8. z * Num(j) >= rate * Den(j) /\ Den(j) >= 0
    BY <1>7
  <2> HIDE DEF num, den, Num, Den
  <2>9. z * Num(j + 1) >= rate * Den(j + 1)
    BY <2>4, <2>5, <2>6, <2>7, <2>8, AddClimbs
  <2>10. Den(j + 1) >= 0 /\ (x[1] < x[j + 1] => Den(j + 1) > 0)
    BY <2>4, <2>5, <2>6, <2>7, <2>8
  <2> QED
    BY <2>9, <2>10
<1> DEFINE S == {j \in 1..n : P(j)}
<1>8. P(n)
  <2>1. 1 \in S /\ \A j \in 1..n - 1 : j \in S => j + 1 \in S
    <3> HIDE DEF P
    <3> QED
      BY <1>6, <1>7
  <2> HIDE DEF S
  <2>2. \A j \in 1..n : j \in S
    BY <2>1, UpTo
  <2>3. n \in S
    BY <2>2
  <2> QED
    BY <2>3 DEF S
<1>9. Num(n) \in Int /\ Den(n) \in Int
  BY <1>5
<1> QED
  BY <1>3, <1>8, <1>9

\* linearRegression on the score rows, with their times and scores as two sequences.
LEMMA FitIs ==
    ASSUME ATypeOK, NEW z \in Int, NEW rate \in Nat, Len(scores) >= 3,
           \A k \in 1..Len(scores) - 1 :
              z * (scores[k + 1].score - scores[k].score) >=
                  rate * (scores[k + 1].computedAt - scores[k].computedAt)
    PROVE  LET fit == linearRegression(Points(scores))
           IN  /\ fit.num \in Int /\ fit.den \in Int
               /\ z * fit.num >= rate * fit.den /\ fit.den >= 0
               /\ scores[1].computedAt < Last(scores).computedAt => fit.den > 0
<1> DEFINE n == Len(scores)
           points == Points(scores)
           x == [i \in 1..n |-> points[i].x]
           y == [i \in 1..n |-> points[i].y]
<1>1. /\ scores \in Seq(ScoreRow) /\ n \in Nat \ {0} /\ DOMAIN scores = 1..n
      /\ \A i, j \in 1..n : i < j => scores[i].computedAt <= scores[j].computedAt
  BY TypeIs
<1>2. \A i \in 1..n : scores[i].computedAt \in Nat /\ scores[i].score \in Int
  <2>1. \A r \in ScoreRow : r.computedAt \in Nat /\ r.score \in ScoreRange
    BY TimesAssumption DEF ScoreRow
  <2>2. \A v \in ScoreRange : v \in Int
    BY DEF ScoreRange
  <2> QED
    BY <1>1, <2>1, <2>2
<1>3. \A i \in 1..n : /\ points[i].x = scores[i].computedAt - scores[1].computedAt
                      /\ points[i].y = scores[i].score
  BY <1>1 DEF Points
<1>4. Len(points) = n
  BY <1>1 DEF Points
<1> HIDE DEF points, n
<1>5. \A i \in 1..n : /\ x[i] = scores[i].computedAt - scores[1].computedAt
                      /\ y[i] = scores[i].score
  BY <1>3
<1>6. 1 \in 1..n /\ n \in 1..n
  BY <1>1
<1>7. x \in [1..n -> Int] /\ y \in [1..n -> Int]
  <2>1. \A i \in 1..n : points[i].x \in Int /\ points[i].y \in Int
    BY <1>2, <1>3, <1>6
  <2> QED
    BY <2>1
<1>8. linearRegression(points) =
          [n    |-> n,
           sumX |-> Sum(x),
           sumY |-> Sum(y),
           num  |-> n * Sum([i \in 1..n |-> points[i].x * points[i].y]) - Sum(x) * Sum(y),
           den  |-> n * Sum([i \in 1..n |-> points[i].x * points[i].x]) - Sum(x) * Sum(x)]
  BY <1>4 DEF linearRegression
<1>9. /\ [i \in 1..n |-> points[i].x * points[i].y] = Products(n, x, y)
      /\ [i \in 1..n |-> points[i].x * points[i].x] = Products(n, x, x)
  BY Zenon DEF Products
<1> DEFINE num == n * Sum(Products(n, x, y)) - Sum(x) * Sum(y)
           den == n * Sum(Products(n, x, x)) - Sum(x) * Sum(x)
<1>10. linearRegression(points).num = num /\ linearRegression(points).den = den
  BY <1>8, <1>9
<1> HIDE DEF x, y
<1>11. Climbing(n, x, y, z, rate)
  <2>1. ASSUME NEW i \in 1..n - 1
        PROVE  x[i] <= x[i + 1] /\ z * (y[i + 1] - y[i]) >= rate * (x[i + 1] - x[i])
    <3>1. i \in 1..n /\ i + 1 \in 1..n /\ i < i + 1
      BY <1>1
    <3>2. /\ scores[1].computedAt \in Nat /\ scores[i].computedAt \in Nat
          /\ scores[i + 1].computedAt \in Nat
          /\ scores[i].computedAt <= scores[i + 1].computedAt
      BY <1>1, <1>2, <1>6, <3>1
    <3>3. /\ x[i] = scores[i].computedAt - scores[1].computedAt
          /\ x[i + 1] = scores[i + 1].computedAt - scores[1].computedAt
          /\ y[i] = scores[i].score /\ y[i + 1] = scores[i + 1].score
      BY <1>5, <3>1
    <3>4. x[i + 1] - x[i] = scores[i + 1].computedAt - scores[i].computedAt
      BY <3>2, <3>3
    <3>5. z * (scores[i + 1].score - scores[i].score) >=
              rate * (scores[i + 1].computedAt - scores[i].computedAt)
      BY DEF n
    <3>6. x[i] <= x[i + 1]
      BY <3>2, <3>3
    <3> QED
      BY <3>3, <3>4, <3>5, <3>6
  <2> QED
    BY <1>7, <2>1 DEF Climbing
<1>12. num \in Int /\ den \in Int /\ z * num >= rate * den /\ den >= 0
       /\ (x[1] < x[n] => den > 0)
  BY <1>1, <1>11, FitClimbs
<1>13. scores[1].computedAt < Last(scores).computedAt => x[1] < x[n]
  <2>1. Last(scores) = scores[n]
    BY DEF Last, n
  <2> QED
    BY <1>2, <1>5, <1>6, <2>1
<1> HIDE DEF num, den
<1> QED
  BY <1>10, <1>12, <1>13 DEF points

LEMMA TrendIs ==
    ASSUME ATypeOK
    PROVE  /\ Len(scores) < 3 => computeTrendAnalysis(scores, FALSE).trend = "plateau"
           /\ Len(scores) >= 3 => computeTrendAnalysis(scores, FALSE).trend =
                 classifyTrend(linearRegression(Points(scores)).num,
                               linearRegression(Points(scores)).den)
<1>1. scores \in Seq(ScoreRow) /\ Len(scores) \in Nat
  BY TypeIs
<1> DEFINE n == Len(scores)
<1>4. n \in Nat
  BY <1>1
<1>2. CASE scores = <<>>
  BY <1>2 DEF computeTrendAnalysis
<1>3. CASE scores # <<>>
  <2>1. Len(scores) # 0
    BY <1>1, <1>3
  <2>2. CASE Len(scores) < 3
    <3>1. n \in 1..2
      <4> HIDE DEF n
      <4>1. n # 0 /\ n < 3
        BY <2>1, <2>2 DEF n
      <4> QED
        BY <1>4, <4>1
    <3> QED
      BY <1>3, <2>2, <3>1 DEF computeTrendAnalysis
  <2>3. CASE Len(scores) >= 3
    <3>1. n \notin 1..2
      <4> HIDE DEF n
      <4>1. n >= 3
        BY <2>3 DEF n
      <4> QED
        BY <1>4, <4>1
    <3> QED
      BY <1>3, <2>3, <3>1 DEF computeTrendAnalysis
  <2> QED
    BY <1>1, <2>2, <2>3
<1> QED
  BY <1>2, <1>3

LEMMA ClassIs ==
    ASSUME NEW num, NEW den \in Nat, NEW m \in Int, m = 7 * Day * num
    PROVE  /\ den = 0 => classifyTrend(num, den) = "plateau"
           /\ den # 0 /\ m >= 50 * den => classifyTrend(num, den) = "improving"
           /\ den # 0 /\ m <= -50 * den => classifyTrend(num, den) = "declining"
           /\ ~(m >= 50 * den) /\ ~(m <= -50 * den) =>
                 classifyTrend(num, den) = "plateau"
<1>1. classifyTrend(num, den) =
          CASE den # 0 /\ m >= 50 * den  -> "improving"
            [] den # 0 /\ m <= -50 * den -> "declining"
            [] OTHER                     -> "plateau"
  BY DEF classifyTrend
<1>2. ~(den # 0 /\ m >= 50 * den /\ m <= -50 * den)
  OBVIOUS
<1> QED
  BY <1>1, <1>2

\* Scores that climb at a rate are fitted by a line that does, so the trend names the
\* direction in which all scores went.
THEOREM TrendNamesDirection == ASpec => []TrendTellsDirection
<1>1. ATypeOK => TrendTellsDirection
  <2> SUFFICES ASSUME ATypeOK PROVE TrendTellsDirection
    OBVIOUS
  <2> DEFINE trend  == computeTrendAnalysis(scores, FALSE).trend
             fit    == linearRegression(Points(scores))
             Spread == Len(scores) >= 3 /\ scores[1].computedAt < Last(scores).computedAt
  <2>1. Len(scores) \in Nat /\ Day \in Nat \ {0}
    BY TypeIs, DayAssumption
  <2>2. /\ Len(scores) < 3 => trend = "plateau"
        /\ Len(scores) >= 3 => trend = classifyTrend(fit.num, fit.den)
    BY TrendIs
  <2>3. ASSUME NEW sign \in {1, -1}, NEW rate \in Nat, Climbs(sign, rate), Len(scores) >= 3
        PROVE  /\ fit.num \in Int /\ fit.den \in Int /\ fit.den >= 0
               /\ sign * 7 * Day * fit.num >= rate * fit.den
               /\ Spread => fit.den > 0
    <3> DEFINE z == sign * 7 * Day
    <3>1. z \in Int
      BY <2>1
    <3>2. \A k \in 1..Len(scores) - 1 :
              z * (scores[k + 1].score - scores[k].score) >=
                  rate * (scores[k + 1].computedAt - scores[k].computedAt)
      BY <2>3 DEF Climbs
    <3> HIDE DEF z
    <3>3. /\ fit.num \in Int /\ fit.den \in Int
          /\ z * fit.num >= rate * fit.den /\ fit.den >= 0
          /\ scores[1].computedAt < Last(scores).computedAt => fit.den > 0
      BY <2>3, <3>1, <3>2, FitIs
    <3> HIDE DEF fit
    <3> QED
      BY <3>3 DEF z
  <2> HIDE DEF trend, fit
  <2>4. Spread /\ Climbs(1, 50) => trend = "improving"
    <3> SUFFICES ASSUME Spread, Climbs(1, 50) PROVE trend = "improving"
      OBVIOUS
    <3>1. /\ fit.num \in Int /\ fit.den \in Int /\ fit.den > 0
          /\ 1 * 7 * Day * fit.num >= 50 * fit.den
      BY <2>3
    <3> DEFINE m == 7 * Day * fit.num
    <3>2. m \in Int /\ m >= 50 * fit.den
      BY <2>1, <3>1
    <3>3. trend = classifyTrend(fit.num, fit.den)
      BY <2>2
    <3> QED
      BY <3>1, <3>2, <3>3, ClassIs
  <2>5. Spread /\ Climbs(-1, 50) => trend = "declining"
    <3> SUFFICES ASSUME Spread, Climbs(-1, 50) PROVE trend = "declining"
      OBVIOUS
    <3>1. /\ fit.num \in Int /\ fit.den \in Int /\ fit.den > 0
          /\ (-1) * 7 * Day * fit.num >= 50 * fit.den
      BY <2>3
    <3> DEFINE m == 7 * Day * fit.num
    <3>2. m \in Int /\ (-1) * 7 * Day * fit.num = -m
      BY <2>1, <3>1
    <3>3. trend = classifyTrend(fit.num, fit.den)
      BY <2>2
    <3>4. fit.den # 0 /\ ~(m >= 50 * fit.den) /\ m <= -50 * fit.den
      <4> HIDE DEF m
      <4> QED
        BY <3>1, <3>2
    <3> QED
      BY <3>1, <3>2, <3>3, <3>4, ClassIs
  <2>6. Climbs(1, 0) => trend # "declining"
    <3> SUFFICES ASSUME Climbs(1, 0), Len(scores) >= 3 PROVE trend # "declining"
      BY <2>1, <2>2
    <3>1. /\ fit.num \in Int /\ fit.den \in Int /\ fit.den >= 0
          /\ 1 * 7 * Day * fit.num >= 0 * fit.den
      BY <2>3
    <3> DEFINE m == 7 * Day * fit.num
    <3>2. m \in Int /\ m >= 0
      BY <2>1, <3>1
    <3>3. trend = classifyTrend(fit.num, fit.den)
      BY <2>2
    <3>4. fit.den # 0 => ~(m <= -50 * fit.den)
      <4> HIDE DEF m
      <4> QED
        BY <3>1, <3>2
    <3> QED
      BY <3>1, <3>2, <3>3, <3>4, ClassIs
  <2>7. Climbs(-1, 0) => trend # "improving"
    <3> SUFFICES ASSUME Climbs(-1, 0), Len(scores) >= 3 PROVE trend # "improving"
      BY <2>1, <2>2
    <3>1. /\ fit.num \in Int /\ fit.den \in Int /\ fit.den >= 0
          /\ (-1) * 7 * Day * fit.num >= 0 * fit.den
      BY <2>3
    <3> DEFINE m == 7 * Day * fit.num
    <3>2. m \in Int /\ m <= 0
      BY <2>1, <3>1
    <3>3. trend = classifyTrend(fit.num, fit.den)
      BY <2>2
    <3>4. fit.den # 0 => ~(m >= 50 * fit.den)
      <4> HIDE DEF m
      <4> QED
        BY <3>1, <3>2
    <3> QED
      BY <3>1, <3>2, <3>3, <3>4, ClassIs
  <2> QED
    BY <2>4, <2>5, <2>6, <2>7 DEF TrendTellsDirection, trend
<1> QED
  BY <1>1, AnalyticsTypeCorrect, PTL
====
