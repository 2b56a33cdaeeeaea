---- MODULE LiveSocketProofs ----
(***************************************************************************)
(* Theorems about LiveSocket for any phones, users, broadcasts and bounds. *)
(* The connections and timers of a phone are counted: each step of either  *)
(* end, of the link or of the process keeps the count or lowers it, except *)
(* connect().                                                              *)
(***************************************************************************)
EXTENDS LiveSocket, FiniteSetTheorems, TLAPS

CallsFit == \A d \in Devices : calls[d].connect <= upsets + 1

RoomsFit ==
    \A u \in Users, s \in Sockets :
        s \in rooms[u] <=> s \in Clients /\ sock[s].valid /\ UserOf[s[1]] = u

\* A broadcast on its way to a phone's end that lives.
Due(s, e) == e \in box[s] /\ sock[s].client # "none"

\* Where a broadcast may be, and how often it was handled.
PushFit ==
    \A e \in Pushes :
        /\ push[e] = None => /\ \A s \in Sockets : e \notin box[s]
                             /\ \A d \in Devices : got[d][e] = 0
        /\ \A s \in Sockets : e \in box[s] =>
              push[e].user = UserOf[s[1]] /\ push[e].exclude # s[1]
        /\ \A d \in Devices : got[d][e] > 0 =>
              push[e].user = UserOf[d] /\ push[e].exclude # d

HandledFit ==
    \A d \in Devices, e \in Pushes :
        /\ calls[d].connect = 0 => got[d][e] = 0
        /\ Once(d) => /\ got[d][e] <= 1
                      /\ \A s \in Sockets : s[1] = d /\ Due(s, e) => got[d][e] = 0

Inv == TypeOK /\ CallsFit /\ RoomsFit /\ OneLifeline /\ PushFit /\ HandledFit

----------------------------------------------------------------------------
\* The two ends.
LEMMA EndTypes ==
    ASSUME TypeOK, NEW s \in Sockets
    PROVE  /\ sock[s] \in Socket /\ Unused \in Socket
           /\ ClientEnded(s) \in Socket /\ ServerEnded(s) \in Socket /\ Beat(s) \in Socket
<1>1. sock[s] \in Socket
  BY DEF TypeOK
<1>2. Unused \in Socket
  BY DEF Unused, Socket
<1>3. ClientEnded(s) \in Socket
  BY <1>1, <1>2 DEF ClientEnded, Socket
<1>4. ServerEnded(s) \in Socket
  BY <1>1, <1>2 DEF ServerEnded, Socket
<1>5. (sock[s].server = "open") \in BOOLEAN
  OBVIOUS
<1>6. Beat(s) \in Socket
  BY <1>1, <1>5 DEF Beat, Socket
<1> QED
  BY <1>1, <1>2, <1>3, <1>4, <1>6

LEMMA EndsKeep ==
    ASSUME TypeOK, NEW s \in Sockets
    PROVE  /\ ClientEnded(s).client = "none"
           /\ s \in Clients => ClientEnded(s).server = sock[s].server
                             /\ ClientEnded(s).valid = sock[s].valid
           /\ s \notin Clients => ClientEnded(s).server \notin {"open", "closing"}
           /\ ServerEnded(s).client = sock[s].client
           /\ ServerEnded(s).server \notin {"open", "closing"}
           /\ Beat(s).client = sock[s].client /\ Beat(s).valid = sock[s].valid
           /\ s \in Clients => Beat(s).server \in {"open", "closing"}
<1>1. sock[s] \in Socket
  BY DEF TypeOK
<1> QED
  BY <1>1 DEF ClientEnded, ServerEnded, Beat, Socket, Unused, Clients

\* A connection of which other fields change.
LEMMA FieldsKeep ==
    ASSUME NEW x \in Socket, NEW c \in {"closing", "open"}
    PROVE  /\ [x EXCEPT !.client = c] \in Socket
           /\ [x EXCEPT !.client = c].client = c
           /\ [x EXCEPT !.client = c].server = x.server
           /\ [x EXCEPT !.client = c].valid = x.valid
BY DEF Socket

LEMMA LinkKeeps ==
    ASSUME NEW x \in Socket
    PROVE  /\ [x EXCEPT !.pinged = FALSE, !.isAlive = TRUE] \in Socket
           /\ [x EXCEPT !.pinged = FALSE, !.isAlive = TRUE].client = x.client
           /\ [x EXCEPT !.pinged = FALSE, !.isAlive = TRUE].server = x.server
           /\ [x EXCEPT !.pinged = FALSE, !.isAlive = TRUE].valid = x.valid
           /\ [x EXCEPT !.link = FALSE] \in Socket
           /\ [x EXCEPT !.link = FALSE].client = x.client
           /\ [x EXCEPT !.link = FALSE].server = x.server
           /\ [x EXCEPT !.link = FALSE].valid = x.valid
BY DEF Socket

\* A new connection takes the place of an unused one.
OpensAt(d, service, i, new) ==
    /\ sock[<<d, i>>] = Unused
    /\ new.client # "none" /\ new.server = "none"
    /\ sock' = [sock EXCEPT ![<<d, i>>] = new]
    /\ box' = [box EXCEPT ![<<d, i>>] = {}]
    /\ phone' = [phone EXCEPT ![d] = [service EXCEPT !.ws = i]]
    /\ [service EXCEPT !.ws = i] \in Service

LEMMA Opens ==
    ASSUME NEW d \in Devices, NEW service \in Service, OpenSocket(d, service)
    PROVE  \E i \in 1 .. MaxSockets, new \in Socket : OpensAt(d, service, i, new)
<1>1. PICK i \in 1 .. MaxSockets : OpenSocket(d, service)!(i)
  BY DEF OpenSocket
<1> DEFINE new == [Unused EXCEPT !.client = IF Listening THEN "connecting" ELSE "refused",
                                 !.valid = service.valid, !.link = TRUE]
<1>2. service.valid \in BOOLEAN
  BY DEF Service
<1>3. new \in Socket /\ new.client # "none" /\ new.server = "none"
  BY <1>2 DEF Unused, Socket
<1>4. i \in 0 .. MaxSockets
  BY BoundsAssumption
<1>5. [service EXCEPT !.ws = i] \in Service
  BY <1>4 DEF Service
<1>6. OpensAt(d, service, i, new)
  BY <1>1, <1>3, <1>5 DEF OpensAt
<1> QED
  BY <1>3, <1>6

----------------------------------------------------------------------------
\* The connections of a phone that live are finitely many.
LEMMA LiveFinite ==
    ASSUME NEW d \in Devices
    PROVE  IsFiniteSet(LiveSockets(d)) /\ Cardinality(LiveSockets(d)) \in Nat
<1>0. 1 \in Int /\ MaxSockets \in Int
  BY BoundsAssumption
<1>1. IsFiniteSet({d}) /\ IsFiniteSet(1 .. MaxSockets)
  BY <1>0, FS_Singleton, FS_Interval
<1>2. IsFiniteSet({d} \X (1 .. MaxSockets))
  BY <1>1, FS_Product
<1>3. LiveSockets(d) \subseteq {d} \X (1 .. MaxSockets)
  BY DEF LiveSockets, Sockets
<1>4. IsFiniteSet(LiveSockets(d))
  BY <1>2, <1>3, FS_Subset
<1> QED
  BY <1>4, FS_CardinalityType

\* When it is one, it is the only one.
LEMMA LiveIsOne ==
    ASSUME NEW d \in Devices, Cardinality(LiveSockets(d)) <= 1,
           NEW s \in LiveSockets(d), NEW x \in LiveSockets(d)
    PROVE  s = x
<1>1. IsFiniteSet(LiveSockets(d) \ {s})
      /\ Cardinality(LiveSockets(d) \ {s}) = Cardinality(LiveSockets(d)) - 1
  BY LiveFinite, FS_RemoveElement
<1>2. Cardinality(LiveSockets(d) \ {s}) = 0
  BY <1>1, LiveFinite, FS_CardinalityType
<1>3. LiveSockets(d) \ {s} = {}
  BY <1>1, <1>2, FS_EmptySet
<1> QED
  BY <1>3

\* Steps that leave the phones' ends alone.
LEMMA SameLive ==
    ASSUME \A s \in Sockets : (sock'[s].client = "none") <=> (sock[s].client = "none"),
           NEW d \in Devices
    PROVE  LiveSockets(d)' = LiveSockets(d)
BY DEF LiveSockets

LEMMA MoreLive ==
    ASSUME TypeOK, NEW d \in Devices, NEW s \in Sockets, s[1] = d,
           sock[s].client = "none", NEW new, new.client # "none",
           sock' = [sock EXCEPT ![s] = new]
    PROVE  /\ Cardinality(LiveSockets(d))' = Cardinality(LiveSockets(d)) + 1
           /\ \A x \in Devices \ {d} : LiveSockets(x)' = LiveSockets(x)
<1>1. LiveSockets(d)' = LiveSockets(d) \cup {s} /\ s \notin LiveSockets(d)
  BY DEF LiveSockets, TypeOK
<1>2. Cardinality(LiveSockets(d) \cup {s}) = Cardinality(LiveSockets(d)) + 1
  BY <1>1, LiveFinite, FS_AddElement
<1> QED
  BY <1>1, <1>2 DEF LiveSockets, TypeOK

LEMMA FewerLive ==
    ASSUME TypeOK, NEW d \in Devices, NEW s \in Sockets, s[1] = d,
           sock[s].client # "none", NEW new, new.client = "none",
           sock' = [sock EXCEPT ![s] = new]
    PROVE  /\ Cardinality(LiveSockets(d))' = Cardinality(LiveSockets(d)) - 1
           /\ Cardinality(LiveSockets(d)) >= 1
           /\ \A x \in Devices \ {d} : LiveSockets(x)' = LiveSockets(x)
<1>1. LiveSockets(d)' = LiveSockets(d) \ {s} /\ s \in LiveSockets(d)
  BY DEF LiveSockets, TypeOK
<1>2. /\ Cardinality(LiveSockets(d) \ {s}) = Cardinality(LiveSockets(d)) - 1
      /\ IsFiniteSet(LiveSockets(d) \ {s})
  BY <1>1, LiveFinite, FS_RemoveElement
<1>3. Cardinality(LiveSockets(d) \ {s}) \in Nat
  BY <1>2, FS_CardinalityType
<1>4. \A x \in Devices \ {d} : LiveSockets(x)' = LiveSockets(x)
  BY DEF LiveSockets, TypeOK
<1> QED
  BY <1>1, <1>2, <1>3, <1>4, LiveFinite

----------------------------------------------------------------------------
\* connect() and the timers open a connection.
Opener(d) == \E valid \in BOOLEAN : Connect(d, valid)

LEMMA ConnectOpens ==
    ASSUME TypeOK, NEW d \in Devices, Opener(d)
    PROVE  \E service \in Service :
              /\ OpenSocket(d, service)
              /\ service.timer = phone[d].timer /\ service.lost = phone[d].lost
<1>1. phone[d] \in Service
  BY DEF TypeOK
<1>2. PICK valid \in BOOLEAN : OpenSocket(d, [phone[d] EXCEPT !.valid = valid])
  BY DEF Opener, Connect
<1> QED
  BY <1>1, <1>2 DEF Service

LEMMA TimerOpens ==
    ASSUME TypeOK, NEW d \in Devices, TimerFires(d)
    PROVE  \E service \in Service :
              /\ OpenSocket(d, service)
              /\ \/ /\ phone[d].timer = "pending"
                    /\ service.timer = "stale" /\ service.lost = phone[d].lost
                 \/ /\ phone[d].lost > 0
                    /\ service.timer = phone[d].timer /\ service.lost = phone[d].lost - 1
<1>1. phone[d] \in Service
  BY DEF TypeOK
<1>2. CASE phone[d].timer = "pending" /\ OpenSocket(d, [phone[d] EXCEPT !.timer = "stale"])
  BY <1>1, <1>2 DEF Service
<1>3. CASE phone[d].lost > 0 /\ OpenSocket(d, [phone[d] EXCEPT !.lost = @ - 1])
  <2>1. phone[d].lost - 1 \in 0 .. MaxUpsets + 1
    BY <1>1, <1>3, BoundsAssumption DEF Service
  <2> QED
    BY <1>1, <1>3, <2>1 DEF Service
<1> QED
  BY <1>2, <1>3 DEF TimerFires

LEMMA CallsStep == Inv /\ [Next]_vars => CallsFit'
<1> SUFFICES ASSUME Inv, [Next]_vars PROVE CallsFit'
  OBVIOUS
<1> USE DEF Inv, CallsFit
<1>1. upsets \in Nat /\ \A d \in Devices : calls[d].connect \in Nat
  BY BoundsAssumption DEF TypeOK
<1>2. ASSUME NEW d \in Devices, Opener(d) PROVE CallsFit'
  BY <1>1, <1>2 DEF Opener, Connect, TypeOK
<1>3. ASSUME NEW d \in Devices, Disconnect(d) PROVE CallsFit'
  BY <1>1, <1>3 DEF Disconnect, TypeOK
<1>4. CASE UNCHANGED calls /\ upsets' \in {upsets, upsets + 1}
  BY <1>1, <1>4
<1> QED
  BY <1>2, <1>3, <1>4 DEF Next, Opener, vars, Handshake, Closing, ProcessStep, TimerFires,
     Opened, OnClose, Receive, Accept, Pong, Heartbeat, SocketCloses, BroadcastToUser, Cut,
     Crash, Sigterm, PoolEnded, Exit, Killed, Start, ProcessEnds

LEMMA InitInv == Init => Inv
<1> SUFFICES ASSUME Init PROVE Inv
  OBVIOUS
<1>1. \A s \in Sockets : sock[s] = Unused /\ Unused.client = "none" /\ Unused.server = "none"
  BY DEF Init, Unused
<1>2. Unused \in Socket
  BY DEF Unused, Socket
<1>3. 0 \in 0 .. MaxSockets /\ 0 \in 0 .. MaxUpsets + 1 /\ 0 \in 0 .. MaxUpsets
  BY BoundsAssumption
<1>4. phone \in [Devices -> Service]
  BY <1>3 DEF Init, Service
<1>5. TypeOK
  BY <1>2, <1>3, <1>4 DEF Init, TypeOK
<1>6. \A d \in Devices : LiveSockets(d) = {}
  BY <1>1 DEF LiveSockets
<1>7. OneLifeline
  <2>1. \A d \in Devices : Cardinality(LiveSockets(d)) = 0
    BY <1>6, FS_EmptySet
  <2>2. \A d \in Devices : Timers(d) = 0 /\ calls[d].connect = 0
    BY DEF Timers, Init
  <2> QED
    BY <2>1, <2>2 DEF OneLifeline, Once
<1>8. RoomsFit
  BY <1>1 DEF RoomsFit, Clients, Init
<1> QED
  BY <1>5, <1>7, <1>8 DEF Init, Inv, CallsFit, PushFit, HandledFit, Once

----------------------------------------------------------------------------
LEMMA TypeStep == Inv /\ [Next]_vars => TypeOK'
<1> SUFFICES ASSUME Inv, [Next]_vars PROVE TypeOK'
  OBVIOUS
<1>0. TypeOK
  BY DEF Inv
<1>a. (\A s \in Sockets : sock[s] \in Socket) /\ (\A d \in Devices : phone[d] \in Service)
  BY <1>0 DEF TypeOK
<1>c. CallsFit'
  BY CallsStep
<1>1. ASSUME NEW d \in Devices, Opener(d) \/ TimerFires(d) PROVE TypeOK'
  <2>1. PICK service \in Service : OpenSocket(d, service)
    BY <1>0, <1>1, ConnectOpens, TimerOpens
  <2>2. PICK i \in 1 .. MaxSockets, new \in Socket : OpensAt(d, service, i, new)
    BY <2>1, Opens
  <2>3. sock' \in [Sockets -> Socket] /\ box' \in [Sockets -> SUBSET Pushes]
        /\ phone' \in [Devices -> Service]
    BY <1>0, <2>2 DEF OpensAt, TypeOK, Sockets
  <2>4. CASE Opener(d)
    <3>1. upsets' \in 0 .. MaxUpsets
      BY <1>0, <2>4, BoundsAssumption DEF Opener, Connect, TypeOK
    <3>2. calls[d].connect + 1 \in 0 .. MaxUpsets + 1
      BY <1>0, <1>c, <2>4, <3>1, BoundsAssumption DEF Opener, Connect, TypeOK, CallsFit
    <3>3. calls' \in [Devices -> [connect : 0 .. MaxUpsets + 1, disconnect : BOOLEAN]]
      BY <1>0, <2>4, <3>2 DEF Opener, Connect, TypeOK
    <3> QED
      BY <1>0, <2>3, <2>4, <3>1, <3>3 DEF Opener, Connect, TypeOK
  <2>5. CASE TimerFires(d)
    BY <1>0, <2>3, <2>5 DEF TimerFires, TypeOK
  <2> QED
    BY <1>1, <2>4, <2>5
<1>2. ASSUME NEW d \in Devices, Disconnect(d) PROVE TypeOK'
  <2>1. phone[d] \in Service /\ 0 \in 0 .. MaxSockets
    BY <1>0, BoundsAssumption DEF TypeOK
  <2>2. phone' \in [Devices -> Service]
    BY <1>0, <1>2, <2>1 DEF Disconnect, TypeOK, Service
  <2>3. sock' \in [Sockets -> Socket]
    <3>1. \A s \in Sockets : [sock[s] EXCEPT !.client = "closing"] \in Socket
      BY <1>a, FieldsKeep
    <3> QED
      BY <1>0, <1>2, <3>1 DEF Disconnect, TypeOK
  <2>4. upsets' \in 0 .. MaxUpsets
    BY <1>0, <1>2, BoundsAssumption DEF Disconnect, TypeOK
  <2>5. calls' \in [Devices -> [connect : 0 .. MaxUpsets + 1, disconnect : BOOLEAN]]
    BY <1>0, <1>2 DEF Disconnect, TypeOK
  <2> QED
    BY <1>0, <1>2, <2>2, <2>3, <2>4, <2>5 DEF Disconnect, TypeOK
<1>3. ASSUME NEW s \in Sockets, Opened(s) PROVE TypeOK'
  <2>1. s[1] \in Devices
    BY DEF Sockets
  <2>2. phone' \in [Devices -> Service]
    <3>1. [phone[s[1]] EXCEPT !.timer = "null"] \in Service
      BY <1>a, <2>1 DEF Service
    <3> QED
      BY <1>0, <1>3, <3>1 DEF Opened, TypeOK
  <2>3. sock' \in [Sockets -> Socket]
    <3>1. [sock[s] EXCEPT !.client = "open"] \in Socket
      BY <1>a, FieldsKeep
    <3> QED
      BY <1>0, <1>3, <3>1 DEF Opened, TypeOK
  <2> QED
    BY <1>0, <1>3, <2>2, <2>3 DEF Opened, TypeOK
<1>4. ASSUME NEW s \in Sockets, OnClose(s) PROVE TypeOK'
  <2> DEFINE d == s[1]
  <2>1. d \in Devices /\ phone[d] \in Service /\ calls[d].connect <= MaxUpsets + 1
    BY <1>0, BoundsAssumption DEF Sockets, TypeOK
  <2>2. sock' = [sock EXCEPT ![s] = ClientEnded(s)] /\ sock[s].client # "none"
    BY <1>4 DEF OnClose, Ends
  <2>3. Cardinality(LiveSockets(d)) >= 1
    BY <1>0, <2>1, <2>2, EndsKeep, FewerLive
  <2>4. phone[d].timer = "pending" => phone[d].lost + 1 <= MaxUpsets + 1
    <3> HIDE DEF d
    <3>1. Cardinality(LiveSockets(d)) + Timers(d) <= calls[d].connect
      BY <2>1 DEF Inv, OneLifeline
    <3>2. phone[d].lost \in Nat /\ calls[d].connect \in Nat
      BY <1>0, <2>1, BoundsAssumption DEF TypeOK, Service
    <3> QED
      BY <2>1, <2>3, <3>1, <3>2, LiveFinite, BoundsAssumption DEF Timers
  <2>5. phone' \in [Devices -> Service]
    <3> DEFINE lost == IF phone[d].timer = "pending" THEN phone[d].lost + 1 ELSE phone[d].lost
    <3>1. lost \in 0 .. MaxUpsets + 1
      BY <2>1, <2>4, BoundsAssumption DEF Service
    <3>2. phone' = [phone EXCEPT ![d] = [phone[d] EXCEPT !.timer = "pending", !.lost = lost]]
      BY <1>0, <1>4, <2>1 DEF OnClose, TypeOK, Service
    <3>3. [phone[d] EXCEPT !.timer = "pending", !.lost = lost] \in Service
      BY <2>1, <3>1 DEF Service
    <3> QED
      BY <1>0, <2>1, <3>2, <3>3 DEF TypeOK
  <2>6. sock' \in [Sockets -> Socket]
    BY <1>0, <2>2, EndTypes DEF TypeOK
  <2> QED
    BY <1>0, <1>4, <2>5, <2>6 DEF OnClose, TypeOK
<1>5. ASSUME NEW s \in Sockets, NEW e \in Pushes, Receive(s, e) PROVE TypeOK'
  <2>1. s[1] \in Devices /\ got[s[1]][e] + 1 \in Nat
    BY <1>0 DEF Sockets, TypeOK
  <2>2. got' \in [Devices -> [Pushes -> Nat]]
    BY <1>0, <1>5, <2>1 DEF Receive, TypeOK
  <2> QED
    BY <1>0, <1>5, <2>2 DEF Receive, TypeOK
<1>6. ASSUME NEW s \in Sockets, Accept(s) PROVE TypeOK'
  <2>1. s[1] \in Devices /\ sock[s] \in Socket
    BY <1>0 DEF Sockets, TypeOK
  <2>2. sock' \in [Sockets -> Socket]
    BY <1>0, <1>6, <2>1 DEF Accept, TypeOK, Socket
  <2>3. rooms' \in [Users -> SUBSET Sockets]
    BY <1>0, <1>6 DEF Accept, TypeOK
  <2> QED
    BY <1>0, <1>6, <2>2, <2>3 DEF Accept, TypeOK
<1>7. ASSUME NEW s \in Sockets, Pong(s) \/ Cut(s) PROVE TypeOK'
  <2>1. sock' \in [Sockets -> Socket]
    <3>1. /\ [sock[s] EXCEPT !.pinged = FALSE, !.isAlive = TRUE] \in Socket
          /\ [sock[s] EXCEPT !.link = FALSE] \in Socket
      BY <1>a, LinkKeeps
    <3> QED
      BY <1>0, <1>7, <3>1 DEF Pong, Cut, TypeOK
  <2>2. box' \in [Sockets -> SUBSET Pushes] /\ upsets' \in 0 .. MaxUpsets
    BY <1>0, <1>7, BoundsAssumption DEF Pong, Cut, TypeOK
  <2> QED
    BY <1>0, <1>7, <2>1, <2>2 DEF Pong, Cut, TypeOK
<1>8. CASE Heartbeat
  <2>1. sock' \in [Sockets -> Socket]
    BY <1>0, <1>8, EndTypes DEF Heartbeat
  <2> QED
    BY <1>0, <1>8, <2>1 DEF Heartbeat, TypeOK
<1>9. ASSUME NEW s \in Sockets, SocketCloses(s) PROVE TypeOK'
  <2>1. sock' \in [Sockets -> Socket]
    BY <1>0, <1>9, EndTypes DEF SocketCloses, TypeOK
  <2> QED
    BY <1>0, <1>9, <2>1 DEF SocketCloses, TypeOK
<1>10. ASSUME NEW u \in Users, NEW e \in Pushes, NEW exclude \in Devices \cup {None},
              BroadcastToUser(u, e, exclude)
       PROVE  TypeOK'
  <2>1. [user |-> u, exclude |-> exclude] \in Broadcast
    BY DEF Broadcast
  <2> QED
    BY <1>0, <1>10, <2>1 DEF BroadcastToUser, TypeOK
<1>11. CASE ProcessEnds /\ upsets' \in 0 .. MaxUpsets
  <2>1. sock' \in [Sockets -> Socket]
    BY <1>0, <1>11, EndTypes DEF ProcessEnds
  <2> QED
    BY <1>0, <1>11, <2>1 DEF ProcessEnds, TypeOK
<1>12. CASE Crash \/ Exit \/ Killed
  BY <1>0, <1>11, <1>12, BoundsAssumption DEF Crash, Exit, Killed, TypeOK
<1>13. CASE Sigterm \/ PoolEnded \/ Start
  BY <1>0, <1>13, BoundsAssumption DEF Sigterm, PoolEnded, Start, TypeOK
<1>14. CASE UNCHANGED vars
  BY <1>0, <1>14 DEF vars, TypeOK
<1> QED
  BY <1>1, <1>2, <1>3, <1>4, <1>5, <1>6, <1>7, <1>8, <1>9, <1>10, <1>12, <1>13, <1>14
     DEF Next, Opener, Handshake, Closing, ProcessStep

----------------------------------------------------------------------------
LEMMA RoomsStep == Inv /\ [Next]_vars => RoomsFit'
<1> SUFFICES ASSUME Inv, [Next]_vars PROVE RoomsFit'
  OBVIOUS
<1>0. TypeOK /\ RoomsFit /\ \A s \in Sockets : s[1] \in Devices
  BY DEF Inv, Sockets
<1>a. \A s \in Sockets : sock[s] \in Socket
  BY <1>0 DEF TypeOK
<1>1. ASSUME NEW d \in Devices, Opener(d) \/ TimerFires(d) PROVE RoomsFit'
  <2>1. PICK service \in Service : OpenSocket(d, service)
    BY <1>0, <1>1, ConnectOpens, TimerOpens
  <2>2. PICK i \in 1 .. MaxSockets, new \in Socket : OpensAt(d, service, i, new)
    BY <2>1, Opens
  <2>3. <<d, i>> \in Sockets \ Clients /\ new.server = "none"
    BY <2>2 DEF OpensAt, Clients, Unused, Sockets
  <2>5. \A s \in Sockets : sock'[s] = IF s = <<d, i>> THEN new ELSE sock[s]
    BY <1>0, <2>2 DEF OpensAt, TypeOK
  <2>4. UNCHANGED rooms
    BY <1>1 DEF Opener, Connect, TimerFires
  <2> QED
    BY <1>0, <2>3, <2>4, <2>5 DEF RoomsFit, Clients
<1>e. ASSUME UNCHANGED rooms,
             \A x \in Sockets : /\ sock'[x].server = sock[x].server
                                /\ sock'[x].valid = sock[x].valid
      PROVE  RoomsFit'
  BY <1>0, <1>e DEF RoomsFit, Clients
<1>2. ASSUME NEW d \in Devices, Disconnect(d) PROVE RoomsFit'
  <2>1. \A s \in Sockets : sock'[s] \in {sock[s], [sock[s] EXCEPT !.client = "closing"]}
    BY <1>0, <1>2 DEF Disconnect, TypeOK
  <2>2. ASSUME NEW s \in Sockets
        PROVE  sock'[s].server = sock[s].server /\ sock'[s].valid = sock[s].valid
    BY <1>a, <2>1, FieldsKeep
  <2> QED
    BY <1>2, <1>e, <2>2 DEF Disconnect
<1>3. ASSUME NEW s \in Sockets, Opened(s) \/ Pong(s) \/ Cut(s) PROVE RoomsFit'
  <2>1. PICK y \in Socket : /\ sock' = [sock EXCEPT ![s] = y]
                            /\ y.server = sock[s].server /\ y.valid = sock[s].valid
    <3>1. CASE Opened(s)
      <4>1. sock' = [sock EXCEPT ![s] = [sock[s] EXCEPT !.client = "open"]]
        BY <3>1 DEF Opened
      <4> QED
        BY <1>a, <4>1, FieldsKeep
    <3>2. CASE Pong(s)
      <4>1. sock' = [sock EXCEPT ![s] = [sock[s] EXCEPT !.pinged = FALSE, !.isAlive = TRUE]]
        BY <3>2 DEF Pong
      <4> QED
        BY <1>a, <4>1, LinkKeeps
    <3>3. CASE Cut(s)
      <4>1. sock' = [sock EXCEPT ![s] = [sock[s] EXCEPT !.link = FALSE]]
        BY <3>3 DEF Cut
      <4> QED
        BY <1>a, <4>1, LinkKeeps
    <3> QED
      BY <1>3, <3>1, <3>2, <3>3
  <2>2. \A x \in Sockets : sock'[x].server = sock[x].server /\ sock'[x].valid = sock[x].valid
    BY <1>0, <2>1 DEF TypeOK
  <2> QED
    BY <1>3, <1>e, <2>2 DEF Opened, Pong, Cut
<1>4. ASSUME NEW s \in Sockets, OnClose(s) PROVE RoomsFit'
  BY <1>0, <1>4, EndsKeep DEF OnClose, RoomsFit, Clients, TypeOK
<1>6. ASSUME NEW s \in Sockets, Accept(s) PROVE RoomsFit'
  BY <1>0, <1>a, <1>6, UserOfAssumption DEF Accept, RoomsFit, Clients, TypeOK, Socket
<1>8. CASE Heartbeat
  BY <1>0, <1>8, EndsKeep DEF Heartbeat, RoomsFit, Clients
<1>9. ASSUME NEW s \in Sockets, SocketCloses(s) PROVE RoomsFit'
  BY <1>0, <1>9, EndsKeep, UserOfAssumption DEF SocketCloses, RoomsFit, Clients, TypeOK
<1>11. CASE ProcessEnds
  BY <1>0, <1>11, EndsKeep DEF ProcessEnds, RoomsFit, Clients
<1>12. CASE Crash \/ Exit \/ Killed
  BY <1>11, <1>12 DEF Crash, Exit, Killed
<1>13. CASE UNCHANGED <<rooms, sock>>
  BY <1>0, <1>13 DEF RoomsFit, Clients
<1> QED
  BY <1>1, <1>2, <1>3, <1>4, <1>6, <1>8, <1>9, <1>12, <1>13
     DEF Next, Opener, Handshake, Closing, ProcessStep, vars, Receive, BroadcastToUser,
         Sigterm, PoolEnded, Start

----------------------------------------------------------------------------
\* The steps that neither open nor end a phone's end of a connection, nor touch its
\* service.
Aside ==
    /\ UNCHANGED <<phone, calls>>
    /\ \A s \in Sockets : (sock'[s].client = "none") <=> (sock[s].client = "none")

LEMMA AsideSteps ==
    ASSUME Inv, [Next]_vars,
           \A d \in Devices : ~(Opener(d) \/ TimerFires(d) \/ Disconnect(d)),
           \A s \in Sockets : ~(Opened(s) \/ OnClose(s))
    PROVE  Aside
<1>0. TypeOK /\ \A s \in Sockets : sock[s] \in Socket
  BY DEF Inv, TypeOK
<1>1. ASSUME NEW s \in Sockets, Accept(s) PROVE Aside
  <2>1. \A x \in Sockets : sock'[x].client = sock[x].client
    BY <1>0, <1>1 DEF Accept, TypeOK, Socket
  <2> QED
    BY <1>1, <2>1 DEF Accept, Aside
<1>2. ASSUME NEW s \in Sockets, Pong(s) PROVE Aside
  <2>1. sock' = [sock EXCEPT ![s] = [sock[s] EXCEPT !.pinged = FALSE, !.isAlive = TRUE]]
    BY <1>2 DEF Pong
  <2> QED
    BY <1>0, <1>2, <2>1, LinkKeeps DEF Pong, Aside, TypeOK
<1>3. ASSUME NEW s \in Sockets, Cut(s) PROVE Aside
  <2>1. sock' = [sock EXCEPT ![s] = [sock[s] EXCEPT !.link = FALSE]]
    BY <1>3 DEF Cut
  <2>2. \A x \in Sockets : sock'[x].client = sock[x].client
    BY <1>0, <2>1, LinkKeeps DEF TypeOK
  <2> QED
    BY <1>3, <2>2 DEF Cut, Aside
<1>4. CASE Heartbeat
  BY <1>0, <1>4, EndsKeep DEF Heartbeat, Aside
<1>5. ASSUME NEW s \in Sockets, SocketCloses(s) PROVE Aside
  BY <1>0, <1>5, EndsKeep DEF SocketCloses, Aside, TypeOK
<1>6. CASE ProcessEnds
  BY <1>0, <1>6, EndsKeep DEF ProcessEnds, Aside
<1>7. CASE UNCHANGED <<phone, calls, sock>>
  BY <1>7 DEF Aside
<1> QED
  BY <1>1, <1>2, <1>3, <1>4, <1>5, <1>6, <1>7
     DEF Next, Opener, Handshake, Closing, ProcessStep, vars, Receive, BroadcastToUser,
         Sigterm, PoolEnded, Start, Crash, Exit, Killed

LEMMA LifeStep == Inv /\ [Next]_vars => OneLifeline'
<1> SUFFICES ASSUME Inv, [Next]_vars PROVE OneLifeline'
  OBVIOUS
<1> DEFINE n(d) == Cardinality(LiveSockets(d))
           Life(d) == /\ n(d) + Timers(d) <= calls[d].connect
                      /\ Once(d) => n(d) + Timers(d) = 1
<1>0. TypeOK /\ TypeOK' /\ \A d \in Devices : Life(d)
  BY TypeStep DEF Inv, OneLifeline
<1>a. \A d \in Devices :
         /\ n(d) \in Nat /\ calls[d].connect \in Nat /\ phone[d].lost \in Nat
         /\ phone[d] \in Service /\ Timers(d) \in Nat
  BY <1>0, LiveFinite, BoundsAssumption DEF TypeOK, Service, Timers
<1>b. SUFFICES ASSUME NEW d \in Devices PROVE Life(d)'
  BY DEF OneLifeline
<1> HIDE DEF n
<1>e. ASSUME n(d)' = n(d), UNCHANGED <<phone[d], calls[d]>> PROVE Life(d)'
  BY <1>0, <1>e DEF Timers, Once
<1>o. ASSUME NEW x \in Devices, NEW service \in Service, OpenSocket(x, service)
      PROVE  /\ n(x)' = n(x) + 1 /\ \A y \in Devices \ {x} : n(y)' = n(y)
             /\ phone'[x].timer = service.timer /\ phone'[x].lost = service.lost
             /\ \A y \in Devices \ {x} : phone'[y] = phone[y]
  <2>1. PICK i \in 1 .. MaxSockets, new \in Socket : OpensAt(x, service, i, new)
    BY <1>o, Opens
  <2>2. <<x, i>> \in Sockets /\ <<x, i>>[1] = x /\ sock[<<x, i>>].client = "none"
    BY <2>1 DEF OpensAt, Sockets, Unused
  <2>3. n(x)' = n(x) + 1 /\ \A y \in Devices \ {x} : n(y)' = n(y)
    BY <1>0, <2>1, <2>2, MoreLive DEF OpensAt, n
  <2>4. /\ phone'[x].timer = service.timer /\ phone'[x].lost = service.lost
        /\ \A y \in Devices \ {x} : phone'[y] = phone[y]
    BY <1>0, <2>1 DEF OpensAt, TypeOK, Service
  <2> QED
    BY <2>3, <2>4
<1>1. ASSUME NEW x \in Devices, Opener(x) PROVE Life(d)'
  <2>1. PICK service \in Service :
            /\ OpenSocket(x, service)
            /\ service.timer = phone[x].timer /\ service.lost = phone[x].lost
    BY <1>0, <1>1, ConnectOpens
  <2>2. CASE d # x
    <3>1. UNCHANGED calls[d]
      BY <1>0, <1>1, <2>2 DEF Opener, Connect, TypeOK
    <3> QED
      BY <1>e, <1>o, <2>1, <2>2, <3>1
  <2>3. CASE d = x
    <3>1. calls'[d].connect = calls[d].connect + 1 /\ calls'[d].disconnect = calls[d].disconnect
      BY <1>0, <1>1, <2>3 DEF Opener, Connect, TypeOK
    <3>2. Timers(d)' = Timers(d) /\ n(d)' = n(d) + 1
      BY <1>o, <2>1, <2>3 DEF Timers
    <3> QED
      BY <1>0, <1>a, <3>1, <3>2 DEF Once
  <2> QED
    BY <2>2, <2>3
<1>6. ASSUME NEW x \in Devices, TimerFires(x) PROVE Life(d)'
  <2>1. PICK service \in Service :
            /\ OpenSocket(x, service)
            /\ \/ /\ phone[x].timer = "pending"
                  /\ service.timer = "stale" /\ service.lost = phone[x].lost
               \/ /\ phone[x].lost > 0
                  /\ service.timer = phone[x].timer /\ service.lost = phone[x].lost - 1
    BY <1>0, <1>6, TimerOpens
  <2>2. UNCHANGED calls
    BY <1>6 DEF TimerFires
  <2>3. CASE d # x
    BY <1>e, <1>o, <2>1, <2>2, <2>3
  <2>4. CASE d = x
    <3>1. Timers(d)' = Timers(d) - 1 /\ n(d)' = n(d) + 1
      BY <1>a, <1>o, <2>1, <2>4 DEF Timers
    <3> QED
      BY <1>0, <1>a, <2>2, <3>1 DEF Once
  <2> QED
    BY <2>3, <2>4
<1>2. ASSUME NEW x \in Devices, Disconnect(x) PROVE Life(d)'
  <2>1. \A s \in Sockets : sock'[s] \in {sock[s], [sock[s] EXCEPT !.client = "closing"]}
        /\ (sock[s].client = "none" => sock'[s] = sock[s])
    BY <1>0, <1>2 DEF Disconnect, TypeOK
  <2>2. n(d)' = n(d)
    <3>1. ASSUME NEW s \in Sockets
          PROVE  (sock'[s].client = "none") <=> (sock[s].client = "none")
      BY <1>0, <2>1, FieldsKeep DEF TypeOK
    <3> QED
      BY <3>1, SameLive DEF n
  <2>3. CASE d # x
    BY <1>0, <1>2, <1>e, <2>2, <2>3 DEF Disconnect, TypeOK
  <2>4. CASE d = x
    <3>1. calls'[d].connect = calls[d].connect /\ ~Once(d)'
      BY <1>0, <1>2, <2>4 DEF Disconnect, TypeOK, Once
    <3>2. Timers(d)' <= Timers(d) /\ Timers(d)' \in Nat
      <4>1. phone'[d].lost = phone[d].lost /\ phone'[d].timer # "pending"
        BY <1>0, <1>a, <1>2, <2>4 DEF Disconnect, TypeOK, Service
      <4> QED
        BY <1>a, <4>1 DEF Timers
    <3> QED
      BY <1>0, <1>a, <2>2, <3>1, <3>2
  <2> QED
    BY <2>3, <2>4
<1>3. ASSUME NEW s \in Sockets, Opened(s) PROVE Life(d)'
  <2>1. s[1] \in Devices /\ s \in LiveSockets(s[1]) /\ UNCHANGED calls
    BY <1>3 DEF Sockets, LiveSockets, Opened
  <2>2. n(d)' = n(d)
    <3>1. sock' = [sock EXCEPT ![s] = [sock[s] EXCEPT !.client = "open"]]
          /\ sock[s].client = "connecting" /\ sock[s] \in Socket
      BY <1>0, <1>3 DEF Opened, TypeOK
    <3>2. \A y \in Sockets : (sock'[y].client = "none") <=> (sock[y].client = "none")
      BY <1>0, <3>1, FieldsKeep DEF TypeOK
    <3> QED
      BY <3>2, SameLive DEF n
  <2>3. CASE d # s[1]
    BY <1>0, <1>3, <1>e, <2>1, <2>2, <2>3 DEF Opened, TypeOK
  <2>4. CASE d = s[1]
    <3>1. phone'[d].lost = phone[d].lost /\ phone'[d].timer = "null"
      BY <1>0, <1>a, <1>3, <2>4 DEF Opened, TypeOK, Service
    <3>2. n(d) >= 1
      BY <2>1, <2>4, LiveFinite, FS_EmptySet DEF n
    <3> QED
      BY <1>0, <1>a, <2>1, <2>2, <3>1, <3>2 DEF Timers, Once
  <2> QED
    BY <2>3, <2>4
<1>4. ASSUME NEW s \in Sockets, OnClose(s) PROVE Life(d)'
  <2>1. s[1] \in Devices /\ UNCHANGED calls
    BY <1>4 DEF Sockets, OnClose
  <2>2. /\ n(s[1])' = n(s[1]) - 1
        /\ \A x \in Devices \ {s[1]} : n(x)' = n(x)
    <3>1. sock' = [sock EXCEPT ![s] = ClientEnded(s)] /\ sock[s].client # "none"
          /\ ClientEnded(s).client = "none"
      BY <1>0, <1>4, EndsKeep DEF OnClose, Ends
    <3> QED
      BY <1>0, <2>1, <3>1, FewerLive DEF n
  <2>3. CASE d # s[1]
    BY <1>0, <1>4, <1>e, <2>1, <2>2, <2>3 DEF OnClose, TypeOK
  <2>4. CASE d = s[1]
    <3>1. /\ phone'[d].timer = "pending"
          /\ phone'[d].lost = IF phone[d].timer = "pending" THEN phone[d].lost + 1
                              ELSE phone[d].lost
      BY <1>0, <1>a, <1>4, <2>4 DEF OnClose, TypeOK, Service
    <3>2. Timers(d)' = Timers(d) + 1
      BY <1>a, <3>1 DEF Timers
    <3> QED
      BY <1>0, <1>a, <2>1, <2>2, <2>4, <3>2 DEF Once
  <2> QED
    BY <2>3, <2>4
<1>5. CASE Aside
  <2>1. n(d)' = n(d)
    BY <1>5, SameLive DEF Aside, n
  <2> QED
    BY <1>5, <1>e, <2>1 DEF Aside
<1> QED
  BY <1>1, <1>2, <1>3, <1>4, <1>5, <1>6, AsideSteps

----------------------------------------------------------------------------
\* The steps that neither send nor handle a broadcast.
Quiet ==
    /\ UNCHANGED <<push, got>>
    /\ \A s \in Sockets : box'[s] \subseteq box[s]
    /\ \A s \in Sockets, e \in Pushes : Due(s, e)' => Due(s, e)
    /\ \A d \in Devices : /\ calls'[d].connect = 0 => calls[d].connect = 0
                          /\ Once(d)' => Once(d) \/ calls[d].connect = 0

LEMMA QuietSteps ==
    ASSUME Inv, [Next]_vars,
           \A s \in Sockets, e \in Pushes : ~Receive(s, e),
           \A u \in Users, e \in Pushes, exclude \in Devices \cup {None} :
                ~BroadcastToUser(u, e, exclude)
    PROVE  Quiet
<1>0. /\ TypeOK /\ TypeOK' /\ \A s \in Sockets : s[1] \in Devices /\ sock[s] \in Socket
      /\ \A d \in Devices : calls[d].connect \in Nat
  BY TypeStep, BoundsAssumption DEF Inv, TypeOK, Sockets
<1>1. ASSUME NEW d \in Devices, Opener(d) \/ TimerFires(d) PROVE Quiet
  <2>1. PICK service \in Service : OpenSocket(d, service)
    BY <1>0, <1>1, ConnectOpens, TimerOpens
  <2>2. PICK i \in 1 .. MaxSockets, new \in Socket : OpensAt(d, service, i, new)
    BY <2>1, Opens
  <2>3. \A s \in Sockets : \/ box'[s] = {}
                           \/ box'[s] = box[s] /\ sock'[s] = sock[s]
    BY <1>0, <2>2 DEF OpensAt, TypeOK
  <2>4. /\ UNCHANGED <<push, got>>
        /\ \A x \in Devices : \/ calls'[x] = calls[x]
                              \/ /\ calls'[x].connect = calls[x].connect + 1
                                 /\ calls'[x].disconnect = calls[x].disconnect
    <3>1. CASE Opener(d)
      BY <1>0, <3>1 DEF Opener, Connect, TypeOK
    <3>2. CASE TimerFires(d)
      BY <3>2 DEF TimerFires
    <3> QED
      BY <1>1, <3>1, <3>2
  <2> QED
    BY <1>0, <2>3, <2>4 DEF Quiet, Due, Once
<1>2. ASSUME NEW d \in Devices, Disconnect(d) PROVE Quiet
  <2>1. \A s \in Sockets : sock[s].client = "none" => sock'[s] = sock[s]
    BY <1>0, <1>2 DEF Disconnect, TypeOK
  <2>2. \A x \in Devices : calls'[x].connect = calls[x].connect
                          /\ (calls[x].disconnect => calls'[x].disconnect)
    BY <1>0, <1>2 DEF Disconnect, TypeOK
  <2> QED
    BY <1>2, <2>1, <2>2 DEF Disconnect, Quiet, Due, Once
<1>3. ASSUME NEW s \in Sockets, Opened(s) PROVE Quiet
  <2>1. \A x \in Sockets : sock[x].client = "none" => sock'[x] = sock[x]
    BY <1>0, <1>3 DEF Opened, TypeOK
  <2> QED
    BY <1>3, <2>1 DEF Opened, Quiet, Due, Once
<1>4. ASSUME NEW s \in Sockets, OnClose(s) PROVE Quiet
  <2>1. \A x \in Sockets : \/ box'[x] = {}
                           \/ box'[x] = box[x] /\ sock'[x] = sock[x]
    BY <1>0, <1>4 DEF OnClose, TypeOK
  <2> QED
    BY <1>4, <2>1 DEF OnClose, Quiet, Due, Once
<1>5. ASSUME \A d \in Devices : ~(Opener(d) \/ TimerFires(d) \/ Disconnect(d)),
             \A s \in Sockets : ~(Opened(s) \/ OnClose(s))
      PROVE  Quiet
  <2>1. Aside
    BY <1>5, AsideSteps
  <2>2. ASSUME NEW s \in Sockets, Accept(s) \/ Pong(s) \/ SocketCloses(s)
        PROVE  UNCHANGED <<push, got, box>>
    BY <2>2 DEF Accept, Pong, SocketCloses
  <2>3. ASSUME NEW s \in Sockets, Cut(s)
        PROVE  UNCHANGED <<push, got>> /\ box' = [box EXCEPT ![s] = {}]
    BY <2>3 DEF Cut
  <2>4. ASSUME Heartbeat \/ Crash \/ Sigterm \/ ProcessStep \/ UNCHANGED vars
        PROVE  UNCHANGED <<push, got, box>>
    BY <2>4 DEF Heartbeat, Crash, Sigterm, ProcessStep, PoolEnded, Exit, Killed, Start,
       ProcessEnds, vars
  <2>5. UNCHANGED <<push, got>> /\ \A s \in Sockets : box'[s] \subseteq box[s]
    BY <1>0, <1>5, <2>2, <2>3, <2>4 DEF Next, Opener, Handshake, Closing, TypeOK
  <2> QED
    BY <2>1, <2>5 DEF Aside, Quiet, Due, Once
<1> QED
  BY <1>1, <1>2, <1>3, <1>4, <1>5

LEMMA PushStep == Inv /\ [Next]_vars => PushFit'
<1> SUFFICES ASSUME Inv, [Next]_vars PROVE PushFit'
  OBVIOUS
<1>0. TypeOK /\ PushFit /\ RoomsFit /\ \A s \in Sockets : s[1] \in Devices
  BY DEF Inv, Sockets
<1>1. CASE Quiet
  BY <1>0, <1>1 DEF Quiet, PushFit
<1>2. ASSUME NEW s \in Sockets, NEW e \in Pushes, Receive(s, e) PROVE PushFit'
  <2>1. push[e] # None /\ push[e].user = UserOf[s[1]] /\ push[e].exclude # s[1]
    BY <1>0, <1>2 DEF Receive, PushFit
  <2>2. /\ UNCHANGED push /\ \A x \in Sockets : box'[x] \subseteq box[x]
        /\ \A d \in Devices, y \in Pushes :
              <<d, y>> # <<s[1], e>> => got'[d][y] = got[d][y]
    BY <1>0, <1>2 DEF Receive, TypeOK
  <2> QED
    BY <1>0, <2>1, <2>2 DEF PushFit
<1>3. ASSUME NEW u \in Users, NEW e \in Pushes, NEW exclude \in Devices \cup {None},
             BroadcastToUser(u, e, exclude)
      PROVE  PushFit'
  <2>1. push[e] = None /\ UNCHANGED got
    BY <1>3 DEF BroadcastToUser
  <2>2. push'[e] # None /\ push'[e].user = u /\ push'[e].exclude = exclude
        /\ \A y \in Pushes \ {e} : push'[y] = push[y]
    <3>1. [user |-> u, exclude |-> exclude] \in Broadcast
      BY DEF Broadcast
    <3> QED
      BY <1>0, <1>3, <3>1, NoneAssumption DEF BroadcastToUser, TypeOK
  <2>3. \A s \in Sockets : /\ box'[s] \subseteq box[s] \cup {e}
                           /\ e \in box'[s] => UserOf[s[1]] = u /\ s[1] # exclude
    BY <1>0, <1>3, <2>1 DEF BroadcastToUser, Recipients, PushFit, RoomsFit
  <2> QED
    BY <1>0, <2>1, <2>2, <2>3 DEF PushFit
<1> QED
  BY <1>1, <1>2, <1>3, QuietSteps

LEMMA HandledStep == Inv /\ [Next]_vars => HandledFit'
<1> SUFFICES ASSUME Inv, [Next]_vars PROVE HandledFit'
  OBVIOUS
<1>0. /\ TypeOK /\ HandledFit /\ PushFit /\ OneLifeline
      /\ \A d \in Devices, e \in Pushes : got[d][e] \in Nat
  BY DEF Inv, TypeOK
<1>1. CASE Quiet
  BY <1>0, <1>1 DEF Quiet, HandledFit
<1>2. ASSUME NEW s \in Sockets, NEW e \in Pushes, Receive(s, e) PROVE HandledFit'
  <2> DEFINE d == s[1]
  <2>1. d \in Devices /\ s \in LiveSockets(d) /\ Due(s, e)
    BY <1>2 DEF Sockets, LiveSockets, Receive, Due
  <2>2. /\ UNCHANGED <<sock, calls>>
        /\ \A x \in Sockets : box'[x] = IF x = s THEN box[x] \ {e} ELSE box[x]
        /\ \A x \in Devices, y \in Pushes :
              got'[x][y] = IF x = d /\ y = e THEN got[x][y] + 1 ELSE got[x][y]
    BY <1>0, <1>2 DEF Receive, TypeOK
  <2>3. calls[d].connect # 0
    <3>1. Cardinality(LiveSockets(d)) \in Nat /\ Cardinality(LiveSockets(d)) # 0
      BY <2>1, LiveFinite, FS_EmptySet
    <3>2. Timers(d) \in Nat /\ calls[d].connect \in Nat
      BY <1>0, <2>1, BoundsAssumption DEF Timers, TypeOK, Service
    <3>3. Cardinality(LiveSockets(d)) + Timers(d) <= calls[d].connect
      BY <1>0, <2>1 DEF OneLifeline
    <3> QED
      BY <3>1, <3>2, <3>3
  <2>4. Once(d) => \A x \in Sockets : x[1] = d /\ Due(x, e) => x = s
    <3> SUFFICES ASSUME Once(d), NEW x \in Sockets, x[1] = d, Due(x, e) PROVE x = s
      OBVIOUS
    <3>1. Timers(d) \in Nat /\ Cardinality(LiveSockets(d)) \in Nat
      BY <1>0, <2>1, LiveFinite, BoundsAssumption DEF Timers, TypeOK, Service
    <3>2. Cardinality(LiveSockets(d)) + Timers(d) = 1
      BY <1>0, <2>1 DEF OneLifeline
    <3>3. Cardinality(LiveSockets(d)) <= 1
      BY <3>1, <3>2
    <3>4. x \in LiveSockets(d)
      BY DEF LiveSockets, Due
    <3> QED
      BY <2>1, <3>3, <3>4, LiveIsOne
  <2>5. Once(d) => got[d][e] = 0
    BY <1>0, <2>1 DEF HandledFit
  <2> HIDE DEF d
  <2> SUFFICES ASSUME NEW x \in Devices, NEW y \in Pushes
               PROVE  /\ calls[x].connect = 0 => got'[x][y] = 0
                      /\ Once(x) => /\ got'[x][y] <= 1
                                    /\ \A z \in Sockets :
                                          z[1] = x /\ Due(z, y)' => got'[x][y] = 0
    BY <2>2 DEF HandledFit, Once
  <2>6. \A z \in Sockets : Due(z, y)' => Due(z, y) /\ ~(z = s /\ y = e)
    BY <2>2 DEF Due
  <2>7. CASE x = d /\ y = e
    BY <2>1, <2>2, <2>3, <2>4, <2>5, <2>6, <2>7 DEF Once
  <2>8. CASE ~(x = d /\ y = e)
    BY <1>0, <2>2, <2>6, <2>8 DEF HandledFit
  <2> QED
    BY <2>7, <2>8
<1>3. ASSUME NEW u \in Users, NEW e \in Pushes, NEW exclude \in Devices \cup {None},
             BroadcastToUser(u, e, exclude)
      PROVE  HandledFit'
  <2>1. \A d \in Devices : got[d][e] = 0
    BY <1>0, <1>3 DEF BroadcastToUser, PushFit
  <2>2. /\ UNCHANGED <<sock, calls, got>>
        /\ \A s \in Sockets : box'[s] \subseteq box[s] \cup {e}
    BY <1>3 DEF BroadcastToUser
  <2> QED
    BY <1>0, <2>1, <2>2 DEF HandledFit, Once, Due
<1> QED
  BY <1>1, <1>2, <1>3, QuietSteps

----------------------------------------------------------------------------
LEMMA InvHolds == Spec => []Inv
<1>1. Inv /\ [Next]_vars => Inv'
  BY CallsStep, TypeStep, RoomsStep, LifeStep, PushStep, HandledStep DEF Inv
<1> QED
  BY <1>1, InitInv, PTL DEF Spec

(***************************************************************************)
(* Type correctness of the phones' services, the connections and the rooms *)
(* (websocket.service.ts, ws.server.ts).                                   *)
(***************************************************************************)
THEOREM TypeCorrect == Spec => []TypeOK
BY InvHolds, PTL DEF Inv

(***************************************************************************)
(* A user's room holds exactly his authenticated connections whose 'close' *)
(* is yet to come (ws.server.ts).                                          *)
(***************************************************************************)
THEOREM RoomsAreExact == Spec => []RoomsAreConnections
<1>1. Inv => RoomsAreConnections
  BY DEF Inv, TypeOK, RoomsFit, RoomsAreConnections, Clients
<1> QED
  BY <1>1, InvHolds, PTL

(***************************************************************************)
(* connect() starts one chain of connections and timers, which never ends  *)
(* by itself and never forks (websocket.service.ts openSocket, onclose).   *)
(***************************************************************************)
THEOREM LifelineHolds == Spec => []OneLifeline
BY InvHolds, PTL DEF Inv

(***************************************************************************)
(* A broadcast reaches only its user's other devices, and a phone that     *)
(* called connect() once handles it at most once (ws.broadcaster.ts).      *)
(***************************************************************************)
THEOREM PushReachesOnce == Spec => []PushReachesOthersOnce
<1>1. Inv => PushReachesOthersOnce
  BY DEF Inv, TypeOK, PushFit, HandledFit, PushReachesOthersOnce
<1> QED
  BY <1>1, InvHolds, PTL
====
