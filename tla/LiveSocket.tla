---- MODULE LiveSocket ----
(***************************************************************************)
(* The WebSocket connections of the phones: WebSocketService on each       *)
(* phone, the rooms, the heartbeat and the broadcast on the server, the    *)
(* link between them, and the end of the server process.                   *)
(*                                                                         *)
(* A connection has two ends that learn of its end at different times, or  *)
(* never: a cut link tells the server nothing.  Nothing in the sources     *)
(* calls connect(), disconnect() or broadcastToUser(); here anyone may.    *)
(***************************************************************************)
EXTENDS Naturals, FiniteSets

CONSTANTS
    Devices,        \* the phones, by the deviceId of their tokens ...
    Users,
    UserOf,         \* ... and the user of their tokens
    Pushes,         \* bound: names for broadcasts
    MaxSockets,     \* bound: connections of a phone that exist at a time
    MaxUpsets,      \* bound: cuts, crashes, terminations, calls of disconnect(), and
                    \* calls of connect() after a phone's first
    None,
    FaultSets       \* what may happen, one of these sets for each behaviour:
                    \*   "cut"         links are cut
                    \*   "silent"      ... and the phone is not told either
                    \*   "slow"        a pong may take longer than a heartbeat
                    \*   "term"        the process is asked to end
                    \*   "crash"       the process ends
                    \*   "badToken"    a token is invalid or has expired
                    \*   "push"        broadcastToUser() is called
                    \*   "calls"       disconnect() is called, and connect() more than once
                    \*   "others"      more than one phone connects

Broadcast == [user : Users, exclude : Devices \cup {None}]

ASSUME UserOfAssumption == UserOf \in [Devices -> Users]
ASSUME NoneAssumption == None \notin Devices \cup Broadcast
ASSUME BoundsAssumption ==
    MaxSockets \in Nat /\ MaxUpsets \in Nat

VARIABLES
    faults,         \* the member of FaultSets this behaviour is under
    proc,           \* the server process
    rooms,          \* user -> connections
    sock,           \* connection -> both its ends and the link
    box,            \* connection -> broadcasts on their way to the phone
    phone,          \* phone -> the fields of its WebSocketService
    calls,          \* phone -> history: calls of connect(), and whether disconnect() was called
    upsets,         \* how many there were
    push,           \* broadcast -> its user and the device it excludes
    got             \* phone -> broadcast -> times its handlers were called

vars == <<faults, proc, rooms, sock, box, phone, calls, upsets, push, got>>

Sockets == Devices \X (1 .. MaxSockets)

\* client: "none" (before, and after onclose), "connecting", "refused" (will not
\* connect), "open", "closing" (close() was called).
\* server: "none" (before 'connection'), "open", "closing" (close() or terminate()
\* was called), "gone" (after 'close', while the phone's end lives).
Socket == [client : {"none", "connecting", "refused", "open", "closing"},
           server : {"none", "open", "closing", "gone"},
           valid : BOOLEAN,         \* jwt.verify accepts its token
           link : BOOLEAN,
           isAlive : BOOLEAN,
           pinged : BOOLEAN]        \* a ping is unanswered

\* timer: reconnectTimer is null, pending, or a timer that fired or was cleared.
\* lost: pending timers that reconnectTimer refers to no more.
Service == [ws : 0 .. MaxSockets,   \* 0 is null
            valid : BOOLEAN,        \* of the token given last
            timer : {"null", "pending", "stale"},
            lost : 0 .. MaxUpsets + 1]

Unused == [client |-> "none", server |-> "none", valid |-> FALSE, link |-> FALSE,
           isAlive |-> FALSE, pinged |-> FALSE]

Init ==
    /\ faults \in FaultSets
    /\ proc = "up"
    /\ rooms = [u \in Users |-> {}]
    /\ sock = [s \in Sockets |-> Unused]
    /\ box = [s \in Sockets |-> {}]
    /\ phone = [d \in Devices |-> [ws |-> 0, valid |-> FALSE, timer |-> "null", lost |-> 0]]
    /\ calls = [d \in Devices |-> [connect |-> 0, disconnect |-> FALSE]]
    /\ upsets = 0
    /\ push = [e \in Pushes |-> None]
    /\ got = [d \in Devices |-> [e \in Pushes |-> 0]]

Listening == proc \in {"up", "ending"}

\* wss.clients: the connections of the process.
Clients == {s \in Sockets : sock[s].server \in {"open", "closing"}}

\* The two ends after the phone's, or the server's, has ended.
ClientEnded(s) == IF s \in Clients THEN [sock[s] EXCEPT !.client = "none"] ELSE Unused
ServerEnded(s) == IF sock[s].client = "none" THEN Unused
                  ELSE [sock[s] EXCEPT !.server = "gone", !.isAlive = FALSE, !.pinged = FALSE]

----------------------------------------------------------------------------
\* openSocket(): this.ws is a new connection, whatever it was before.
OpenSocket(d, service) ==
    \E i \in 1 .. MaxSockets :
        /\ sock[<<d, i>>] = Unused /\ \A j \in 1 .. (i - 1) : sock[<<d, j>>] # Unused
        /\ sock' = [sock EXCEPT ![<<d, i>>] =
              [Unused EXCEPT !.client = IF Listening THEN "connecting" ELSE "refused",
                             !.valid = service.valid, !.link = TRUE]]
        /\ box' = [box EXCEPT ![<<d, i>>] = {}]
        /\ phone' = [phone EXCEPT ![d] = [service EXCEPT !.ws = i]]

FirstDevice == CHOOSE d \in Devices : TRUE

Connect(d, valid) ==
    /\ upsets' = IF calls[d].connect = 0 THEN upsets ELSE upsets + 1
    /\ upsets' <= MaxUpsets
    /\ "calls" \in faults \/ calls[d].connect = 0
    /\ valid \/ "badToken" \in faults
    /\ "others" \in faults \/ d = FirstDevice
    /\ OpenSocket(d, [phone[d] EXCEPT !.valid = valid])
    /\ calls' = [calls EXCEPT ![d].connect = @ + 1]
    /\ UNCHANGED <<faults, proc, rooms, push, got>>

\* Mutant: setInterval for setTimeout.
TimerFires_Again(d) ==
    /\ phone[d].timer = "pending" \/ phone[d].lost > 0
    /\ OpenSocket(d, phone[d])
    /\ UNCHANGED <<faults, proc, rooms, calls, upsets, push, got>>

\* The timer of reconnectTimer, or one it refers to no more.
TimerFires(d) ==
    /\ \/ phone[d].timer = "pending" /\ OpenSocket(d, [phone[d] EXCEPT !.timer = "stale"])
       \/ phone[d].lost > 0 /\ OpenSocket(d, [phone[d] EXCEPT !.lost = @ - 1])
    /\ UNCHANGED <<faults, proc, rooms, calls, upsets, push, got>>

\* The token stays, and onclose is yet to come.
Disconnect(d) ==
    LET s == <<d, phone[d].ws>> IN
    /\ "calls" \in faults /\ upsets < MaxUpsets
    /\ calls[d].connect > 0
    /\ phone' = [phone EXCEPT ![d].ws = 0,
                              ![d].timer = IF @ = "pending" THEN "stale" ELSE @]
    /\ sock' = IF s \in Sockets /\ sock[s].client # "none"
               THEN [sock EXCEPT ![s].client = "closing"] ELSE sock
    /\ upsets' = upsets + 1
    /\ calls' = [calls EXCEPT ![d].disconnect = TRUE]
    /\ UNCHANGED <<faults, proc, rooms, box, push, got>>

\* onopen: the timer is cleared.  (What it sends is only acknowledged.)
Opened(s) ==
    /\ sock[s].client = "connecting" /\ sock[s].link /\ s \in Clients
    /\ sock' = [sock EXCEPT ![s].client = "open"]
    /\ phone' = [phone EXCEPT ![s[1]].timer = "null"]
    /\ UNCHANGED <<faults, proc, rooms, box, calls, upsets, push, got>>

\* The phone learns that its connection has ended.
Ends(s) ==
    \/ sock[s].client \in {"refused", "closing"}
    \/ sock[s].client # "none" /\ ~sock[s].link /\ "silent" \notin faults
    \/ sock[s].client # "none" /\ sock[s].link /\ sock[s].server = "gone"
    \/ sock[s].client = "open" /\ sock[s].link /\ sock[s].server = "closing"

\* Mutant: no second timer is set while reconnectTimer is not null.
OnClose_IfNoTimer(s) ==
    LET d == s[1] IN
    /\ Ends(s)
    /\ sock' = [sock EXCEPT ![s] = ClientEnded(s)]
    /\ box' = [box EXCEPT ![s] = {}]
    /\ phone' = IF phone[d].timer = "null" THEN [phone EXCEPT ![d].timer = "pending"] ELSE phone
    /\ UNCHANGED <<faults, proc, rooms, calls, upsets, push, got>>

\* onclose: a new timer, which replaces the reference to the one before.
OnClose(s) ==
    LET d == s[1] IN
    /\ Ends(s)
    /\ sock' = [sock EXCEPT ![s] = ClientEnded(s)]
    /\ box' = [box EXCEPT ![s] = {}]
    /\ phone' = [phone EXCEPT ![d].timer = "pending",
                              ![d].lost = IF phone[d].timer = "pending" THEN @ + 1 ELSE @]
    /\ UNCHANGED <<faults, proc, rooms, calls, upsets, push, got>>

\* onmessage
Receive(s, e) ==
    /\ e \in box[s] /\ sock[s].client = "open"
    /\ box' = [box EXCEPT ![s] = @ \ {e}]
    /\ got' = [got EXCEPT ![s[1]][e] = @ + 1]
    /\ UNCHANGED <<faults, proc, rooms, sock, phone, calls, upsets, push>>

----------------------------------------------------------------------------
\* 'connection': a token that does not verify closes it with 1008.
Accept(s) ==
    /\ proc # "down"
    /\ sock[s].client = "connecting" /\ sock[s].server = "none" /\ sock[s].link
    /\ sock' = [sock EXCEPT ![s].server = IF sock[s].valid THEN "open" ELSE "closing",
                            ![s].isAlive = sock[s].valid]
    /\ rooms' = IF sock[s].valid
                THEN [rooms EXCEPT ![UserOf[s[1]]] = @ \cup {s}] ELSE rooms
    /\ UNCHANGED <<faults, proc, box, phone, calls, upsets, push, got>>

\* 'pong': the phone's WebSocket answers a ping by itself.
Pong(s) ==
    /\ sock[s].pinged /\ sock[s].link /\ sock[s].client # "none"
    /\ sock' = [sock EXCEPT ![s].pinged = FALSE, ![s].isAlive = TRUE]
    /\ UNCHANGED <<faults, proc, rooms, box, phone, calls, upsets, push, got>>

PongDue == \E s \in Clients :
    sock[s].pinged /\ sock[s].link /\ sock[s].client # "none" /\ sock[s].server = "open"

\* Mutant: isAlive is not reset.
Beat_NoReset(s) ==
    IF ~sock[s].isAlive THEN [sock[s] EXCEPT !.server = "closing"]
    ELSE [sock[s] EXCEPT !.pinged = (sock[s].server = "open")]

\* What a heartbeat makes of a connection; terminate() is followed by 'close'.
Beat(s) ==
    IF ~sock[s].isAlive THEN [sock[s] EXCEPT !.server = "closing"]
    ELSE [sock[s] EXCEPT !.isAlive = FALSE, !.pinged = (sock[s].server = "open")]

Heartbeat ==
    /\ proc # "down"
    /\ "slow" \in faults \/ ~PongDue
    /\ sock' = [s \in Sockets |-> IF s \in Clients THEN Beat(s) ELSE sock[s]]
    /\ UNCHANGED <<faults, proc, rooms, box, phone, calls, upsets, push, got>>

\* Mutant: 'close' leaves the connection in its room.
SocketCloses_Stays(s) ==
    /\ \/ sock[s].server = "closing"
       \/ sock[s].server = "open" /\ sock[s].link /\ sock[s].client \in {"none", "closing"}
    /\ sock' = [sock EXCEPT ![s] = ServerEnded(s)]
    /\ UNCHANGED <<faults, proc, rooms, box, phone, calls, upsets, push, got>>

\* 'close', after terminate(), close(1008) or the phone's close
SocketCloses(s) ==
    /\ \/ sock[s].server = "closing"
       \/ sock[s].server = "open" /\ sock[s].link /\ sock[s].client \in {"none", "closing"}
    /\ sock' = [sock EXCEPT ![s] = ServerEnded(s)]
    /\ rooms' = [rooms EXCEPT ![UserOf[s[1]]] = @ \ {s}]
    /\ UNCHANGED <<faults, proc, box, phone, calls, upsets, push, got>>

\* Mutant: the device that caused the event hears of it.
Recipients_Echo(u, exclude) == {s \in rooms[u] : sock[s].server = "open"}

\* Those broadcastToUser sends to.
Recipients(u, exclude) == {s \in rooms[u] : sock[s].server = "open" /\ s[1] # exclude}

\* What is sent on a cut link is lost.
BroadcastToUser(u, e, exclude) ==
    /\ "push" \in faults /\ proc # "down"
    /\ push[e] = None
    /\ push' = [push EXCEPT ![e] = [user |-> u, exclude |-> exclude]]
    /\ box' = [s \in Sockets |-> IF s \in Recipients(u, exclude) /\ sock[s].link
                                 THEN box[s] \cup {e} ELSE box[s]]
    /\ UNCHANGED <<faults, proc, rooms, sock, phone, calls, upsets, got>>

----------------------------------------------------------------------------
Cut(s) ==
    /\ "cut" \in faults /\ upsets < MaxUpsets
    /\ sock[s].link /\ sock[s].client \in {"connecting", "open"}
    /\ sock' = [sock EXCEPT ![s].link = FALSE]
    /\ box' = [box EXCEPT ![s] = {}]
    /\ upsets' = upsets + 1
    /\ UNCHANGED <<faults, proc, rooms, phone, calls, push, got>>

\* The memory of the process is gone, and with it the server's end of everything.
ProcessEnds ==
    /\ proc' = "down"
    /\ rooms' = [u \in Users |-> {}]
    /\ sock' = [s \in Sockets |-> ServerEnded(s)]
    /\ UNCHANGED <<faults, box, phone, calls, push, got>>

Crash ==
    /\ "crash" \in faults /\ upsets < MaxUpsets
    /\ proc # "down"
    /\ upsets' = upsets + 1
    /\ ProcessEnds

\* SIGTERM: pool.end() first, then server.close(), which stops listening and calls
\* back when the last connection has ended.
Sigterm ==
    /\ "term" \in faults /\ upsets < MaxUpsets
    /\ proc = "up"
    /\ proc' = "ending"
    /\ upsets' = upsets + 1
    /\ UNCHANGED <<faults, rooms, sock, box, phone, calls, push, got>>

PoolEnded ==
    /\ proc = "ending"
    /\ proc' = "closing"
    /\ UNCHANGED <<faults, rooms, sock, box, phone, calls, upsets, push, got>>

Exit ==
    /\ proc = "closing"
    /\ Clients = {} /\ \A s \in Sockets : ~(sock[s].client = "connecting" /\ sock[s].link)
    /\ ProcessEnds
    /\ UNCHANGED upsets

\* The container runtime kills a process that does not end when asked to.
Killed ==
    /\ proc \in {"ending", "closing"}
    /\ ProcessEnds
    /\ UNCHANGED upsets

Start ==
    /\ proc = "down"
    /\ proc' = "up"
    /\ UNCHANGED <<faults, rooms, sock, box, phone, calls, upsets, push, got>>

----------------------------------------------------------------------------
Handshake(s) == Accept(s) \/ Opened(s)
Closing(s) == SocketCloses(s) \/ OnClose(s)

ProcessStep == PoolEnded \/ Exit \/ Killed \/ Start

Next ==
    \/ \E d \in Devices :
          \/ \E valid \in BOOLEAN : Connect(d, valid)
          \/ TimerFires(d)
          \/ Disconnect(d)
    \/ \E s \in Sockets :
          \/ Handshake(s)
          \/ Closing(s)
          \/ Pong(s)
          \/ \E e \in Pushes : Receive(s, e)
          \/ Cut(s)
    \/ Heartbeat
    \/ \E u \in Users, e \in Pushes, exclude \in Devices \cup {None} :
          BroadcastToUser(u, e, exclude)
    \/ Crash
    \/ Sigterm
    \/ ProcessStep

Spec == Init /\ [][Next]_vars

FairSpec ==
    /\ Spec
    /\ \A d \in Devices : WF_vars(TimerFires(d))
    /\ WF_vars(\E s \in Sockets : Handshake(s))
    /\ WF_vars(\E s \in Sockets : Closing(s))
    /\ WF_vars(\E s \in Sockets : Pong(s))
    /\ WF_vars(Heartbeat)
    /\ WF_vars(ProcessStep)

----------------------------------------------------------------------------
TypeOK ==
    /\ faults \in FaultSets
    /\ proc \in {"up", "ending", "closing", "down"}
    /\ rooms \in [Users -> SUBSET Sockets]
    /\ sock \in [Sockets -> Socket]
    /\ box \in [Sockets -> SUBSET Pushes]
    /\ phone \in [Devices -> Service]
    /\ calls \in [Devices -> [connect : 0 .. MaxUpsets + 1, disconnect : BOOLEAN]]
    /\ upsets \in 0 .. MaxUpsets
    /\ push \in [Pushes -> Broadcast \cup {None}]
    /\ got \in [Devices -> [Pushes -> Nat]]

(***************************************************************************)
(* A user's room holds exactly the connections of the process that         *)
(* presented a valid token of his and whose 'close' has not been handled,  *)
(* through terminations, refused tokens, cut links and restarts.           *)
(***************************************************************************)
RoomsAreConnections ==
    \A u \in Users :
        rooms[u] = {s \in Clients : sock[s].valid /\ UserOf[s[1]] = u}

\* Connections the phone may still hear from.
LiveSockets(d) == {s \in Sockets : s[1] = d /\ sock[s].client # "none"}

\* connect() was called once and disconnect() was not.
Once(d) == calls[d].connect = 1 /\ ~calls[d].disconnect

Timers(d) == phone[d].lost + (IF phone[d].timer = "pending" THEN 1 ELSE 0)

(***************************************************************************)
(* A phone that called connect() once is always in exactly one of two      *)
(* states: it has one connection and no timer, or one timer and no         *)
(* connection.  So it never gives up, and never connects twice.  However   *)
(* often connect() and disconnect() are called, a phone has no more        *)
(* connections and timers than connect() was called.                       *)
(***************************************************************************)
OneLifeline ==
    \A d \in Devices :
        /\ Cardinality(LiveSockets(d)) + Timers(d) <= calls[d].connect
        /\ Once(d) => Cardinality(LiveSockets(d)) + Timers(d) = 1

(***************************************************************************)
(* A broadcast is handled only on phones of its user, never on the device  *)
(* it excludes, and at most once on a phone that called connect() once,    *)
(* though the server may still hold a dead connection of that phone.       *)
(***************************************************************************)
PushReachesOthersOnce ==
    \A d \in Devices, e \in Pushes : got[d][e] > 0 =>
        /\ push[e].user = UserOf[d] /\ push[e].exclude # d
        /\ Once(d) => got[d][e] = 1

(***************************************************************************)
(* A connection whose link is cut does not stay open on the server: the    *)
(* heartbeat terminates it ("prune dead connections").                     *)
(***************************************************************************)
DeadPeersPruned ==
    \A s \in Sockets : sock[s].server = "open" /\ ~sock[s].link ~> sock[s].server # "open"

InRoom(d) == \E s \in rooms[UserOf[d]] : s[1] = d /\ sock[s].client = "open"

(***************************************************************************)
(* A phone that was connected with a valid token is back in its user's     *)
(* room after every cut, crash or restart, when its system tells it of a   *)
(* broken link and pongs are in time: the timer, the upgrade and the       *)
(* heartbeat together.  Unless disconnect() is called or the token changed.*)
(***************************************************************************)
BackInRoom ==
    \A d \in Devices :
        (faults \cap {"silent", "slow"} = {} /\ phone[d].valid)
            ~> (InRoom(d) \/ calls[d].disconnect \/ ~phone[d].valid)
====
