-------------------------------- MODULE Hub --------------------------------
(***************************************************************************)
(* The WebSocket hub of one server process (internal/transport/ws) with    *)
(* the feature handlers it calls (internal/feature/integrations/ws).       *)
(*                                                                         *)
(* One goroutine, Hub.Run, selects among its channels and runs the         *)
(* handlers itself.  A handler that broadcasts sends to the hub's own      *)
(* Broadcast channel, so what is left of the event in progress is kept in  *)
(* `todo` and its sends block like any other.  Every connection has a      *)
(* reader and a writer goroutine of its own.  Redis carries broadcasts     *)
(* between processes: `wire` is what this process's subscription has still *)
(* to receive.                                                             *)
(***************************************************************************)
EXTENDS Integers, Sequences, FiniteSets

CONSTANTS
  Clients,        \* connections that may be made, each at most once
  Users, UserOf,  \* the user of a connection
  Rooms, RoomOf,  \* its room, or None for a connection made at /ws
  Points,         \* cursor positions
  Handlers,       \* feature handlers in the registry
  Kinds,          \* inbound message types the clients send
  None,
  BroadcastCap, InboundCap, OfflineCap, SendCap,  \* 512, 512, 64 and 256 in the code
  MaxInbound,     \* bound: inbound messages in a behaviour
  MaxNews,        \* bound: messages published by use cases, here and elsewhere
  Faults          \* what may happen beside the traffic

AllFaults == {"redis error", "write error", "typing ttl", "shutdown"}
AllKinds == {"presence.ping", "notification.read", "typing.start", "typing.stop",
             "cursor.move", "check_offline", "unknown", "malformed"}

ASSUME HubConstants ==
  /\ UserOf \in [Clients -> Users]
  /\ None \notin Rooms \cup Users \cup Points
  /\ RoomOf \in [Clients -> Rooms \cup {None}]
  /\ Handlers \subseteq {"presence", "typing", "cursor"}
  /\ Kinds \subseteq AllKinds
  /\ {BroadcastCap, InboundCap, OfflineCap, SendCap} \subseteq Nat \ {0}
  /\ {MaxInbound, MaxNews} \subseteq Nat
  /\ Faults \subseteq AllFaults

VARIABLES
  status,     \* "running", "stopped" (context cancelled) or "panic"
  conn,       \* readPump of each connection
  writer,     \* writePump of each connection
  send,       \* Client.send
  closed,     \* the connections whose send channel is closed
  members,    \* the connections in globals or in a room
  inbound, broadcast, offline,  \* the hub's buffered channels
  todo,       \* what the hub goroutine has still to do in this event
  timers,     \* running handleOfflineSchedule goroutines, per user
  wire,       \* messages the Redis subscription has still to hand over
  cursors,    \* CursorHandler.positions
  typists,    \* Redis set ws:typing:<room>
  view,       \* what each connection's browser was last told of its room
  heard,      \* inbound messages sent so far
  news        \* messages published so far: the next one's identity

queues == <<inbound, broadcast, offline, wire>>
rooms  == <<cursors, typists>>
counts == <<heard, news>>
vars   == <<status, conn, writer, send, closed, members, queues, todo, timers,
            rooms, view, counts>>

Positions == [Users -> Points \cup {None}]
NoCursors == [u \in Users |-> None]
Blank     == [cursor |-> NoCursors, typing |-> {}]

(* An OutboundMessage: no room and no user is what Global means.  `about` *)
(* is the part of the view it replaces, "news" when it replaces nothing.  *)
Message(room, user, about, body) ==
  [room |-> room, user |-> user, about |-> about, body |-> body]
News(n, room, user) == Message(room, user, "news", n)
Event == News(0, None, None)     \* a user came online or went offline

Messages ==
  LET Addressed(about, bodies) ==
        [room: Rooms \cup {None}, user: Users \cup {None}, about: {about}, body: bodies]
  IN  Addressed("news", 0..MaxNews) \cup Addressed("typing", SUBSET Users)
      \cup Addressed("cursor", Positions)

(* One entry of todo: a blocking channel send or a handler still to run. *)
Push(m)          == [do |-> "push", message |-> m]
Later(u)         == [do |-> "later", user |-> u]
Greet(c)         == [do |-> "greet", client |-> c]
Typing(c, on)    == [do |-> "typing", client |-> c, on |-> on]
Cursor(c, point) == [do |-> "cursor", client |-> c, point |-> point]
Remove(c)        == [do |-> "remove", client |-> c]

Init ==
  /\ status = "running"
  /\ conn = [c \in Clients |-> "new"]
  /\ writer = [c \in Clients |-> "none"]
  /\ send = [c \in Clients |-> <<>>]
  /\ closed = {} /\ members = {}
  /\ inbound = <<>> /\ broadcast = <<>> /\ offline = <<>> /\ wire = <<>>
  /\ todo = <<>>
  /\ timers = [u \in Users |-> 0]
  /\ cursors = [r \in Rooms |-> NoCursors]
  /\ typists = [r \in Rooms |-> {}]
  /\ view = [c \in Clients |-> Blank]
  /\ heard = 0 /\ news = 0

Alive    == status # "panic"           \* a panic ends the whole process
AtSelect == status = "running" /\ todo = <<>>
Doing(what) == status = "running" /\ todo # <<>> /\ Head(todo).do = what
With(handler, entries) == IF handler \in Handlers THEN entries ELSE <<>>
Outcomes == IF "redis error" \in Faults THEN BOOLEAN ELSE {TRUE}

-----------------------------------------------------------------------------
(* Delivery. *)

(* Client.Send: a full buffer loses the message, a closed channel panics. *)
SendTo(c, m) ==
  IF c \in closed
  THEN status' = "panic" /\ UNCHANGED send
  ELSE /\ send' = IF Len(send[c]) < SendCap THEN [send EXCEPT ![c] = Append(@, m)]
                                            ELSE send
       /\ UNCHANGED status

Targets(m) ==
  LET audience == IF m.room # None THEN {c \in members : RoomOf[c] = m.room}
                  ELSE IF m.user = None THEN members
                  ELSE {c \in members : RoomOf[c] = None}
  IN  {c \in audience : m.user \in {None, UserOf[c]}}

(* Mutant of DeliverLocally: the slow client's channel is closed, but it stays in its room. *)
DeliverKeepingSlow(m) ==
  LET slow == {c \in Targets(m) : Len(send[c]) >= SendCap}
  IN  /\ send' = [c \in Clients |-> IF c \in Targets(m) \ slow THEN Append(send[c], m)
                                                               ELSE send[c]]
      /\ members' = members
      /\ closed' = closed \cup slow

(* A target whose buffer is full is removed: its channel is closed. *)
DeliverLocally(m) ==
  LET slow == {c \in Targets(m) : Len(send[c]) >= SendCap}
  IN  /\ send' = [c \in Clients |-> IF c \in Targets(m) \ slow THEN Append(send[c], m)
                                                               ELSE send[c]]
      /\ members' = members \ slow
      /\ closed' = closed \cup slow

-----------------------------------------------------------------------------
(* Connections: the HTTP goroutine that starts them and their two pumps. *)

(* readPump hands a message to the hub, waiting for room in inbound. *)
Read(c, kind) ==
  /\ Alive /\ conn[c] = "open" /\ heard < MaxInbound /\ Len(inbound) < InboundCap
  /\ inbound' = Append(inbound, [client |-> c, kind |-> kind])
  /\ heard' = heard + 1
  /\ UNCHANGED <<status, conn, writer, send, closed, members, broadcast, offline,
                 wire, todo, timers, rooms, view, news>>

(* A read error, or the pong deadline: readPump waits to unregister. *)
ReadError(c) ==
  /\ Alive /\ conn[c] = "open"
  /\ conn' = [conn EXCEPT ![c] = "leaving"]
  /\ UNCHANGED <<status, writer, send, closed, members, queues, todo, timers,
                 rooms, view, counts>>

(* What the browser shows after a message. *)
Shown(v, m) ==
  CASE m.about = "cursor" -> [v EXCEPT !.cursor = m.body]
    [] m.about = "typing" -> [v EXCEPT !.typing = m.body]
    [] OTHER -> v

Write(c) ==
  /\ Alive /\ writer[c] = "running" /\ send[c] # <<>>
  /\ view' = [view EXCEPT ![c] = Shown(@, Head(send[c]))]
  /\ send' = [send EXCEPT ![c] = Tail(@)]
  /\ UNCHANGED <<status, conn, writer, closed, members, queues, todo, timers,
                 rooms, counts>>

(* writePump ends on a write error, or once a closed channel is drained; *)
(* it closes the socket either way.                                      *)
WriterEnds(c) ==
  /\ writer[c] = "running"
  /\ writer' = [writer EXCEPT ![c] = "ended"]
  /\ UNCHANGED <<status, conn, send, closed, members, queues, todo, timers,
                 rooms, view, counts>>
WriteError(c)  == Alive /\ "write error" \in Faults /\ WriterEnds(c)
WriterDone(c)  == Alive /\ c \in closed /\ send[c] = <<>> /\ WriterEnds(c)

-----------------------------------------------------------------------------
(* The cases of Hub.Run's select. *)

(* Client.Start of a new connection blocks until the hub receives it.     *)
(* addClient, then OnConnect of every handler: presence counts the    *)
(* connection and broadcasts, cursor sends the newcomer a snapshot.   *)
Register(c) ==
  /\ AtSelect /\ conn[c] = "new"
  /\ conn' = [conn EXCEPT ![c] = "open"]
  /\ writer' = [writer EXCEPT ![c] = "running"]
  /\ members' = members \cup {c}
  /\ \E counted \in Outcomes :
       todo' = With("presence", IF counted THEN <<Push(Event)>> ELSE <<>>)
               \o With("cursor", <<Greet(c)>>)
  /\ UNCHANGED <<status, send, closed, queues, timers, rooms, view, counts>>

(* Mutant of Unregister: the handlers are told, the client is never removed. *)
UnregisterWithoutRemove(c) ==
  /\ AtSelect /\ conn[c] = "leaving"
  /\ conn' = [conn EXCEPT ![c] = "gone"]
  /\ \E last \in BOOLEAN :
       todo' = With("presence", IF last THEN <<Later(UserOf[c])>> ELSE <<>>)
               \o With("typing", IF RoomOf[c] = None THEN <<>> ELSE <<Typing(c, FALSE)>>)
               \o With("cursor", IF RoomOf[c] = None THEN <<>> ELSE <<Cursor(c, None)>>)
  /\ UNCHANGED <<status, writer, send, closed, members, queues, timers, rooms,
                 view, counts>>

(* OnDisconnect of every handler, then removeClient.  Whether this was the *)
(* user's last connection is the presence counter's business: the counter  *)
(* is shared with other processes and is modelled in Presence.             *)
Unregister(c) ==
  /\ AtSelect /\ conn[c] = "leaving"
  /\ conn' = [conn EXCEPT ![c] = "gone"]
  /\ \E last \in BOOLEAN :
       todo' = With("presence", IF last THEN <<Later(UserOf[c])>> ELSE <<>>)
               \o With("typing", IF RoomOf[c] = None THEN <<>> ELSE <<Typing(c, FALSE)>>)
               \o With("cursor", IF RoomOf[c] = None THEN <<>> ELSE <<Cursor(c, None)>>)
               \o <<Remove(c)>>
  /\ UNCHANGED <<status, writer, send, closed, members, queues, timers, rooms,
                 view, counts>>

Take == AtSelect /\ inbound # <<>> /\ inbound' = Tail(inbound)
Sender == Head(inbound).client
Kind   == Head(inbound).kind
InRoom == RoomOf[Sender] # None

(* Messages answered on the connection they came from: acknowledged pings *)
(* and reads, and everything refused.                                     *)
Answer ==
  /\ Take
  /\ \/ Kind \in {"presence.ping", "notification.read", "unknown"}
     \/ Kind \in {"typing.start", "typing.stop"} /\ ~InRoom
     \/ Kind = "check_offline" /\ "presence" \notin Handlers
  /\ SendTo(Sender, News(0, None, UserOf[Sender]))
  /\ UNCHANGED <<conn, writer, closed, members, broadcast, offline, wire, todo,
                 timers, rooms, view, counts>>

Ignore ==
  /\ Take
  /\ Kind = "malformed" \/ (Kind = "cursor.move" /\ ~InRoom)
  /\ UNCHANGED <<status, conn, writer, send, closed, members, broadcast, offline,
                 wire, todo, timers, rooms, view, counts>>

Handle ==
  /\ Take /\ InRoom
  /\ \/ /\ Kind \in {"typing.start", "typing.stop"}
        /\ todo' = <<Typing(Sender, Kind = "typing.start")>>
     \/ /\ Kind = "cursor.move"
        /\ \E p \in Points : todo' = <<Cursor(Sender, p)>>
  /\ UNCHANGED <<status, conn, writer, send, closed, members, broadcast, offline,
                 wire, timers, rooms, view, counts>>

(* _internal.check_offline is meant for handleOfflineSchedule and is a    *)
(* registered type like any other: sent by a client, the hub goroutine     *)
(* runs the check, and broadcasts if the counter has no such user.         *)
CheckOffline ==
  /\ Take /\ Kind = "check_offline" /\ "presence" \in Handlers
  /\ \E online \in BOOLEAN : todo' = IF online THEN <<>> ELSE <<Push(Event)>>
  /\ UNCHANGED <<status, conn, writer, send, closed, members, broadcast, offline,
                 wire, timers, rooms, view, counts>>

(* Our own subscription is one of the receivers of what we publish. *)
Fanout ==
  /\ AtSelect /\ broadcast # <<>>
  /\ broadcast' = Tail(broadcast)
  /\ \E published \in Outcomes :
       wire' = IF published THEN Append(wire, Head(broadcast)) ELSE wire
  /\ DeliverLocally(Head(broadcast))
  /\ UNCHANGED <<status, conn, writer, inbound, offline, todo, timers, rooms, view,
                 counts>>

FromRedis ==
  /\ AtSelect /\ wire # <<>>
  /\ wire' = Tail(wire)
  /\ DeliverLocally(Head(wire))
  /\ UNCHANGED <<status, conn, writer, inbound, broadcast, offline, todo, timers,
                 rooms, view, counts>>

StartTimer ==
  /\ AtSelect /\ offline # <<>>
  /\ offline' = Tail(offline)
  /\ timers' = [timers EXCEPT ![Head(offline)] = @ + 1]
  /\ UNCHANGED <<status, conn, writer, send, closed, members, inbound, broadcast,
                 wire, todo, rooms, view, counts>>

Stop ==
  /\ AtSelect /\ "shutdown" \in Faults
  /\ status' = "stopped"
  /\ UNCHANGED <<conn, writer, send, closed, members, queues, todo, timers, rooms,
                 view, counts>>

-----------------------------------------------------------------------------
(* The rest of an event, one blocking send or one handler at a time. *)

(* Mutant of DoPush: the channel is taken for unbounded. *)
DoPushUnbounded ==
  /\ Doing("push")
  /\ broadcast' = Append(broadcast, Head(todo).message)
  /\ todo' = Tail(todo)
  /\ UNCHANGED <<status, conn, writer, send, closed, members, inbound, offline,
                 wire, timers, rooms, view, counts>>

DoPush ==
  /\ Doing("push") /\ Len(broadcast) < BroadcastCap
  /\ broadcast' = Append(broadcast, Head(todo).message)
  /\ todo' = Tail(todo)
  /\ UNCHANGED <<status, conn, writer, send, closed, members, inbound, offline,
                 wire, timers, rooms, view, counts>>

DoLater ==
  /\ Doing("later") /\ Len(offline) < OfflineCap
  /\ offline' = Append(offline, Head(todo).user)
  /\ todo' = Tail(todo)
  /\ UNCHANGED <<status, conn, writer, send, closed, members, inbound, broadcast,
                 wire, timers, rooms, view, counts>>

(* CursorHandler.OnConnect: nothing is sent for a room without cursors. *)
DoGreet ==
  /\ Doing("greet")
  /\ LET c == Head(todo).client
         r == RoomOf[c]
     IN  IF r # None /\ cursors[r] # NoCursors
         THEN SendTo(c, Message(r, UserOf[c], "cursor", cursors[r]))
         ELSE UNCHANGED <<status, send>>
  /\ todo' = Tail(todo)
  /\ UNCHANGED <<conn, writer, closed, members, queues, timers, rooms, view, counts>>

(* Mutant of DoTyping: the typing users are read before the change. *)
DoTypingFromOldRead ==
  /\ Doing("typing")
  /\ LET c == Head(todo).client
         r == RoomOf[c]
     IN  /\ typists' = [typists EXCEPT ![r] = IF Head(todo).on THEN @ \cup {UserOf[c]}
                                                              ELSE @ \ {UserOf[c]}]
         /\ todo' = <<Push(Message(r, None, "typing", typists[r]))>> \o Tail(todo)
  /\ UNCHANGED <<status, conn, writer, send, closed, members, queues, timers,
                 cursors, view, counts>>

(* SetTyping or ClearTyping, then the room's typing users are read back and *)
(* broadcast.  A failed write is ignored, a failed read ends the handler.   *)
DoTyping ==
  /\ Doing("typing")
  /\ LET c == Head(todo).client
         r == RoomOf[c]
     IN  \E written, read \in Outcomes :
           /\ typists' =
                IF ~written THEN typists
                ELSE IF Head(todo).on THEN [typists EXCEPT ![r] = @ \cup {UserOf[c]}]
                ELSE [typists EXCEPT ![r] = @ \ {UserOf[c]}]
           /\ todo' = (IF read
                       THEN <<Push(Message(r, None, "typing", typists'[r]))>>
                       ELSE <<>>) \o Tail(todo)
  /\ UNCHANGED <<status, conn, writer, send, closed, members, queues, timers,
                 cursors, view, counts>>

(* Mutant of DoCursor: a position deleted on disconnect is not broadcast. *)
DoCursorSilently ==
  /\ Doing("cursor")
  /\ LET c == Head(todo).client
         r == RoomOf[c]
     IN  /\ cursors' = [cursors EXCEPT ![r][UserOf[c]] = Head(todo).point]
         /\ todo' = (IF Head(todo).point = None THEN <<>>
                     ELSE <<Push(Message(r, None, "cursor", cursors'[r]))>>)
                     \o Tail(todo)
  /\ UNCHANGED <<status, conn, writer, send, closed, members, queues, timers,
                 typists, view, counts>>

(* CursorHandler: the user's position in the room changes or is deleted, *)
(* and the room's positions are broadcast.                               *)
DoCursor ==
  /\ Doing("cursor")
  /\ LET c == Head(todo).client
         r == RoomOf[c]
     IN  /\ cursors' = [cursors EXCEPT ![r][UserOf[c]] = Head(todo).point]
         /\ todo' = <<Push(Message(r, None, "cursor", cursors'[r]))>>
                     \o Tail(todo)
  /\ UNCHANGED <<status, conn, writer, send, closed, members, queues, timers,
                 typists, view, counts>>

(* removeClient closes the channel whether or not it was closed before. *)
DoRemove ==
  /\ Doing("remove")
  /\ LET c == Head(todo).client
     IN  /\ members' = members \ {c}
         /\ closed' = closed \cup {c}
         /\ status' = IF c \in closed THEN "panic" ELSE status
  /\ todo' = Tail(todo)
  /\ UNCHANGED <<conn, writer, send, queues, timers, rooms, view, counts>>

-----------------------------------------------------------------------------
(* Everything else that reaches the hub. *)

(* handleOfflineSchedule after its delay: the user is online again or the  *)
(* check fails, or the goroutine waits to broadcast that they are offline. *)
TimerAbort(u) ==
  /\ Alive /\ timers[u] > 0
  /\ timers' = [timers EXCEPT ![u] = @ - 1]
  /\ UNCHANGED <<status, conn, writer, send, closed, members, queues, todo, rooms,
                 view, counts>>

TimerPush(u) ==
  /\ Alive /\ timers[u] > 0 /\ Len(broadcast) < BroadcastCap
  /\ timers' = [timers EXCEPT ![u] = @ - 1]
  /\ broadcast' = Append(broadcast, Event)
  /\ UNCHANGED <<status, conn, writer, send, closed, members, inbound, offline,
                 wire, todo, rooms, view, counts>>

(* Publisher.Publish to a user and PublishToRoom, here or in another process. *)
Publish(m) ==
  /\ Alive /\ news < MaxNews
  /\ news' = news + 1
  /\ \/ /\ Len(broadcast) < BroadcastCap
        /\ broadcast' = Append(broadcast, m) /\ UNCHANGED wire
     \/ wire' = Append(wire, m) /\ UNCHANGED broadcast
  /\ UNCHANGED <<status, conn, writer, send, closed, members, inbound, offline,
                 todo, timers, rooms, view, heard>>

(* The key's TTL passes: the room's typing users are forgotten, unannounced. *)
ExpireTyping(r) ==
  /\ Alive /\ "typing ttl" \in Faults /\ typists[r] # {}
  /\ typists' = [typists EXCEPT ![r] = {}]
  /\ UNCHANGED <<status, conn, writer, send, closed, members, queues, todo,
                 timers, cursors, view, counts>>

HubStep == \/ \E c \in Clients : (Register(c) \/ Unregister(c))
           \/ Answer \/ Ignore \/ Handle \/ CheckOffline
           \/ Fanout \/ FromRedis \/ StartTimer
           \/ DoPush \/ DoLater \/ DoGreet \/ DoTyping \/ DoCursor \/ DoRemove

Next ==
  \/ HubStep \/ Stop
  \/ \E c \in Clients : \/ ReadError(c) \/ Write(c)
                         \/ WriteError(c) \/ WriterDone(c)
                         \/ \E kind \in Kinds : Read(c, kind)
  \/ \E u \in Users : \/ TimerAbort(u) \/ TimerPush(u)
                       \/ Publish(News(news + 1, None, u))
  \/ \E r \in Rooms : Publish(News(news + 1, r, None)) \/ ExpireTyping(r)

Spec == Init /\ [][Next]_vars

(* The goroutines keep running; the select is fair among ready channels; what *)
(* the clients, the use cases and the network do is not assumed.              *)
Fairness == /\ WF_vars(HubStep)
            /\ \A c \in Clients : /\ SF_vars(Unregister(c))
                                  /\ WF_vars(Write(c)) /\ WF_vars(WriterDone(c))
FairSpec == Spec /\ Fairness

-----------------------------------------------------------------------------
(* Properties. *)

Registered(c) == conn[c] \in {"open", "leaving", "gone"}

TodoEntries ==
  [do: {"push"}, message: Messages] \cup [do: {"later"}, user: Users]
  \cup [do: {"greet", "remove"}, client: Clients]
  \cup [do: {"typing"}, client: Clients, on: BOOLEAN]
  \cup [do: {"cursor"}, client: Clients, point: Points \cup {None}]

ConnectionsOK ==
  /\ conn \in [Clients -> {"new", "open", "leaving", "gone"}]
  /\ writer \in [Clients -> {"none", "running", "ended"}]
  /\ send \in [Clients -> Seq(Messages)]
  /\ \A c \in Clients : Len(send[c]) <= SendCap
  /\ closed \subseteq Clients /\ members \subseteq Clients

QueuesOK ==
  /\ inbound \in Seq([client: Clients, kind: Kinds]) /\ Len(inbound) <= InboundCap
  /\ broadcast \in Seq(Messages) /\ Len(broadcast) <= BroadcastCap
  /\ offline \in Seq(Users) /\ Len(offline) <= OfflineCap
  /\ wire \in Seq(Messages)

RoomsOK ==
  /\ cursors \in [Rooms -> Positions]
  /\ typists \in [Rooms -> SUBSET Users]
  /\ view \in [Clients -> [cursor: Positions, typing: SUBSET Users]]

CountsOK ==
  /\ status \in {"running", "stopped", "panic"}
  /\ timers \in [Users -> Nat]
  /\ heard \in 0..MaxInbound /\ news \in 0..MaxNews

(* The type of the state, with the capacity of every channel. *)
TypeOK == /\ ConnectionsOK /\ QueuesOK /\ RoomsOK /\ CountsOK
          /\ todo \in Seq(TodoEntries)

(* A connection the hub delivers to is one that registered and whose send     *)
(* channel is open, and a registered connection it no longer delivers to has  *)
(* its channel closed: deliverLocally never sends on a closed channel, and no *)
(* writePump waits on a channel nobody will close.                            *)
MembersHaveOpenChannels ==
  \A c \in Clients : c \in members <=> Registered(c) /\ c \notin closed

(* Nothing is under way in the hub and everything published has come back. *)
Quiet == status = "running" /\ todo = <<>> /\ broadcast = <<>> /\ wire = <<>>
UpToDate(c) == Quiet /\ c \in members /\ RoomOf[c] # None /\ send[c] = <<>>

(* When the hub is quiet, a client of a room that has written out all it was  *)
(* sent shows the cursors the hub holds for the room: the snapshot a newcomer *)
(* gets, the broadcasts queued around it and the copies that return from      *)
(* Redis later and older than what was delivered do not leave it behind.      *)
CursorsConverge ==
  \A c \in Clients : UpToDate(c) => view[c].cursor = cursors[RoomOf[c]]

(* Likewise nobody is shown as typing who is not in the typing set. *)
TypingShownIsCurrent ==
  \A c \in Clients : UpToDate(c) => view[c].typing \subseteq typists[RoomOf[c]]

(* The hub goroutine waits on a channel only it receives from. *)
WaitsOnItself == \/ Doing("push") /\ Len(broadcast) = BroadcastCap
                 \/ Doing("later") /\ Len(offline) = OfflineCap
HubDown == status # "running" \/ WaitsOnItself

(* A connection that ends is let go of: its reader returns from unregister    *)
(* and its writer is told to end, unless the hub has gone down or has locked  *)
(* itself up.                                                                 *)
ConnectionReleased ==
  \A c \in Clients :
    conn[c] = "leaving" ~> (conn[c] = "gone" /\ writer[c] = "ended") \/ HubDown

(* "Run is the single event loop for the hub. One goroutine, no locks needed" *)
(* (hub.go): the loop never comes to wait for itself.                         *)
LoopNeverWaitsOnItself == ~WaitsOnItself

(* "buffer full - client is too slow, drop and unregister" (hub.go): dropping *)
(* a slow client costs that client its connection and nothing more.           *)
SlowClientOnlyDropped == status # "panic"

(* "cross-instance" / "same instance" (hub.go, Run): other processes get a    *)
(* broadcast through Redis and this one directly, so once each.               *)
DeliveredOnce ==
  \A c \in Clients : \A i, j \in DOMAIN send[c] :
    send[c][i] = send[c][j] /\ send[c][i].about = "news" /\ send[c][i].body > 0 => i = j

(* "Positions are stored per room per user. Cleared on disconnect." (cursor   *)
(* handler): a position belongs to a user still connected to the room.        *)
CursorsClearedOnDisconnect ==
  \A r \in Rooms, u \in Users :
    todo = <<>> /\ cursors[r][u] # None =>
      \E c \in Clients : UserOf[c] = u /\ RoomOf[c] = r /\ conn[c] \in {"open", "leaving"}

(* "auto-expire typing state if no update" (typing handler): what expires in  *)
(* the store is not left standing on the screens of the room.                 *)
ExpiredTypingIsTold == TypingShownIsCurrent
=============================================================================
