----------------------------- MODULE HubProofs -----------------------------
(***************************************************************************)
(* Proofs about Hub, for any clients, users, rooms, handlers, capacities   *)
(* and faults: the state keeps its type, channel capacities included, and  *)
(* the hub delivers exactly to the registered connections whose send       *)
(* channel is open.  The second is not inductive by itself: a removal the  *)
(* hub still has to do could concern a connection that never registered.   *)
(*                                                                         *)
(* The second half is about what the browsers of a room end up showing.    *)
(* Copies of one broadcast come by two ways, so the invariant follows the  *)
(* last word about a room's cursors, or about its typing users, from the   *)
(* event that changed them through broadcast, wire and the connections'    *)
(* buffers to the screen.                                                  *)
(***************************************************************************)
EXTENDS Hub, TLAPS

(* What may wait in todo: a removal is of a connection that has registered, *)
(* a change of typing users or cursors is of a connection in a room.        *)
Allowed == {e \in TodoEntries :
              /\ e.do = "remove" => Registered(e.client)
              /\ e.do \in {"typing", "cursor"} => RoomOf[e.client] \in Rooms}

(* A connection's channel is closed only after it registered. *)
DoorsInv ==
  /\ ConnectionsOK
  /\ MembersHaveOpenChannels
  /\ closed \subseteq {c \in Clients : Registered(c)}

HubInv == DoorsInv /\ QueuesOK /\ RoomsOK /\ CountsOK /\ todo \in Seq(Allowed)

-----------------------------------------------------------------------------
(* Sequences. *)

LEMMA Taken ==
  ASSUME NEW S, NEW q \in Seq(S), q # <<>>
  PROVE  Head(q) \in S /\ Tail(q) \in Seq(S) /\ Len(Tail(q)) = Len(q) - 1
OBVIOUS

LEMMA Added ==
  ASSUME NEW S, NEW q \in Seq(S), NEW e \in S
  PROVE  Append(q, e) \in Seq(S) /\ Len(Append(q, e)) = Len(q) + 1
OBVIOUS

LEMMA Element ==
  ASSUME NEW S, NEW q \in Seq(S), NEW i \in 1..Len(q)
  PROVE  q[i] \in S
OBVIOUS

LEMMA JoinedAt ==
  ASSUME NEW S, NEW a \in Seq(S), NEW b \in Seq(S)
  PROVE  /\ Len(a \o b) = Len(a) + Len(b)
         /\ \A i \in 1..Len(a \o b) :
              (a \o b)[i] = IF i <= Len(a) THEN a[i] ELSE b[i - Len(a)]
OBVIOUS

LEMMA Joined ==
  ASSUME NEW S, NEW p \in Seq(S), NEW q \in Seq(S)
  PROVE  p \o q \in Seq(S)
OBVIOUS

LEMMA Single == ASSUME NEW S, NEW e \in S PROVE <<e>> \in Seq(S) /\ <<>> \in Seq(S)
OBVIOUS

LEMMA Widened ==
  ASSUME NEW S, NEW T, S \subseteq T, NEW q \in Seq(S)
  PROVE  q \in Seq(T)
OBVIOUS

-----------------------------------------------------------------------------
(* Messages and entries of todo. *)

LEMMA NewsMessages ==
  ASSUME NEW n \in 0..MaxNews, NEW r \in Rooms \cup {None}, NEW u \in Users \cup {None}
  PROVE  News(n, r, u) \in Messages
BY DEF News, Message, Messages

LEMMA EventMessage == HubConstants => Event \in Messages
BY NewsMessages DEF Event, HubConstants

LEMMA RoomMessages ==
  ASSUME NEW r \in Rooms \cup {None}, NEW u \in Users \cup {None}
  PROVE  /\ \A typing \in SUBSET Users : Message(r, u, "typing", typing) \in Messages
         /\ \A shown \in Positions : Message(r, u, "cursor", shown) \in Messages
BY DEF Message, Messages

LEMMA AllowedEntries ==
  /\ \A m \in Messages : Push(m) \in Allowed
  /\ \A u \in Users : Later(u) \in Allowed
  /\ \A c \in Clients : Greet(c) \in Allowed
  /\ \A c \in Clients : RoomOf[c] \in Rooms =>
       /\ \A on \in BOOLEAN : Typing(c, on) \in Allowed
       /\ \A p \in Points \cup {None} : Cursor(c, p) \in Allowed
  /\ \A c \in Clients : Registered(c) => Remove(c) \in Allowed
BY DEF Allowed, TodoEntries, Push, Later, Greet, Typing, Cursor, Remove

(* What an entry holds, by what it does. *)
LEMMA EntryShape ==
  ASSUME NEW e \in Allowed
  PROVE  /\ e.do = "push" => e.message \in Messages
         /\ e.do = "later" => e.user \in Users
         /\ e.do \in {"greet", "typing", "cursor", "remove"} => e.client \in Clients
         /\ e.do = "typing" => e.on \in BOOLEAN
         /\ e.do = "cursor" => e.point \in Points \cup {None}
         /\ e.do = "remove" => Registered(e.client)
         /\ e.do \in {"typing", "cursor"} => RoomOf[e.client] \in Rooms
BY DEF Allowed, TodoEntries

LEMMA AllowedTyped == ASSUME NEW q \in Seq(Allowed) PROVE q \in Seq(TodoEntries)
BY Widened DEF Allowed

LEMMA InvTyped == HubInv => TypeOK
BY AllowedTyped DEF HubInv, DoorsInv, TypeOK

-----------------------------------------------------------------------------
(* What the pieces of an action do to the parts of the invariant. *)

(* A step that neither makes nor ends a connection nor closes a channel. *)
LEMMA DoorsKept ==
  ASSUME DoorsInv, UNCHANGED <<conn, closed, members>>,
         writer' \in [Clients -> {"none", "running", "ended"}],
         send' \in [Clients -> Seq(Messages)], \A c \in Clients : Len(send'[c]) <= SendCap
  PROVE  DoorsInv'
BY DEF DoorsInv, ConnectionsOK, MembersHaveOpenChannels, Registered

(* A connection never goes back to being new. *)
LEMMA DoorsMoved ==
  ASSUME DoorsInv, NEW c \in Clients, NEW s \in {"leaving", "gone"}, conn[c] # "new",
         conn' = [conn EXCEPT ![c] = s], UNCHANGED <<writer, send, closed, members>>
  PROVE  DoorsInv' /\ \A d \in Clients : Registered(d) => Registered(d)'
BY DEF DoorsInv, ConnectionsOK, MembersHaveOpenChannels, Registered

LEMMA WorkKept ==
  ASSUME todo \in Seq(Allowed), UNCHANGED todo,
         \A c \in Clients : Registered(c) => Registered(c)'
  PROVE  todo' \in Seq(Allowed')
<1>1. Allowed \subseteq Allowed'
  BY DEF Allowed, TodoEntries
<1> QED
  BY <1>1, Widened

LEMMA SameConn ==
  ASSUME UNCHANGED conn
  PROVE  Allowed' = Allowed
BY DEF Allowed, Registered, TodoEntries

(* The work left after the first entry, which is sound. *)
LEMMA FirstTaken ==
  ASSUME todo \in Seq(Allowed), NEW what, Doing(what)
  PROVE  Head(todo) \in Allowed /\ Head(todo).do = what /\ Tail(todo) \in Seq(Allowed)
BY Taken DEF Doing

(* A delivery closes the channels it takes members away for. *)
LEMMA Delivered ==
  ASSUME HubConstants, DoorsInv, NEW m \in Messages, DeliverLocally(m),
         UNCHANGED <<conn, writer>>
  PROVE  DoorsInv'
<1> DEFINE slow == {c \in Targets(m) : Len(send[c]) >= SendCap}
<1>1. Targets(m) \subseteq members /\ slow \subseteq members
  BY DEF Targets
<1>2. /\ send' = [c \in Clients |-> IF c \in Targets(m) \ slow THEN Append(send[c], m)
                                                               ELSE send[c]]
      /\ members' = members \ slow /\ closed' = closed \cup slow
  BY DEF DeliverLocally
<1>3. ASSUME NEW c \in Clients
      PROVE  send'[c] \in Seq(Messages) /\ Len(send'[c]) <= SendCap
  <2>1. send[c] \in Seq(Messages) /\ Len(send[c]) <= SendCap /\ SendCap \in Nat
    BY DEF DoorsInv, ConnectionsOK, HubConstants
  <2>2. /\ Append(send[c], m) \in Seq(Messages)
        /\ Len(Append(send[c], m)) = Len(send[c]) + 1 /\ Len(send[c]) \in Nat
    BY <2>1, Added
  <2>3. CASE c \in Targets(m) \ slow
    BY <1>2, <2>1, <2>2, <2>3
  <2>4. CASE c \notin Targets(m) \ slow
    BY <1>2, <2>1, <2>4
  <2> QED
    BY <2>3, <2>4
<1>4. ConnectionsOK'
  BY <1>1, <1>2, <1>3 DEF DoorsInv, ConnectionsOK
<1>5. \A c \in slow : c \in members
  BY <1>1
<1>6. MembersHaveOpenChannels' /\ closed' \subseteq {c \in Clients : Registered(c)'}
  <2> HIDE DEF slow
  <2> QED
    BY <1>2, <1>5 DEF DoorsInv, ConnectionsOK, MembersHaveOpenChannels, Registered
<1> QED
  BY <1>4, <1>6 DEF DoorsInv, Registered

(* Client.Send either panics or keeps the buffer within its capacity. *)
LEMMA Sent ==
  ASSUME HubConstants, DoorsInv, CountsOK, NEW c \in Clients, NEW m \in Messages,
         SendTo(c, m)
  PROVE  /\ send' \in [Clients -> Seq(Messages)]
         /\ \A d \in Clients : Len(send'[d]) <= SendCap
         /\ status' \in {"running", "stopped", "panic"}
<1>1. send[c] \in Seq(Messages) /\ Len(send[c]) <= SendCap /\ SendCap \in Nat
  BY DEF DoorsInv, ConnectionsOK, HubConstants
<1>2. /\ Append(send[c], m) \in Seq(Messages)
      /\ Len(Append(send[c], m)) = Len(send[c]) + 1 /\ Len(send[c]) \in Nat
  BY <1>1, Added
<1>3. CASE UNCHANGED send
  BY <1>3 DEF SendTo, DoorsInv, ConnectionsOK, CountsOK
<1>4. CASE /\ send' = [send EXCEPT ![c] = Append(@, m)]
           /\ Len(send[c]) < SendCap /\ UNCHANGED status
  BY <1>1, <1>2, <1>4 DEF DoorsInv, ConnectionsOK, CountsOK
<1> QED
  BY <1>3, <1>4 DEF SendTo

-----------------------------------------------------------------------------
(* The actions, one lemma each. *)

LEMMA InitHub == HubConstants /\ Init => HubInv
<1> SUFFICES ASSUME HubConstants, Init PROVE HubInv
  OBVIOUS
<1> USE DEF Init
<1>1. DoorsInv
  BY DEF DoorsInv, ConnectionsOK, MembersHaveOpenChannels, Registered, HubConstants
<1>2. QueuesOK
  BY DEF QueuesOK, HubConstants
<1>3. RoomsOK
  BY DEF RoomsOK, Positions, NoCursors, Blank
<1>4. CountsOK
  BY DEF CountsOK, HubConstants
<1> QED
  BY <1>1, <1>2, <1>3, <1>4 DEF HubInv

LEMMA ReadHub ==
  ASSUME HubConstants, HubInv, NEW c \in Clients, NEW kind \in Kinds, Read(c, kind)
  PROVE  HubInv'
<1> USE DEF HubInv, Read
<1>1. DoorsInv'
  BY DoorsKept DEF DoorsInv, ConnectionsOK
<1>2. QueuesOK'
  <2>1. [client |-> c, kind |-> kind] \in [client: Clients, kind: Kinds]
    OBVIOUS
  <2> QED
    BY <2>1, Added DEF QueuesOK, HubConstants
<1>3. RoomsOK' /\ CountsOK'
  BY DEF RoomsOK, CountsOK, HubConstants, rooms
<1>4. todo' \in Seq(Allowed')
  BY SameConn
<1> QED
  BY <1>1, <1>2, <1>3, <1>4

LEMMA ReadErrorHub ==
  ASSUME HubInv, NEW c \in Clients, ReadError(c)
  PROVE  HubInv'
<1> USE DEF HubInv, ReadError, queues, rooms, counts
<1>1. DoorsInv' /\ \A d \in Clients : Registered(d) => Registered(d)'
  BY DoorsMoved
<1>2. QueuesOK' /\ RoomsOK' /\ CountsOK'
  BY DEF QueuesOK, RoomsOK, CountsOK
<1>3. todo' \in Seq(Allowed')
  BY <1>1, WorkKept
<1> QED
  BY <1>1, <1>2, <1>3

(* What a browser shows after a message of the hub. *)
LEMMA ShownTyped ==
  ASSUME NEW v \in [cursor: Positions, typing: SUBSET Users], NEW m \in Messages
  PROVE  Shown(v, m) \in [cursor: Positions, typing: SUBSET Users]
<1>1. /\ m.about = "cursor" => m.body \in Positions
      /\ m.about = "typing" => m.body \in SUBSET Users
  BY DEF Messages
<1>2. CASE m.about = "cursor"
  <2>1. Shown(v, m) = [v EXCEPT !.cursor = m.body]
    BY <1>2 DEF Shown
  <2> QED
    BY <1>1, <1>2, <2>1
<1>3. CASE m.about = "typing"
  <2>1. Shown(v, m) = [v EXCEPT !.typing = m.body]
    BY <1>3 DEF Shown
  <2> QED
    BY <1>1, <1>3, <2>1
<1>4. CASE m.about \notin {"cursor", "typing"}
  BY <1>4 DEF Shown
<1> QED
  BY <1>2, <1>3, <1>4

LEMMA WriteHub ==
  ASSUME HubConstants, HubInv, NEW c \in Clients, Write(c)
  PROVE  HubInv'
<1> USE DEF HubInv, Write, queues, rooms, counts
<1>1. send[c] \in Seq(Messages) /\ Len(send[c]) <= SendCap /\ Len(send[c]) \in Nat
  BY DEF DoorsInv, ConnectionsOK
<1>2. /\ Head(send[c]) \in Messages /\ Tail(send[c]) \in Seq(Messages)
      /\ Len(Tail(send[c])) = Len(send[c]) - 1
  BY <1>1, Taken
<1>3. DoorsInv'
  <2>1. send' \in [Clients -> Seq(Messages)] /\ \A d \in Clients : Len(send'[d]) <= SendCap
    BY <1>1, <1>2 DEF DoorsInv, ConnectionsOK, HubConstants
  <2> QED
    BY <2>1, DoorsKept DEF DoorsInv, ConnectionsOK
<1>4. RoomsOK'
  <2>1. view[c] \in [cursor: Positions, typing: SUBSET Users]
    BY DEF RoomsOK
  <2>2. Shown(view[c], Head(send[c])) \in [cursor: Positions, typing: SUBSET Users]
    BY <1>2, <2>1, ShownTyped
  <2> QED
    BY <2>2 DEF RoomsOK
<1>5. QueuesOK' /\ CountsOK'
  BY DEF QueuesOK, CountsOK
<1>6. todo' \in Seq(Allowed')
  BY SameConn
<1> QED
  BY <1>3, <1>4, <1>5, <1>6

LEMMA WriterEndsHub ==
  ASSUME HubInv, NEW c \in Clients, WriterEnds(c)
  PROVE  HubInv'
<1> USE DEF HubInv, WriterEnds, queues, rooms, counts
<1>1. DoorsInv'
  BY DoorsKept DEF DoorsInv, ConnectionsOK
<1>2. QueuesOK' /\ RoomsOK' /\ CountsOK'
  BY DEF QueuesOK, RoomsOK, CountsOK
<1>3. todo' \in Seq(Allowed')
  BY SameConn
<1> QED
  BY <1>1, <1>2, <1>3

LEMMA RegisterHub ==
  ASSUME HubConstants, HubInv, NEW c \in Clients, Register(c)
  PROVE  HubInv'
<1> USE DEF HubInv, Register, queues, rooms, counts
<1>1. DoorsInv'
  BY DEF DoorsInv, ConnectionsOK, MembersHaveOpenChannels, Registered
<1>2. QueuesOK' /\ RoomsOK' /\ CountsOK'
  BY DEF QueuesOK, RoomsOK, CountsOK
<1>3. todo' \in Seq(Allowed)
  <2>1. Push(Event) \in Allowed /\ Greet(c) \in Allowed
    BY EventMessage, AllowedEntries
  <2>2. /\ <<Push(Event)>> \in Seq(Allowed) /\ <<Greet(c)>> \in Seq(Allowed)
        /\ <<>> \in Seq(Allowed)
    BY <2>1, Single
  <2>3. PICK counted \in BOOLEAN :
          todo' = With("presence", IF counted THEN <<Push(Event)>> ELSE <<>>)
                  \o With("cursor", <<Greet(c)>>)
    BY DEF Outcomes
  <2>4. /\ With("presence", IF counted THEN <<Push(Event)>> ELSE <<>>) \in Seq(Allowed)
        /\ With("cursor", <<Greet(c)>>) \in Seq(Allowed)
    BY <2>2 DEF With
  <2> QED
    BY <2>3, <2>4, Joined
<1>4. todo' \in Seq(Allowed')
  <2>1. \A d \in Clients : Registered(d) => Registered(d)'
    BY DEF Registered, DoorsInv, ConnectionsOK
  <2>2. Allowed \subseteq Allowed'
    BY <2>1 DEF Allowed, TodoEntries
  <2> QED
    BY <1>3, <2>2, Widened
<1> QED
  BY <1>1, <1>2, <1>4

LEMMA UnregisterHub ==
  ASSUME HubConstants, HubInv, NEW c \in Clients, Unregister(c)
  PROVE  HubInv'
<1> USE DEF HubInv, Unregister, queues, rooms, counts
<1>1. DoorsInv' /\ \A d \in Clients : Registered(d) => Registered(d)'
  BY DoorsMoved
<1>2. QueuesOK' /\ RoomsOK' /\ CountsOK'
  BY DEF QueuesOK, RoomsOK, CountsOK
<1>3. todo' \in Seq(Allowed)
  <2>1. Registered(c) /\ UserOf[c] \in Users
    BY DEF Registered, HubConstants
  <2>2. /\ Later(UserOf[c]) \in Allowed /\ Remove(c) \in Allowed
        /\ RoomOf[c] # None => Typing(c, FALSE) \in Allowed /\ Cursor(c, None) \in Allowed
    BY <2>1, AllowedEntries DEF HubConstants
  <2>3. /\ <<Later(UserOf[c])>> \in Seq(Allowed) /\ <<Remove(c)>> \in Seq(Allowed)
        /\ RoomOf[c] # None => /\ <<Typing(c, FALSE)>> \in Seq(Allowed)
                               /\ <<Cursor(c, None)>> \in Seq(Allowed)
        /\ <<>> \in Seq(Allowed)
    BY <2>2, Single
  <2>4. PICK last \in BOOLEAN :
          todo' = With("presence", IF last THEN <<Later(UserOf[c])>> ELSE <<>>)
                  \o With("typing", IF RoomOf[c] = None THEN <<>> ELSE <<Typing(c, FALSE)>>)
                  \o With("cursor", IF RoomOf[c] = None THEN <<>> ELSE <<Cursor(c, None)>>)
                  \o <<Remove(c)>>
    OBVIOUS
  <2> DEFINE p1 == With("presence", IF last THEN <<Later(UserOf[c])>> ELSE <<>>)
             p2 == With("typing", IF RoomOf[c] = None THEN <<>> ELSE <<Typing(c, FALSE)>>)
             p3 == With("cursor", IF RoomOf[c] = None THEN <<>> ELSE <<Cursor(c, None)>>)
  <2>5. p1 \in Seq(Allowed) /\ p2 \in Seq(Allowed) /\ p3 \in Seq(Allowed)
    BY <2>3 DEF With
  <2>6. todo' = p1 \o p2 \o p3 \o <<Remove(c)>>
    BY <2>4
  <2> HIDE DEF p1, p2, p3
  <2>7. p1 \o p2 \in Seq(Allowed)
    BY <2>5, Joined
  <2>8. p1 \o p2 \o p3 \in Seq(Allowed)
    BY <2>5, <2>7, Joined
  <2> QED
    BY <2>3, <2>6, <2>8, Joined
<1>4. todo' \in Seq(Allowed')
  <2>1. Allowed \subseteq Allowed'
    BY <1>1 DEF Allowed, TodoEntries
  <2> QED
    BY <1>3, <2>1, Widened
<1> QED
  BY <1>1, <1>2, <1>4

(* The hub takes an inbound message. *)
LEMMA TakeQueues ==
  ASSUME HubConstants, QueuesOK, Take, UNCHANGED <<broadcast, offline, wire>>
  PROVE  QueuesOK' /\ Sender \in Clients
<1> DEFINE Inbounds == [client: Clients, kind: Kinds]
<1>1. /\ inbound \in Seq(Inbounds) /\ Len(inbound) <= InboundCap /\ Len(inbound) \in Nat
      /\ inbound # <<>> /\ inbound' = Tail(inbound) /\ InboundCap \in Nat
  BY DEF QueuesOK, Take, HubConstants
<1>2. Sender \in Clients
  <2>1. Head(inbound) \in Inbounds
    BY <1>1, Taken
  <2> QED
    BY <2>1 DEF Sender
<1>3. inbound' \in Seq(Inbounds) /\ Len(inbound') <= InboundCap
  <2> HIDE DEF Inbounds
  <2>1. Tail(inbound) \in Seq(Inbounds) /\ Len(Tail(inbound)) = Len(inbound) - 1
    BY <1>1, Taken
  <2> QED
    BY <1>1, <2>1
<1> QED
  BY <1>2, <1>3 DEF QueuesOK

LEMMA AnswerHub ==
  ASSUME HubConstants, HubInv, Answer
  PROVE  HubInv'
<1> USE DEF HubInv, Answer, rooms, counts
<1>1. QueuesOK' /\ Sender \in Clients
  BY TakeQueues
<1>2. News(0, None, UserOf[Sender]) \in Messages
  BY <1>1, NewsMessages DEF HubConstants
<1>3. /\ send' \in [Clients -> Seq(Messages)]
      /\ \A d \in Clients : Len(send'[d]) <= SendCap
      /\ status' \in {"running", "stopped", "panic"}
  BY <1>1, <1>2, Sent
<1>4. DoorsInv'
  BY <1>3, DoorsKept DEF DoorsInv, ConnectionsOK
<1>5. RoomsOK' /\ CountsOK'
  BY <1>3 DEF RoomsOK, CountsOK
<1>6. todo' \in Seq(Allowed')
  BY SameConn
<1> QED
  BY <1>1, <1>4, <1>5, <1>6

LEMMA IgnoreHub ==
  ASSUME HubConstants, HubInv, Ignore
  PROVE  HubInv'
<1> USE DEF HubInv, Ignore, rooms, counts
<1>1. QueuesOK'
  BY TakeQueues
<1>2. DoorsInv'
  BY DoorsKept DEF DoorsInv, ConnectionsOK
<1>3. RoomsOK' /\ CountsOK'
  BY DEF RoomsOK, CountsOK
<1>4. todo' \in Seq(Allowed')
  BY SameConn
<1> QED
  BY <1>1, <1>2, <1>3, <1>4

LEMMA HandleHub ==
  ASSUME HubConstants, HubInv, Handle
  PROVE  HubInv'
<1> USE DEF HubInv, Handle, rooms, counts
<1>1. QueuesOK' /\ Sender \in Clients
  BY TakeQueues
<1>2. DoorsInv'
  BY DoorsKept DEF DoorsInv, ConnectionsOK
<1>3. RoomsOK' /\ CountsOK'
  BY DEF RoomsOK, CountsOK
<1>4. todo' \in Seq(Allowed)
  <2>0. RoomOf[Sender] \in Rooms
    BY <1>1 DEF InRoom, HubConstants
  <2>1. CASE todo' = <<Typing(Sender, Kind = "typing.start")>>
    <3>1. Typing(Sender, Kind = "typing.start") \in Allowed
      BY <1>1, <2>0, AllowedEntries
    <3> QED
      BY <2>1, <3>1, Single
  <2>2. ASSUME NEW p \in Points, todo' = <<Cursor(Sender, p)>>
        PROVE  todo' \in Seq(Allowed)
    <3>1. Cursor(Sender, p) \in Allowed
      BY <1>1, <2>0, AllowedEntries
    <3> QED
      BY <2>2, <3>1, Single
  <2> QED
    BY <2>1, <2>2
<1>5. todo' \in Seq(Allowed')
  BY <1>4, SameConn
<1> QED
  BY <1>1, <1>2, <1>3, <1>5

(* A check asked for by a client pushes at most one event. *)
LEMMA CheckOfflineHub ==
  ASSUME HubConstants, HubInv, CheckOffline
  PROVE  HubInv'
<1> USE DEF HubInv, CheckOffline, rooms, counts
<1>1. QueuesOK' /\ Sender \in Clients
  BY TakeQueues
<1>2. DoorsInv'
  BY DoorsKept DEF DoorsInv, ConnectionsOK
<1>3. RoomsOK' /\ CountsOK'
  BY DEF RoomsOK, CountsOK
<1>4. todo' \in Seq(Allowed)
  <2>1. Push(Event) \in Allowed
    BY EventMessage, AllowedEntries
  <2> QED
    BY <2>1, Single
<1>5. todo' \in Seq(Allowed')
  BY <1>4, SameConn
<1> QED
  BY <1>1, <1>2, <1>3, <1>5

(* A message moved from a channel of the hub to its clients. *)
LEMMA FanoutHub ==
  ASSUME HubConstants, HubInv, Fanout
  PROVE  HubInv'
<1> USE DEF HubInv, Fanout, rooms, counts
<1>1. /\ broadcast \in Seq(Messages) /\ broadcast # <<>> /\ Len(broadcast) <= BroadcastCap
      /\ Len(broadcast) \in Nat /\ BroadcastCap \in Nat /\ wire \in Seq(Messages)
  BY DEF QueuesOK, HubConstants
<1>2. /\ Head(broadcast) \in Messages /\ Tail(broadcast) \in Seq(Messages)
      /\ Len(Tail(broadcast)) = Len(broadcast) - 1
  BY <1>1, Taken
<1>3. wire' \in Seq(Messages)
  <2>1. Append(wire, Head(broadcast)) \in Seq(Messages)
    BY <1>1, <1>2, Added
  <2> QED
    BY <1>1, <2>1
<1>4. QueuesOK'
  BY <1>1, <1>2, <1>3 DEF QueuesOK
<1>5. DoorsInv'
  BY <1>2, Delivered
<1>6. RoomsOK' /\ CountsOK'
  BY DEF RoomsOK, CountsOK
<1>7. todo' \in Seq(Allowed')
  BY SameConn
<1> QED
  BY <1>4, <1>5, <1>6, <1>7

LEMMA FromRedisHub ==
  ASSUME HubConstants, HubInv, FromRedis
  PROVE  HubInv'
<1> USE DEF HubInv, FromRedis, rooms, counts
<1>1. Head(wire) \in Messages /\ Tail(wire) \in Seq(Messages)
  BY Taken DEF QueuesOK
<1>2. QueuesOK'
  BY <1>1 DEF QueuesOK
<1>3. DoorsInv'
  BY <1>1, Delivered
<1>4. RoomsOK' /\ CountsOK'
  BY DEF RoomsOK, CountsOK
<1>5. todo' \in Seq(Allowed')
  BY SameConn
<1> QED
  BY <1>2, <1>3, <1>4, <1>5

LEMMA StartTimerHub ==
  ASSUME HubConstants, HubInv, StartTimer
  PROVE  HubInv'
<1> USE DEF HubInv, StartTimer, rooms, counts
<1>1. /\ offline \in Seq(Users) /\ offline # <<>> /\ Len(offline) <= OfflineCap
      /\ Len(offline) \in Nat /\ OfflineCap \in Nat
  BY DEF QueuesOK, HubConstants
<1>2. /\ Head(offline) \in Users /\ Tail(offline) \in Seq(Users)
      /\ Len(Tail(offline)) = Len(offline) - 1
  BY <1>1, Taken
<1>3. QueuesOK'
  BY <1>1, <1>2 DEF QueuesOK
<1>4. CountsOK'
  BY <1>2 DEF CountsOK
<1>5. RoomsOK'
  BY DEF RoomsOK
<1>6. DoorsInv'
  BY DoorsKept DEF DoorsInv, ConnectionsOK
<1>7. todo' \in Seq(Allowed')
  BY SameConn
<1> QED
  BY <1>3, <1>4, <1>5, <1>6, <1>7

LEMMA StopHub ==
  ASSUME HubConstants, HubInv, Stop
  PROVE  HubInv'
<1> USE DEF HubInv, Stop, queues, rooms, counts
<1>1. DoorsInv'
  BY DoorsKept DEF DoorsInv, ConnectionsOK
<1>2. QueuesOK' /\ RoomsOK' /\ CountsOK'
  BY DEF QueuesOK, RoomsOK, CountsOK
<1>3. todo' \in Seq(Allowed')
  BY SameConn
<1> QED
  BY <1>1, <1>2, <1>3

(* The hub's channels after one more message of the hub's own. *)
LEMMA Broadcasts ==
  ASSUME HubConstants, QueuesOK, NEW m \in Messages, Len(broadcast) < BroadcastCap,
         broadcast' = Append(broadcast, m), UNCHANGED <<inbound, offline, wire>>
  PROVE  QueuesOK'
<1>1. /\ broadcast \in Seq(Messages) /\ Len(broadcast) \in Nat /\ BroadcastCap \in Nat
  BY DEF QueuesOK, HubConstants
<1>2. Append(broadcast, m) \in Seq(Messages) /\ Len(Append(broadcast, m)) = Len(broadcast) + 1
  BY <1>1, Added
<1> QED
  BY <1>1, <1>2 DEF QueuesOK

LEMMA DoPushHub ==
  ASSUME HubConstants, HubInv, DoPush
  PROVE  HubInv'
<1> USE DEF HubInv, DoPush, rooms, counts
<1>1. Head(todo).message \in Messages /\ Tail(todo) \in Seq(Allowed)
  BY FirstTaken, EntryShape
<1>2. QueuesOK'
  BY <1>1, Broadcasts
<1>3. DoorsInv'
  BY DoorsKept DEF DoorsInv, ConnectionsOK
<1>4. RoomsOK' /\ CountsOK'
  BY DEF RoomsOK, CountsOK
<1>5. todo' \in Seq(Allowed')
  BY <1>1, SameConn
<1> QED
  BY <1>2, <1>3, <1>4, <1>5

LEMMA DoLaterHub ==
  ASSUME HubConstants, HubInv, DoLater
  PROVE  HubInv'
<1> USE DEF HubInv, DoLater, rooms, counts
<1>1. Head(todo).user \in Users /\ Tail(todo) \in Seq(Allowed)
  BY FirstTaken, EntryShape
<1>2. QueuesOK'
  <2>1. offline \in Seq(Users) /\ Len(offline) \in Nat /\ OfflineCap \in Nat
    BY DEF QueuesOK, HubConstants
  <2>2. /\ Append(offline, Head(todo).user) \in Seq(Users)
        /\ Len(Append(offline, Head(todo).user)) = Len(offline) + 1
    BY <1>1, <2>1, Added
  <2> QED
    BY <2>1, <2>2 DEF QueuesOK
<1>3. DoorsInv'
  BY DoorsKept DEF DoorsInv, ConnectionsOK
<1>4. RoomsOK' /\ CountsOK'
  BY DEF RoomsOK, CountsOK
<1>5. todo' \in Seq(Allowed')
  BY <1>1, SameConn
<1> QED
  BY <1>2, <1>3, <1>4, <1>5

LEMMA DoGreetHub ==
  ASSUME HubConstants, HubInv, DoGreet
  PROVE  HubInv'
<1> USE DEF HubInv, rooms, counts, queues
<1> DEFINE c == Head(todo).client
           m == Message(RoomOf[c], UserOf[c], "cursor", cursors[RoomOf[c]])
<1>1. c \in Clients /\ Tail(todo) \in Seq(Allowed) /\ todo' = Tail(todo)
  BY FirstTaken, EntryShape DEF DoGreet
<1>2. UNCHANGED <<conn, writer, closed, members, queues, timers, rooms, view, counts>>
  BY DEF DoGreet
<1>3. /\ send' \in [Clients -> Seq(Messages)]
      /\ \A d \in Clients : Len(send'[d]) <= SendCap
      /\ status' \in {"running", "stopped", "panic"}
  <2>1. CASE UNCHANGED <<status, send>>
    BY <2>1 DEF DoorsInv, ConnectionsOK, CountsOK
  <2>2. CASE RoomOf[c] # None /\ SendTo(c, m)
    <3>1. m \in Messages
      <4>1. RoomOf[c] \in Rooms /\ UserOf[c] \in Users /\ cursors[RoomOf[c]] \in Positions
        BY <1>1, <2>2 DEF HubConstants, RoomsOK
      <4> QED
        BY <4>1, RoomMessages
    <3> HIDE DEF c, m
    <3> QED
      BY <1>1, <2>2, <3>1, Sent
  <2> QED
    BY <2>1, <2>2 DEF DoGreet
<1>4. DoorsInv'
  BY <1>2, <1>3, DoorsKept DEF DoorsInv, ConnectionsOK
<1>5. QueuesOK' /\ RoomsOK' /\ CountsOK'
  BY <1>2, <1>3 DEF QueuesOK, RoomsOK, CountsOK
<1>6. todo' \in Seq(Allowed')
  BY <1>1, <1>2, SameConn
<1> QED
  BY <1>4, <1>5, <1>6

LEMMA DoTypingHub ==
  ASSUME HubConstants, HubInv, DoTyping
  PROVE  HubInv'
<1> USE DEF HubInv, queues, rooms, counts
<1> DEFINE c == Head(todo).client
           r == RoomOf[c]
<1>1. c \in Clients /\ Tail(todo) \in Seq(Allowed) /\ UserOf[c] \in Users /\ r \in Rooms
  BY FirstTaken, EntryShape DEF DoTyping, HubConstants
<1>2. UNCHANGED <<status, conn, writer, send, closed, members, queues, timers, cursors,
                  view, counts>>
  BY DEF DoTyping
<1>3. PICK written \in BOOLEAN, read \in BOOLEAN :
        /\ typists' = IF ~written THEN typists
                      ELSE IF Head(todo).on THEN [typists EXCEPT ![r] = @ \cup {UserOf[c]}]
                      ELSE [typists EXCEPT ![r] = @ \ {UserOf[c]}]
        /\ todo' = (IF read THEN <<Push(Message(r, None, "typing", typists'[r]))>>
                            ELSE <<>>) \o Tail(todo)
  BY DEF DoTyping, Outcomes
<1>4. typists' \in [Rooms -> SUBSET Users]
  BY <1>1, <1>3 DEF RoomsOK
<1>5. todo' \in Seq(Allowed)
  <2>1. Push(Message(r, None, "typing", typists'[r])) \in Allowed
    BY <1>1, <1>4, RoomMessages, AllowedEntries
  <2>2. (IF read THEN <<Push(Message(r, None, "typing", typists'[r]))>> ELSE <<>>)
          \in Seq(Allowed)
    BY <2>1, Single
  <2> QED
    BY <1>1, <1>3, <2>2, Joined
<1>6. DoorsInv'
  BY <1>2, DoorsKept DEF DoorsInv, ConnectionsOK
<1>7. QueuesOK' /\ RoomsOK' /\ CountsOK'
  BY <1>2, <1>4 DEF QueuesOK, RoomsOK, CountsOK
<1>8. todo' \in Seq(Allowed')
  BY <1>2, <1>5, SameConn
<1> QED
  BY <1>6, <1>7, <1>8

LEMMA DoCursorHub ==
  ASSUME HubConstants, HubInv, DoCursor
  PROVE  HubInv'
<1> USE DEF HubInv, queues, rooms, counts
<1> DEFINE c == Head(todo).client
           r == RoomOf[c]
           point == Head(todo).point
<1>1. /\ c \in Clients /\ Tail(todo) \in Seq(Allowed) /\ UserOf[c] \in Users /\ r \in Rooms
      /\ point \in Points \cup {None}
  BY FirstTaken, EntryShape DEF DoCursor, HubConstants
<1>2. UNCHANGED <<status, conn, writer, send, closed, members, queues, timers, typists,
                  view, counts>>
  BY DEF DoCursor
<1>3. /\ cursors' = [cursors EXCEPT ![r] = [@ EXCEPT ![UserOf[c]] = point]]
      /\ todo' = <<Push(Message(r, None, "cursor", cursors'[r]))>> \o Tail(todo)
  BY DEF DoCursor
<1>4. cursors' \in [Rooms -> Positions]
  <2> HIDE DEF r, c, point
  <2>1. cursors \in [Rooms -> Positions] /\ cursors[r] \in Positions
    BY <1>1 DEF RoomsOK
  <2>2. [cursors[r] EXCEPT ![UserOf[c]] = point] \in Positions
    BY <1>1, <2>1 DEF Positions
  <2> QED
    BY <1>1, <1>3, <2>1, <2>2
<1>5. todo' \in Seq(Allowed)
  <2>1. Push(Message(r, None, "cursor", cursors'[r])) \in Allowed
    BY <1>1, <1>4, RoomMessages, AllowedEntries
  <2>2. <<Push(Message(r, None, "cursor", cursors'[r]))>> \in Seq(Allowed)
    BY <2>1, Single
  <2> QED
    BY <1>1, <1>3, <2>2, Joined
<1>6. DoorsInv'
  BY <1>2, DoorsKept DEF DoorsInv, ConnectionsOK
<1>7. QueuesOK' /\ RoomsOK' /\ CountsOK'
  BY <1>2, <1>4 DEF QueuesOK, RoomsOK, CountsOK
<1>8. todo' \in Seq(Allowed')
  BY <1>2, <1>5, SameConn
<1> QED
  BY <1>6, <1>7, <1>8

(* removeClient of a registered connection, for the first time or again. *)
LEMMA DoRemoveHub ==
  ASSUME HubConstants, HubInv, DoRemove
  PROVE  HubInv'
<1> USE DEF HubInv, queues, rooms, counts
<1> DEFINE c == Head(todo).client
<1>1. c \in Clients /\ Registered(c) /\ Tail(todo) \in Seq(Allowed)
  BY FirstTaken, EntryShape DEF DoRemove
<1>2. /\ members' = members \ {c} /\ closed' = closed \cup {c} /\ todo' = Tail(todo)
      /\ status' \in {"panic", status}
      /\ UNCHANGED <<conn, writer, send, queues, timers, rooms, view, counts>>
  BY DEF DoRemove
<1>3. DoorsInv'
  <2> HIDE DEF c
  <2> QED
    BY <1>1, <1>2 DEF DoorsInv, ConnectionsOK, MembersHaveOpenChannels, Registered
<1>4. QueuesOK' /\ RoomsOK' /\ CountsOK'
  BY <1>2 DEF QueuesOK, RoomsOK, CountsOK
<1>5. todo' \in Seq(Allowed')
  BY <1>1, <1>2, SameConn
<1> QED
  BY <1>3, <1>4, <1>5

LEMMA TimerAbortHub ==
  ASSUME HubConstants, HubInv, NEW u \in Users, TimerAbort(u)
  PROVE  HubInv'
<1> USE DEF HubInv, TimerAbort, queues, rooms, counts
<1>1. DoorsInv'
  BY DoorsKept DEF DoorsInv, ConnectionsOK
<1>2. QueuesOK'
  BY DEF QueuesOK
<1>3. RoomsOK' /\ CountsOK'
  BY DEF RoomsOK, CountsOK
<1>4. todo' \in Seq(Allowed')
  BY SameConn
<1> QED
  BY <1>1, <1>2, <1>3, <1>4

LEMMA TimerPushHub ==
  ASSUME HubConstants, HubInv, NEW u \in Users, TimerPush(u)
  PROVE  HubInv'
<1> USE DEF HubInv, TimerPush, rooms, counts
<1>1. DoorsInv'
  BY DoorsKept DEF DoorsInv, ConnectionsOK
<1>2. QueuesOK'
  BY EventMessage, Broadcasts
<1>3. RoomsOK' /\ CountsOK'
  BY DEF RoomsOK, CountsOK
<1>4. todo' \in Seq(Allowed')
  BY SameConn
<1> QED
  BY <1>1, <1>2, <1>3, <1>4

LEMMA PublishHub ==
  ASSUME HubConstants, HubInv, NEW m \in Messages, Publish(m)
  PROVE  HubInv'
<1> USE DEF HubInv, Publish, rooms, counts
<1>1. DoorsInv'
  BY DoorsKept DEF DoorsInv, ConnectionsOK
<1>2. QueuesOK'
  <2>1. CASE Len(broadcast) < BroadcastCap /\ broadcast' = Append(broadcast, m) /\ wire' = wire
    BY <2>1, Broadcasts
  <2>2. CASE wire' = Append(wire, m) /\ broadcast' = broadcast
    <3>1. Append(wire, m) \in Seq(Messages)
      BY Added DEF QueuesOK
    <3> QED
      BY <2>2, <3>1 DEF QueuesOK
  <2> QED
    BY <2>1, <2>2
<1>3. RoomsOK' /\ CountsOK'
  BY DEF RoomsOK, CountsOK, HubConstants
<1>4. todo' \in Seq(Allowed')
  BY SameConn
<1> QED
  BY <1>1, <1>2, <1>3, <1>4

LEMMA ExpireTypingHub ==
  ASSUME HubConstants, HubInv, NEW r \in Rooms, ExpireTyping(r)
  PROVE  HubInv'
<1> USE DEF HubInv, ExpireTyping, queues, rooms, counts
<1>1. DoorsInv'
  BY DoorsKept DEF DoorsInv, ConnectionsOK
<1>2. QueuesOK' /\ RoomsOK' /\ CountsOK'
  BY DEF QueuesOK, RoomsOK, CountsOK
<1>3. todo' \in Seq(Allowed')
  BY SameConn
<1> QED
  BY <1>1, <1>2, <1>3

-----------------------------------------------------------------------------

LEMMA NextHub == HubConstants /\ HubInv /\ [Next]_vars => HubInv'
<1> SUFFICES ASSUME HubConstants, HubInv, [Next]_vars PROVE HubInv'
  OBVIOUS
<1>1. CASE UNCHANGED vars
  <2> USE <1>1 DEF vars, queues, rooms, counts, HubInv
  <2>1. DoorsInv'
    BY DoorsKept DEF DoorsInv, ConnectionsOK
  <2>2. QueuesOK' /\ RoomsOK' /\ CountsOK'
    BY DEF QueuesOK, RoomsOK, CountsOK
  <2>3. todo' \in Seq(Allowed')
    BY SameConn
  <2> QED
    BY <2>1, <2>2, <2>3
<1>2. CASE HubStep
  <2>1. ASSUME NEW c \in Clients, Register(c) \/ Unregister(c) PROVE HubInv'
    BY <2>1, RegisterHub, UnregisterHub
  <2>2. CASE Answer \/ Ignore \/ Handle \/ CheckOffline \/ Fanout \/ FromRedis \/ StartTimer
    BY <2>2, AnswerHub, IgnoreHub, HandleHub, CheckOfflineHub, FanoutHub, FromRedisHub,
       StartTimerHub
  <2>3. CASE DoPush \/ DoLater \/ DoGreet \/ DoTyping \/ DoCursor \/ DoRemove
    BY <2>3, DoPushHub, DoLaterHub, DoGreetHub, DoTypingHub, DoCursorHub, DoRemoveHub
  <2> QED
    BY <1>2, <2>1, <2>2, <2>3 DEF HubStep
<1>3. CASE Stop
  BY <1>3, StopHub
<1>4. ASSUME NEW c \in Clients,
             \/ ReadError(c) \/ Write(c) \/ WriteError(c) \/ WriterDone(c)
             \/ \E kind \in Kinds : Read(c, kind)
      PROVE  HubInv'
  <2>1. CASE WriteError(c) \/ WriterDone(c)
    BY <2>1, WriterEndsHub DEF WriteError, WriterDone
  <2> QED
    BY <1>4, <2>1, ReadErrorHub, WriteHub, ReadHub
<1>5. news < MaxNews => news + 1 \in 0..MaxNews
  BY DEF HubInv, CountsOK, HubConstants
<1>6. ASSUME NEW u \in Users,
             TimerAbort(u) \/ TimerPush(u) \/ Publish(News(news + 1, None, u))
      PROVE  HubInv'
  <2>1. CASE Publish(News(news + 1, None, u))
    <3>1. News(news + 1, None, u) \in Messages
      BY <1>5, <2>1, NewsMessages DEF Publish
    <3> QED
      BY <2>1, <3>1, PublishHub
  <2> QED
    BY <1>6, <2>1, TimerAbortHub, TimerPushHub
<1>7. ASSUME NEW r \in Rooms, Publish(News(news + 1, r, None)) \/ ExpireTyping(r)
      PROVE  HubInv'
  <2>1. CASE Publish(News(news + 1, r, None))
    <3>1. News(news + 1, r, None) \in Messages
      BY <1>5, <2>1, NewsMessages DEF Publish
    <3> QED
      BY <2>1, <3>1, PublishHub
  <2> QED
    BY <1>7, <2>1, ExpireTypingHub
<1> QED
  BY <1>1, <1>2, <1>3, <1>4, <1>6, <1>7 DEF Next

(* The invariant holds in every behaviour of the hub. *)
THEOREM HubSound == Spec => []HubInv
<1>1. Init => HubInv
  BY HubConstants, InitHub
<1>2. HubInv /\ [Next]_vars => HubInv'
  BY HubConstants, NextHub
<1> QED
  BY <1>1, <1>2, PTL DEF Spec

(* Every variable keeps its type and no channel of the hub or of a connection *)
(* ever holds more than its capacity, whichever goroutine waits on it.        *)
THEOREM HubTyped == Spec => []TypeOK
BY HubSound, InvTyped, PTL

(* The hub delivers exactly to the registered connections whose send channel  *)
(* is open: deliverLocally never sends on a closed channel, however removals, *)
(* slow clients and disconnects interleave.                                   *)
THEOREM MembersAreOpen == Spec => []MembersHaveOpenChannels
<1>1. HubInv => MembersHaveOpenChannels
  BY DEF HubInv, DoorsInv
<1> QED
  BY <1>1, HubSound, PTL

-----------------------------------------------------------------------------
(* What a room is told: cursors and typing users *)

(* The two parts of a room that its browsers show. *)
Topics == {"cursor", "typing"}

About(m, a, r)  == m.about = a /\ m.room = r
Silent(q, a, r) == \A i \in 1..Len(q) : ~About(q[i], a, r)

(* The last word of q about a topic of a room is one of S. *)
LastIn(q, a, r, S) ==
  \E i \in 1..Len(q) :
    /\ About(q[i], a, r) /\ q[i].body \in S
    /\ \A j \in 1..Len(q) : j > i => ~About(q[j], a, r)

LEMMA NothingSaid ==
  ASSUME NEW a, NEW r, NEW S
  PROVE  Silent(<<>>, a, r) /\ ~LastIn(<<>>, a, r, S)
BY DEF Silent, LastIn

LEMMA NotBoth ==
  ASSUME NEW q, NEW a, NEW r, NEW S, LastIn(q, a, r, S)
  PROVE  ~Silent(q, a, r)
BY DEF Silent, LastIn

LEMMA SaidOther ==
  ASSUME NEW T, NEW q \in Seq(T), NEW m \in T, NEW a, NEW r, NEW S, ~About(m, a, r)
  PROVE  /\ Silent(q, a, r) => Silent(Append(q, m), a, r)
         /\ LastIn(q, a, r, S) => LastIn(Append(q, m), a, r, S)
<1>1. /\ Len(Append(q, m)) = Len(q) + 1 /\ Len(q) \in Nat /\ Append(q, m)[Len(q) + 1] = m
      /\ \A i \in 1..Len(q) : Append(q, m)[i] = q[i]
  OBVIOUS
<1>2. Silent(q, a, r) => Silent(Append(q, m), a, r)
  BY <1>1 DEF Silent
<1>3. ASSUME LastIn(q, a, r, S) PROVE LastIn(Append(q, m), a, r, S)
  <2>1. PICK i \in 1..Len(q) : /\ About(q[i], a, r) /\ q[i].body \in S
                               /\ \A j \in 1..Len(q) : j > i => ~About(q[j], a, r)
    BY <1>3 DEF LastIn
  <2>2. \A j \in 1..Len(q) + 1 : j > i => ~About(Append(q, m)[j], a, r)
    BY <1>1, <2>1
  <2>. QED BY <1>1, <2>1, <2>2 DEF LastIn
<1>. QED BY <1>2, <1>3

LEMMA StillSilent ==
  ASSUME NEW T, NEW q \in Seq(T), NEW m \in T, NEW a, NEW r, ~About(m, a, r), Silent(q, a, r)
  PROVE  Silent(Append(q, m), a, r)
BY SaidOther

LEMMA StillLast ==
  ASSUME NEW T, NEW q \in Seq(T), NEW m \in T, NEW a, NEW r, NEW S, ~About(m, a, r),
         LastIn(q, a, r, S)
  PROVE  LastIn(Append(q, m), a, r, S)
BY SaidOther

LEMMA SaidNow ==
  ASSUME NEW T, NEW q \in Seq(T), NEW m \in T, NEW a, NEW r, NEW S,
         About(m, a, r), m.body \in S
  PROVE  LastIn(Append(q, m), a, r, S)
<1>1. Len(Append(q, m)) = Len(q) + 1 /\ Len(q) \in Nat /\ Append(q, m)[Len(q) + 1] = m
  OBVIOUS
<1>. QED BY <1>1 DEF LastIn

LEMMA OneLess ==
  ASSUME NEW T, NEW q \in Seq(T), q # <<>>, NEW a, NEW r, NEW S
  PROVE  /\ Silent(q, a, r) => ~About(Head(q), a, r) /\ Silent(Tail(q), a, r)
         /\ LastIn(q, a, r, S) =>
              \/ LastIn(Tail(q), a, r, S)
              \/ About(Head(q), a, r) /\ Head(q).body \in S /\ Silent(Tail(q), a, r)
<1>1. /\ Len(Tail(q)) = Len(q) - 1 /\ Len(q) \in Nat /\ Len(q) >= 1 /\ Head(q) = q[1]
      /\ \A i \in 1..Len(Tail(q)) : Tail(q)[i] = q[i + 1]
  OBVIOUS
<1>2. ASSUME Silent(q, a, r) PROVE ~About(Head(q), a, r) /\ Silent(Tail(q), a, r)
  <2>1. \A i \in 1..Len(Tail(q)) : i + 1 \in 1..Len(q) BY <1>1
  <2>. QED BY <1>1, <1>2, <2>1 DEF Silent
<1>3. ASSUME LastIn(q, a, r, S)
      PROVE  \/ LastIn(Tail(q), a, r, S)
             \/ About(Head(q), a, r) /\ Head(q).body \in S /\ Silent(Tail(q), a, r)
  <2>1. PICK i \in 1..Len(q) : /\ About(q[i], a, r) /\ q[i].body \in S
                               /\ \A j \in 1..Len(q) : j > i => ~About(q[j], a, r)
    BY <1>3 DEF LastIn
  <2>2. CASE i = 1
    <3>1. \A j \in 1..Len(Tail(q)) : j + 1 \in 1..Len(q) /\ j + 1 > 1 BY <1>1
    <3>. QED BY <1>1, <2>1, <2>2, <3>1 DEF Silent
  <2>3. CASE i # 1
    <3>1. i - 1 \in 1..Len(Tail(q)) /\ Tail(q)[i - 1] = q[i] BY <1>1, <2>3
    <3>2. ASSUME NEW j \in 1..Len(Tail(q)), j > i - 1 PROVE ~About(Tail(q)[j], a, r)
      <4>1. j + 1 \in 1..Len(q) /\ j + 1 > i BY <1>1, <3>2
      <4>. QED BY <1>1, <2>1, <4>1
    <3>. QED BY <2>1, <3>1, <3>2 DEF LastIn
  <2>. QED BY <2>2, <2>3
<1>. QED BY <1>2, <1>3

-----------------------------------------------------------------------------
(* Who is addressed, and what is still to be done. *)

(* A message about a topic is for a whole room; a client is sent its own. *)
Routed == {m \in Messages : m.about \in Topics => m.room \in Rooms /\ m.user = None}
Own(c) == {m \in Messages : m.about \in Topics => m.room = RoomOf[c]}

Unheard(c) == send[c] = <<>> /\ view[c] = Blank

ChannelsRouted ==
  /\ broadcast \in Seq(Routed) /\ wire \in Seq(Routed)
  /\ \A c \in Clients : send[c] \in Seq(Own(c))

(* A broadcast is pushed before anything else is done, a newcomer is greeted *)
(* at the end, before it is sent anything.                                   *)
WorkOrdered ==
  \A i \in 1..Len(todo) :
    /\ todo[i].do = "push" => i = 1 /\ todo[i].message \in Routed
    /\ todo[i].do = "greet" => /\ i = Len(todo) /\ Registered(todo[i].client)
                               /\ Unheard(todo[i].client)

Newcomers ==
  /\ \A c \in Clients : ~Registered(c) => Unheard(c)
  /\ \A i \in 1..Len(inbound) : Registered(inbound[i].client)

RouteInv == HubInv /\ ChannelsRouted /\ WorkOrdered /\ Newcomers

LEMMA RoutedMessages ==
  ASSUME HubConstants
  PROVE  /\ \A m \in Messages : m.about \notin Topics => m \in Routed
         /\ \A m \in Messages : m.about \notin Topics => \A c \in Clients : m \in Own(c)
         /\ \A r \in Rooms : \A typing \in SUBSET Users :
              Message(r, None, "typing", typing) \in Routed
         /\ \A r \in Rooms : \A shown \in Positions :
              Message(r, None, "cursor", shown) \in Routed
         /\ \A c \in Clients : RoomOf[c] \in Rooms => \A shown \in Positions :
              Message(RoomOf[c], UserOf[c], "cursor", shown) \in Own(c)
BY RoomMessages DEF Routed, Own, Message, HubConstants

LEMMA NoNews ==
  ASSUME NEW n, NEW r, NEW u
  PROVE  News(n, r, u).about \notin Topics
BY DEF News, Message, Topics

(* Whom a delivery reaches. *)
LEMMA DeliveredRoutes ==
  ASSUME HubConstants, HubInv, NEW m \in Routed, DeliverLocally(m)
  PROVE  /\ members' \subseteq members
         /\ \A c \in Clients :
              /\ send'[c] \in {send[c], Append(send[c], m)}
              /\ c \notin members => send'[c] = send[c]
              /\ m.about \in Topics /\ c \in members' =>
                   send'[c] = IF RoomOf[c] = m.room THEN Append(send[c], m) ELSE send[c]
              /\ m.about \in Topics /\ RoomOf[c] # m.room => send'[c] = send[c]
<1> DEFINE slow == {c \in Targets(m) : Len(send[c]) >= SendCap}
<1>1. /\ send' = [c \in Clients |-> IF c \in Targets(m) \ slow THEN Append(send[c], m)
                                                               ELSE send[c]]
      /\ members' = members \ slow
  BY DEF DeliverLocally
<1>2. Targets(m) \subseteq members /\ slow \subseteq Targets(m)
  BY DEF Targets
<1>3. m.about \in Topics => Targets(m) = {c \in members : RoomOf[c] = m.room}
  BY DEF Targets, Routed, HubConstants
<1>. HIDE DEF slow
<1>. QED BY <1>1, <1>2, <1>3

LEMMA DeliveredChannels ==
  ASSUME HubConstants, RouteInv, NEW m \in Routed, DeliverLocally(m), UNCHANGED <<conn, view>>
  PROVE  /\ \A c \in Clients : send'[c] \in Seq(Own(c))
         /\ \A c \in Clients : ~Registered(c)' => Unheard(c)'
<1>1. ASSUME NEW c \in Clients PROVE send'[c] \in Seq(Own(c))
  <2>1. send[c] \in Seq(Own(c)) /\ send'[c] \in {send[c], Append(send[c], m)}
    BY DeliveredRoutes DEF RouteInv, ChannelsRouted
  <2>2. CASE m.about \in Topics /\ RoomOf[c] # m.room
    BY <2>1, <2>2, DeliveredRoutes DEF RouteInv
  <2>3. CASE m.about \notin Topics \/ RoomOf[c] = m.room
    <3>1. m \in Own(c) BY <2>3 DEF Own, Routed
    <3>2. Append(send[c], m) \in Seq(Own(c)) BY <2>1, <3>1, Added
    <3>. QED BY <2>1, <3>2
  <2>. QED BY <2>2, <2>3
<1>2. ASSUME NEW c \in Clients, ~Registered(c)' PROVE Unheard(c)'
  <2>1. ~Registered(c) /\ c \notin members
    BY <1>2 DEF Registered, RouteInv, HubInv, DoorsInv, MembersHaveOpenChannels
  <2>. QED BY <2>1, DeliveredRoutes DEF RouteInv, Newcomers, Unheard
<1>. QED BY <1>1, <1>2

(* The rest of an event, and an entry replaced by the broadcast it causes. *)
LEMMA Replaced ==
  ASSUME NEW T, NEW q \in Seq(T), q # <<>>, NEW e
  PROVE  /\ Len(<<e>> \o Tail(q)) = Len(q) /\ (<<e>> \o Tail(q))[1] = e
         /\ \A i \in 1..Len(q) : i # 1 => (<<e>> \o Tail(q))[i] = q[i]
<1>1. Len(Tail(q)) = Len(q) - 1 /\ Len(q) \in Nat /\ Len(q) >= 1 /\ Tail(q) \in Seq(T)
      /\ \A i \in 1..Len(Tail(q)) : Tail(q)[i] = q[i + 1]
  OBVIOUS
<1>2. ASSUME NEW p, p = Tail(q) PROVE /\ Len(<<e>> \o p) = 1 + Len(p) /\ (<<e>> \o p)[1] = e
                                      /\ \A i \in 1..Len(p) : (<<e>> \o p)[i + 1] = p[i]
  <2>1. p \in Seq(T \cup {e}) /\ <<e>> \in Seq(T \cup {e}) BY <1>1, <1>2
  <2>. QED BY <2>1
<1>3. \A i \in 1..Len(q) : i # 1 => i - 1 \in 1..Len(Tail(q)) /\ i = (i - 1) + 1
  BY <1>1
<1>. QED BY <1>1, <1>2, <1>3

(* The hub has done the first entry. *)
Advance == todo # <<>> /\ todo' = Tail(todo)

LEMMA WorkRest ==
  ASSUME RouteInv, Advance, conn' = conn,
         \A c \in Clients : Unheard(c) /\ Head(todo) # Greet(c) => Unheard(c)'
  PROVE  WorkOrdered'
<1>1. todo \in Seq(Allowed) BY DEF RouteInv, HubInv
<1>2. /\ Len(todo') = Len(todo) - 1 /\ Len(todo) \in Nat
      /\ \A i \in 1..Len(todo') : i + 1 \in 1..Len(todo) /\ todo'[i] = todo[i + 1]
      /\ Head(todo) = todo[1]
  BY <1>1 DEF Advance
<1>3. ASSUME NEW i \in 1..Len(todo')
      PROVE  /\ todo'[i].do # "push"
             /\ todo'[i].do = "greet" => /\ i = Len(todo') /\ Registered(todo[i].client)'
                                        /\ Unheard(todo[i].client)'
  <2>1. PICK n : n = i + 1 OBVIOUS
  <2>2. n \in 1..Len(todo) /\ n # 1 /\ todo'[i] = todo[n] BY <1>2, <1>3, <2>1
  <2>3. todo[n] \in Allowed BY <1>1, <2>2
  <2>4. /\ todo[n].do # "push"
        /\ todo[n].do = "greet" => /\ n = Len(todo) /\ Registered(todo[n].client)
                                  /\ Unheard(todo[n].client)
    BY <2>2 DEF RouteInv, WorkOrdered
  <2>5. CASE todo[n].do = "greet"
    <3>0. PICK d : d = todo[n].client OBVIOUS
    <3>1. d \in Clients BY <2>3, <2>5, <3>0, EntryShape
    <3>2. todo[1].do # "greet" BY <2>2, <2>4, <2>5, <1>2 DEF RouteInv, WorkOrdered
    <3>3. Head(todo) # Greet(d) BY <1>2, <3>2 DEF Greet
    <3>4. Unheard(d)' BY <2>4, <2>5, <3>0, <3>1, <3>3
    <3>5. i = Len(todo') BY <1>2, <2>1, <2>4, <2>5
    <3>6. todo'[i].client = d /\ Registered(d) BY <2>2, <2>4, <2>5, <3>0
    <3>7. Registered(todo[i].client)' BY <3>6 DEF Registered
    <3>8. Unheard(todo[i].client)' BY <3>4, <3>6 DEF Unheard
    <3>. QED BY <2>2, <2>4, <3>5, <3>7, <3>8
  <2>. QED BY <2>2, <2>4, <2>5
<1>. QED BY <1>3 DEF WorkOrdered

Routes == ChannelsRouted /\ WorkOrdered /\ Newcomers

LEMMA NoWork == ASSUME todo' = <<>> PROVE WorkOrdered'
BY DEF WorkOrdered

LEMMA SameWork ==
  ASSUME RouteInv, UNCHANGED <<todo, conn>>, \A c \in Clients : Unheard(c) => Unheard(c)'
  PROVE  WorkOrdered'
<1>1. ASSUME NEW i \in 1..Len(todo), todo[i].do = "greet"
      PROVE  Unheard(todo[i].client)'
  <2>1. PICK d : d = todo[i].client OBVIOUS
  <2>2. d \in Clients BY <1>1, <2>1, EntryShape DEF RouteInv, HubInv
  <2>3. Unheard(d)' BY <1>1, <2>1, <2>2 DEF RouteInv, WorkOrdered
  <2>. QED BY <2>1, <2>3 DEF Unheard
<1>. QED BY <1>1 DEF RouteInv, WorkOrdered, Registered

LEMMA NewcomersKept ==
  ASSUME RouteInv, UNCHANGED <<inbound, conn>>,
         \A c \in Clients : ~Registered(c) => Unheard(c)'
  PROVE  Newcomers'
BY DEF RouteInv, Newcomers, Registered

(* An inbound message the hub has taken came from a registered connection. *)
LEMMA TakenRoutes ==
  ASSUME HubConstants, RouteInv, Take
  PROVE  /\ Sender \in Clients /\ Registered(Sender)
         /\ \A i \in 1..Len(inbound') : \E j \in 1..Len(inbound) : inbound'[i] = inbound[j]
<1>1. inbound \in Seq([client: Clients, kind: Kinds]) /\ inbound # <<>>
  BY DEF RouteInv, HubInv, QueuesOK, Take
<1>2. /\ Len(Tail(inbound)) = Len(inbound) - 1 /\ Len(inbound) \in Nat
      /\ \A i \in 1..Len(Tail(inbound)) : i + 1 \in 1..Len(inbound)
                                          /\ Tail(inbound)[i] = inbound[i + 1]
      /\ Head(inbound) = inbound[1] /\ 1 \in 1..Len(inbound)
  BY <1>1
<1>3. Sender \in Clients /\ Registered(Sender)
  <2>1. PICK e : e = Head(inbound) OBVIOUS
  <2>2. e \in [client: Clients, kind: Kinds] BY <1>1, <2>1, Taken
  <2>3. Registered(e.client) BY <1>2, <2>1 DEF RouteInv, Newcomers
  <2>. QED BY <2>1, <2>2, <2>3 DEF Sender
<1>. QED BY <1>2, <1>3 DEF Take

LEMMA StillRegistered ==
  ASSUME RouteInv, inbound' = inbound,
         \A d \in Clients : Registered(d) => Registered(d)'
  PROVE  \A i \in 1..Len(inbound) : Registered(inbound[i].client)'
<1>1. inbound \in Seq([client: Clients, kind: Kinds]) BY DEF RouteInv, HubInv, QueuesOK
<1>2. ASSUME NEW i \in 1..Len(inbound) PROVE Registered(inbound[i].client)'
  <2>1. PICK e : e = inbound[i] OBVIOUS
  <2>2. e \in [client: Clients, kind: Kinds] BY <1>1, <2>1, Element
  <2>3. PICK d \in Clients : d = e.client BY <2>2
  <2>4. Registered(d) BY <2>1, <2>3 DEF RouteInv, Newcomers
  <2>5. Registered(d)' BY <2>4
  <2>. QED BY <2>1, <2>3, <2>5 DEF Registered
<1>. QED BY <1>2

(* Steps that touch neither the hub's work nor what is sent or shown. *)
LEMMA QuietRoutes ==
  ASSUME HubConstants, RouteInv, UNCHANGED <<send, view, broadcast, wire, todo>>,
         \/ \E c \in Clients : \/ ReadError(c) \/ WriterEnds(c)
                               \/ \E kind \in Kinds : Read(c, kind)
         \/ Ignore \/ StartTimer \/ Stop \/ UNCHANGED vars
         \/ \E u \in Users : TimerAbort(u)
         \/ \E r \in Rooms : ExpireTyping(r)
  PROVE  Routes'
<1>1. ChannelsRouted' BY DEF RouteInv, ChannelsRouted
<1>2. \A c \in Clients : Registered(c) => Registered(c)'
  BY DEF ReadError, WriterEnds, Read, Ignore, StartTimer, Stop, vars, TimerAbort,
         ExpireTyping, Registered, RouteInv, HubInv, DoorsInv, ConnectionsOK
<1>3. WorkOrdered'
  <2>1. \A i \in 1..Len(todo) : todo[i].do = "greet" => todo[i].client \in Clients
    BY EntryShape DEF RouteInv, HubInv
  <2>2. ASSUME NEW i \in 1..Len(todo), todo[i].do = "greet"
        PROVE  Registered(todo[i].client)'
    <3>1. PICK d : d = todo[i].client OBVIOUS
    <3>2. Registered(d)' BY <1>2, <2>1, <2>2, <3>1 DEF RouteInv, WorkOrdered
    <3>. QED BY <3>1, <3>2 DEF Registered
  <2>. QED BY <2>2 DEF RouteInv, WorkOrdered, Unheard
<1>4. \A i \in 1..Len(inbound') : Registered(inbound[i].client)'
  <2>1. CASE \E c \in Clients, kind \in Kinds : Read(c, kind)
    <3>1. PICK c \in Clients, kind \in Kinds : Read(c, kind) BY <2>1
    <3>2. PICK e : e = [client |-> c, kind |-> kind] OBVIOUS
    <3>3. /\ inbound \in Seq([client: Clients, kind: Kinds])
          /\ e \in [client: Clients, kind: Kinds] /\ e.client = c
      BY <3>2 DEF RouteInv, HubInv, QueuesOK
    <3>4. /\ Len(Append(inbound, e)) = Len(inbound) + 1 /\ Len(inbound) \in Nat
          /\ Append(inbound, e)[Len(inbound) + 1] = e
          /\ \A i \in 1..Len(inbound) : Append(inbound, e)[i] = inbound[i]
      BY <3>3
    <3>5. conn' = conn /\ inbound' = Append(inbound, e) /\ Registered(c)
      BY <3>1, <3>2 DEF Read, Registered
    <3>. QED BY <3>3, <3>4, <3>5 DEF RouteInv, Newcomers, Registered
  <2>2. CASE Ignore
    <3>1. Take /\ conn' = conn BY <2>2 DEF Ignore
    <3>2. ASSUME NEW i \in 1..Len(inbound') PROVE Registered(inbound[i].client)'
      <4>1. PICK j \in 1..Len(inbound) : inbound'[i] = inbound[j] BY <3>1, <3>2, TakenRoutes
      <4>2. Registered(inbound[j].client) BY <4>1 DEF RouteInv, Newcomers
      <4>3. PICK d : d = inbound[j].client OBVIOUS
      <4>4. Registered(d)' BY <3>1, <4>2, <4>3 DEF Registered
      <4>. QED BY <4>1, <4>3, <4>4 DEF Registered
    <3>. QED BY <3>2
  <2>3. CASE inbound' = inbound BY <1>2, <2>3, StillRegistered
  <2>. QED
    BY <2>1, <2>2, <2>3 DEF ReadError, WriterEnds, StartTimer, Stop, TimerAbort,
                            ExpireTyping, queues, vars
<1>5. \A c \in Clients : ~Registered(c)' => Unheard(c)'
  BY <1>2 DEF RouteInv, Newcomers, Unheard
<1>. QED BY <1>1, <1>3, <1>4, <1>5 DEF Routes, Newcomers

(* Writing out a message leaves those that nothing was sent to alone. *)
LEMMA WriteRoutes ==
  ASSUME HubConstants, RouteInv, NEW c \in Clients, Write(c)
  PROVE  Routes'
<1>0. send \in [Clients -> Seq(Messages)] /\ send[c] # <<>>
  BY DEF RouteInv, HubInv, DoorsInv, ConnectionsOK, Write
<1>1. /\ send' = [send EXCEPT ![c] = Tail(@)] /\ UNCHANGED <<conn, inbound, todo, broadcast, wire>>
      /\ view' = [view EXCEPT ![c] = Shown(@, Head(send[c]))]
  BY DEF Write, queues
<1>2. Tail(send[c]) \in Seq(Own(c)) BY <1>0, Taken DEF RouteInv, ChannelsRouted
<1>3. ChannelsRouted' BY <1>0, <1>1, <1>2 DEF RouteInv, ChannelsRouted
<1>4. ASSUME NEW d \in Clients, Unheard(d) PROVE Unheard(d)'
  <2>1. d # c BY <1>0, <1>4 DEF Unheard
  <2>2. view \in [Clients -> [cursor: Positions, typing: SUBSET Users]]
    BY DEF RouteInv, HubInv, RoomsOK
  <2>. QED BY <1>0, <1>1, <1>4, <2>1, <2>2 DEF Unheard
<1>5. WorkOrdered' BY <1>1, <1>4, SameWork
<1>6. Newcomers' BY <1>1, <1>4, NewcomersKept DEF RouteInv, Newcomers
<1>. QED BY <1>3, <1>5, <1>6 DEF Routes

LEMMA RegisterRoutes ==
  ASSUME HubConstants, RouteInv, NEW c \in Clients, Register(c)
  PROVE  Routes'
<1>1. /\ UNCHANGED <<send, view, inbound, broadcast, wire>>
      /\ conn[c] = "new" /\ conn' = [conn EXCEPT ![c] = "open"]
  BY DEF Register, queues
<1>2. \A d \in Clients : Registered(d) => Registered(d)'
  BY <1>1 DEF Registered, RouteInv, HubInv, DoorsInv, ConnectionsOK
<1>3. Registered(c)' /\ Unheard(c)'
  BY <1>1 DEF Registered, Unheard, RouteInv, Newcomers, HubInv, DoorsInv, ConnectionsOK
<1>4. ChannelsRouted' BY <1>1 DEF RouteInv, ChannelsRouted
<1>5. Push(Event).do = "push" /\ Push(Event).message \in Routed
      /\ Greet(c).do = "greet" /\ Greet(c).client = c
  BY RoutedMessages, EventMessage, NoNews DEF Push, Greet, Event
<1>6. PICK p : p = Push(Event) OBVIOUS
<1>7. PICK g : g = Greet(c) OBVIOUS
<1>a. ASSUME NEW i \in 1..Len(todo')
      PROVE  (todo'[i] = p /\ i = 1) \/ (todo'[i] = g /\ i = Len(todo'))
  <2>1. PICK counted \in BOOLEAN :
          todo' = With("presence", IF counted THEN <<Push(Event)>> ELSE <<>>)
                  \o With("cursor", <<Greet(c)>>)
    BY DEF Register, Outcomes
  <2>2. PICK a \in {<<>>, <<p>>}, b \in {<<>>, <<g>>} : todo' = a \o b
    BY <1>6, <1>7, <2>1 DEF With
  <2>3. a \in Seq({p, g}) /\ b \in Seq({p, g}) BY Single
  <2>4. Len(a) \in {0, 1} /\ Len(b) \in {0, 1}
        /\ (Len(a) = 1 => a[1] = p) /\ (Len(b) = 1 => b[1] = g)
    OBVIOUS
  <2>5. /\ Len(todo') = Len(a) + Len(b)
        /\ todo'[i] = IF i <= Len(a) THEN a[i] ELSE b[i - Len(a)]
    BY <1>a, <2>2, <2>3, JoinedAt
  <2>6. CASE i <= Len(a)
    <3>1. i = 1 /\ Len(a) = 1 BY <1>a, <2>4, <2>5, <2>6
    <3>. QED BY <2>4, <2>5, <3>1
  <2>7. CASE ~(i <= Len(a))
    <3>1. i \in 1..(Len(a) + Len(b)) BY <1>a, <2>5
    <3>2. ASSUME NEW m \in {0, 1}, NEW n \in {0, 1}, i \in 1..(m + n), ~(i <= m)
          PROVE  i - m = 1 /\ n = 1 /\ i = m + n
      BY <3>2
    <3>3. i - Len(a) = 1 /\ Len(b) = 1 /\ i = Len(a) + Len(b)
      BY <2>4, <2>7, <3>1, <3>2
    <3>. QED BY <2>4, <2>5, <2>7, <3>3
  <2>. QED BY <2>6, <2>7
<1>b. WorkOrdered'
  <2>1. p.do = "push" /\ p.message \in Routed /\ g.do = "greet" /\ g.client = c
    BY <1>5, <1>6, <1>7
  <2>2. ASSUME NEW i \in 1..Len(todo')
        PROVE  /\ todo'[i].do = "push" => i = 1 /\ todo'[i].message \in Routed
               /\ todo'[i].do = "greet" => i = Len(todo') /\ todo'[i].client = c
    BY <1>a, <2>1
  <2>. QED BY <1>3, <2>2 DEF WorkOrdered, Registered, Unheard
<1>8. Newcomers'
  <2>1. \A i \in 1..Len(inbound) : Registered(inbound[i].client)'
    BY <1>1, <1>2, StillRegistered
  <2>2. \A d \in Clients : ~Registered(d)' => Unheard(d)'
    BY <1>1, <1>2 DEF RouteInv, Newcomers, Unheard
  <2>. QED BY <1>1, <2>1, <2>2 DEF Newcomers
<1>. QED BY <1>4, <1>b, <1>8 DEF Routes

(* Work without pushes and greetings is ordered. *)
Plain == {e \in TodoEntries : e.do \notin {"push", "greet"}}

LEMMA PlainWork == ASSUME todo' \in Seq(Plain) PROVE WorkOrdered'
<1>1. \A i \in 1..Len(todo') : todo'[i].do \notin {"push", "greet"}
  BY Element DEF Plain
<1>. QED BY <1>1 DEF WorkOrdered

LEMMA PlainEntries ==
  /\ \A u \in Users : <<Later(u)>> \in Seq(Plain)
  /\ \A c \in Clients, on \in BOOLEAN : <<Typing(c, on)>> \in Seq(Plain)
  /\ \A c \in Clients, p \in Points \cup {None} : <<Cursor(c, p)>> \in Seq(Plain)
  /\ \A c \in Clients : <<Remove(c)>> \in Seq(Plain)
  /\ <<>> \in Seq(Plain)
<1>1. /\ \A u \in Users : Later(u) \in Plain
      /\ \A c \in Clients, on \in BOOLEAN : Typing(c, on) \in Plain
      /\ \A c \in Clients, p \in Points \cup {None} : Cursor(c, p) \in Plain
      /\ \A c \in Clients : Remove(c) \in Plain
  BY DEF Plain, TodoEntries, Later, Typing, Cursor, Remove
<1>. QED BY <1>1, Single

LEMMA UnregisterWork ==
  ASSUME HubConstants, NEW c \in Clients, Unregister(c)
  PROVE  \E q \in Seq(Plain) : todo' = q \o <<Remove(c)>>
<1>1. PICK last \in BOOLEAN :
        todo' = With("presence", IF last THEN <<Later(UserOf[c])>> ELSE <<>>)
                \o With("typing", IF RoomOf[c] = None THEN <<>> ELSE <<Typing(c, FALSE)>>)
                \o With("cursor", IF RoomOf[c] = None THEN <<>> ELSE <<Cursor(c, None)>>)
                \o <<Remove(c)>>
  BY DEF Unregister
<1> DEFINE p1 == With("presence", IF last THEN <<Later(UserOf[c])>> ELSE <<>>)
           p2 == With("typing", IF RoomOf[c] = None THEN <<>> ELSE <<Typing(c, FALSE)>>)
           p3 == With("cursor", IF RoomOf[c] = None THEN <<>> ELSE <<Cursor(c, None)>>)
<1>2. p1 \in Seq(Plain) /\ p2 \in Seq(Plain) /\ p3 \in Seq(Plain)
  BY PlainEntries DEF With, HubConstants
<1>3. todo' = p1 \o p2 \o p3 \o <<Remove(c)>> BY <1>1
<1> HIDE DEF p1, p2, p3
<1>4. p1 \o p2 \in Seq(Plain) BY <1>2, Joined
<1>5. p1 \o p2 \o p3 \in Seq(Plain) BY <1>2, <1>4, Joined
<1>. QED BY <1>3, <1>5

LEMMA UnregisterPlain ==
  ASSUME HubConstants, NEW c \in Clients, Unregister(c)
  PROVE  todo' \in Seq(Plain)
<1>1. PICK q \in Seq(Plain) : todo' = q \o <<Remove(c)>> BY UnregisterWork
<1>2. <<Remove(c)>> \in Seq(Plain) BY PlainEntries
<1>3. q \o <<Remove(c)>> \in Seq(Plain) BY <1>2, Joined
<1>. QED BY <1>1, <1>3

LEMMA UnregisterRoutes ==
  ASSUME HubConstants, RouteInv, NEW c \in Clients, Unregister(c)
  PROVE  Routes'
<1>1. /\ UNCHANGED <<send, view, inbound, broadcast, wire>>
      /\ conn[c] = "leaving" /\ conn' = [conn EXCEPT ![c] = "gone"]
  BY DEF Unregister, queues
<1>2. \A d \in Clients : Registered(d) <=> Registered(d)'
  BY <1>1 DEF Registered, RouteInv, HubInv, DoorsInv, ConnectionsOK
<1>3. ChannelsRouted' BY <1>1 DEF RouteInv, ChannelsRouted
<1>4. todo' \in Seq(Plain) BY UnregisterPlain
<1>5. WorkOrdered' BY <1>4, PlainWork
<1>6. Newcomers'
  <2>1. \A i \in 1..Len(inbound) : Registered(inbound[i].client)'
    BY <1>1, <1>2, StillRegistered
  <2>2. \A d \in Clients : ~Registered(d)' => Unheard(d)'
    BY <1>1, <1>2 DEF RouteInv, Newcomers, Unheard
  <2>. QED BY <1>1, <2>1, <2>2 DEF Newcomers
<1>. QED BY <1>3, <1>5, <1>6 DEF Routes

(* A message sent to one client that has registered. *)
LEMMA SentRoutes ==
  ASSUME HubConstants, RouteInv, NEW c \in Clients, Registered(c), NEW m \in Own(c),
         SendTo(c, m), UNCHANGED <<conn, view, broadcast, wire>>
  PROVE  /\ ChannelsRouted' /\ \A d \in Clients : ~Registered(d) => Unheard(d)'
         /\ \A d \in Clients : d # c => send'[d] = send[d]
<1>0. send \in [Clients -> Seq(Messages)] /\ send[c] \in Seq(Own(c))
  BY DEF RouteInv, HubInv, DoorsInv, ConnectionsOK, ChannelsRouted
<1>1. Append(send[c], m) \in Seq(Own(c)) BY <1>0, Added
<1>2. send' \in {send, [send EXCEPT ![c] = Append(send[c], m)]} BY DEF SendTo
<1>3. send'[c] \in {send[c], Append(send[c], m)} /\ \A d \in Clients : d # c => send'[d] = send[d]
  BY <1>0, <1>2
<1>4. ChannelsRouted' BY <1>0, <1>1, <1>3 DEF RouteInv, ChannelsRouted
<1>. QED BY <1>3, <1>4 DEF RouteInv, Newcomers, Unheard

(* The hub takes an inbound message at the select, where no work is left. *)
LEMMA TakenNewcomers ==
  ASSUME HubConstants, RouteInv, Take, conn' = conn,
         \A d \in Clients : ~Registered(d) => Unheard(d)'
  PROVE  Newcomers'
<1>1. ASSUME NEW i \in 1..Len(inbound') PROVE Registered(inbound[i].client)'
  <2>1. PICK j \in 1..Len(inbound) : inbound'[i] = inbound[j] BY <1>1, TakenRoutes
  <2>2. PICK d : d = inbound[j].client OBVIOUS
  <2>3. Registered(d) BY <2>2 DEF RouteInv, Newcomers
  <2>4. Registered(d)' BY <2>3 DEF Registered
  <2>. QED BY <2>1, <2>2, <2>4 DEF Registered
<1>. QED BY <1>1 DEF Newcomers, Registered

LEMMA AnswerRoutes ==
  ASSUME HubConstants, RouteInv, Answer
  PROVE  Routes'
<1>1. Sender \in Clients /\ Registered(Sender) BY TakenRoutes DEF Answer
<1>2. PICK c \in Clients : c = Sender BY <1>1
<1>3. PICK m : m = News(0, None, UserOf[c]) OBVIOUS
<1>4. m \in Own(c)
  BY <1>3, RoutedMessages, NewsMessages, NoNews DEF HubConstants
<1>5. /\ SendTo(c, m) /\ Take /\ UNCHANGED <<conn, view, broadcast, wire, todo>>
  BY <1>2, <1>3 DEF Answer, rooms
<1>6. ChannelsRouted' /\ \A d \in Clients : ~Registered(d) => Unheard(d)'
  BY <1>1, <1>2, <1>4, <1>5, SentRoutes
<1>7. WorkOrdered' BY <1>5, NoWork DEF Take, AtSelect
<1>. QED BY <1>5, <1>6, <1>7, TakenNewcomers DEF Routes

LEMMA HandleRoutes ==
  ASSUME HubConstants, RouteInv, Handle
  PROVE  Routes'
<1>1. Sender \in Clients /\ Registered(Sender) BY TakenRoutes DEF Handle
<1>2. Take /\ UNCHANGED <<conn, send, view, broadcast, wire>> BY DEF Handle
<1>3. todo' \in Seq(Plain) BY <1>1, PlainEntries DEF Handle
<1>4. WorkOrdered' BY <1>3, PlainWork
<1>5. Newcomers' BY <1>2, TakenNewcomers DEF RouteInv, Newcomers, Unheard
<1>. QED BY <1>2, <1>4, <1>5 DEF Routes, RouteInv, ChannelsRouted

LEMMA CheckOfflineRoutes ==
  ASSUME HubConstants, RouteInv, CheckOffline
  PROVE  Routes'
<1>1. Take /\ UNCHANGED <<conn, send, view, broadcast, wire>> BY DEF CheckOffline
<1>2. PICK p : p = Push(Event) OBVIOUS
<1>3. p.do = "push" /\ p.message \in Routed
  BY <1>2, RoutedMessages, EventMessage, NoNews DEF Push, Event
<1>4. todo' = <<>> \/ todo' = <<p>> BY <1>2 DEF CheckOffline
<1>5. WorkOrdered'
  <2>0. Len(<<p>>) = 1 /\ <<p>>[1] = p /\ \A i \in 1..Len(<<>>) : FALSE OBVIOUS
  <2>1. \A i \in 1..Len(todo') : i = 1 /\ todo'[i] = p
    <3>1. CASE todo' = <<>> BY <2>0, <3>1
    <3>2. CASE todo' = <<p>>
      <4>1. Len(todo') = 1 /\ todo'[1] = p BY <2>0, <3>2
      <4>. QED BY <4>1
    <3>. QED BY <1>4, <3>1, <3>2
  <2>2. ASSUME NEW i \in 1..Len(todo')
        PROVE  /\ todo'[i].do = "push" => i = 1 /\ todo'[i].message \in Routed
               /\ todo'[i].do # "greet"
    BY <1>3, <2>1
  <2>. QED BY <2>2 DEF WorkOrdered
<1>6. Newcomers' BY <1>1, TakenNewcomers DEF RouteInv, Newcomers, Unheard
<1>. QED BY <1>1, <1>5, <1>6 DEF Routes, RouteInv, ChannelsRouted

LEMMA FanoutRoutes ==
  ASSUME HubConstants, RouteInv, Fanout
  PROVE  Routes'
<1>1. /\ broadcast \in Seq(Routed) /\ broadcast # <<>> /\ wire \in Seq(Routed)
      /\ UNCHANGED <<conn, view, inbound, todo>> /\ todo = <<>>
      /\ DeliverLocally(Head(broadcast))
  BY DEF RouteInv, ChannelsRouted, Fanout, AtSelect
<1>2. PICK m : m = Head(broadcast) OBVIOUS
<1>3. m \in Routed /\ Tail(broadcast) \in Seq(Routed) BY <1>1, <1>2, Taken
<1>4. Append(wire, m) \in Seq(Routed) BY <1>1, <1>3, Added
<1>5. /\ \A c \in Clients : send'[c] \in Seq(Own(c))
      /\ \A c \in Clients : ~Registered(c)' => Unheard(c)'
  BY <1>1, <1>2, <1>3, DeliveredChannels
<1>6. broadcast' \in Seq(Routed) /\ wire' \in Seq(Routed)
  BY <1>1, <1>2, <1>3, <1>4 DEF Fanout
<1>7. WorkOrdered' BY <1>1, NoWork
<1>8. Newcomers' BY <1>1, <1>5, NewcomersKept DEF Registered
<1>. QED BY <1>5, <1>6, <1>7, <1>8 DEF Routes, ChannelsRouted

LEMMA FromRedisRoutes ==
  ASSUME HubConstants, RouteInv, FromRedis
  PROVE  Routes'
<1>1. /\ wire \in Seq(Routed) /\ wire # <<>> /\ broadcast' = broadcast
      /\ UNCHANGED <<conn, view, inbound, todo>> /\ todo = <<>>
      /\ DeliverLocally(Head(wire)) /\ wire' = Tail(wire)
  BY DEF RouteInv, ChannelsRouted, FromRedis, AtSelect
<1>2. PICK m : m = Head(wire) OBVIOUS
<1>3. m \in Routed /\ wire' \in Seq(Routed) BY <1>1, <1>2, Taken
<1>4. /\ \A c \in Clients : send'[c] \in Seq(Own(c))
      /\ \A c \in Clients : ~Registered(c)' => Unheard(c)'
  BY <1>1, <1>2, <1>3, DeliveredChannels
<1>5. WorkOrdered' BY <1>1, NoWork
<1>6. Newcomers' BY <1>1, <1>4, NewcomersKept DEF Registered
<1>. QED BY <1>1, <1>3, <1>4, <1>5, <1>6 DEF Routes, RouteInv, ChannelsRouted

(* The first entry of the hub's work. *)
LEMMA FirstEntry ==
  ASSUME RouteInv, NEW what, Doing(what)
  PROVE  /\ todo # <<>> /\ Head(todo) \in Allowed /\ Head(todo).do = what
         /\ Head(todo) = todo[1] /\ 1 \in 1..Len(todo)
         /\ what = "push" => Head(todo).message \in Routed
<1>1. todo \in Seq(Allowed) /\ todo # <<>> BY DEF RouteInv, HubInv, Doing
<1>2. Head(todo) = todo[1] /\ 1 \in 1..Len(todo) BY <1>1
<1>. QED BY <1>1, <1>2, FirstTaken DEF RouteInv, HubInv, WorkOrdered

(* The steps of the hub's work that send nothing. *)
LEMMA WorkRoutes ==
  ASSUME HubConstants, RouteInv, DoPush \/ DoLater \/ DoRemove
  PROVE  Routes'
<1>1. Advance /\ UNCHANGED <<conn, inbound, send, view, wire>>
  BY DEF DoPush, DoLater, DoRemove, Doing, Advance, queues
<1>2. broadcast' \in Seq(Routed)
  <2>1. CASE DoPush
    <3>1. PICK m : m = Head(todo).message OBVIOUS
    <3>2. m \in Routed BY <2>1, <3>1, FirstEntry DEF DoPush
    <3>3. Append(broadcast, m) \in Seq(Routed) BY <3>2, Added DEF RouteInv, ChannelsRouted
    <3>. QED BY <2>1, <3>1, <3>3 DEF DoPush
  <2>2. CASE broadcast' = broadcast BY <2>2 DEF RouteInv, ChannelsRouted
  <2>. QED BY <2>1, <2>2 DEF DoLater, DoRemove, queues
<1>3. ChannelsRouted' BY <1>1, <1>2 DEF RouteInv, ChannelsRouted
<1>4. \A d \in Clients : Unheard(d) => Unheard(d)' BY <1>1 DEF Unheard
<1>5. WorkOrdered' BY <1>1, <1>4, WorkRest
<1>6. Newcomers' BY <1>1, <1>4, NewcomersKept DEF RouteInv, Newcomers
<1>. QED BY <1>3, <1>5, <1>6 DEF Routes

LEMMA DoGreetRoutes ==
  ASSUME HubConstants, RouteInv, DoGreet
  PROVE  Routes'
<1>1. Advance /\ UNCHANGED <<conn, inbound, view, broadcast, wire>>
  BY DEF DoGreet, Doing, Advance, queues
<1>2. /\ Head(todo) \in Allowed /\ Head(todo).do = "greet"
      /\ Head(todo) = todo[1] /\ 1 \in 1..Len(todo)
  BY FirstEntry DEF DoGreet
<1>3. PICK c \in Clients : c = Head(todo).client BY <1>2, EntryShape
<1>4. Registered(c) /\ Head(todo) = Greet(c)
  <2>1. Registered(c) BY <1>2, <1>3 DEF RouteInv, WorkOrdered
  <2>2. Head(todo) \in [do: {"greet", "remove"}, client: Clients]
    BY <1>2 DEF Allowed, TodoEntries
  <2>. QED BY <1>2, <1>3, <2>1, <2>2 DEF Greet
<1>5. /\ ChannelsRouted' /\ \A d \in Clients : ~Registered(d) => Unheard(d)'
      /\ \A d \in Clients : d # c => send'[d] = send[d]
  <2>1. CASE UNCHANGED send
    BY <1>1, <2>1 DEF RouteInv, ChannelsRouted, Newcomers, Unheard
  <2>2. CASE RoomOf[c] # None /\ SendTo(c, Message(RoomOf[c], UserOf[c], "cursor",
                                                   cursors[RoomOf[c]]))
    <3>1. PICK m : m = Message(RoomOf[c], UserOf[c], "cursor", cursors[RoomOf[c]]) OBVIOUS
    <3>2. RoomOf[c] \in Rooms /\ cursors[RoomOf[c]] \in Positions
      BY <2>2 DEF HubConstants, RouteInv, HubInv, RoomsOK
    <3>3. m \in Own(c) BY <3>1, <3>2, RoutedMessages
    <3>. QED BY <1>1, <1>4, <2>2, <3>1, <3>3, SentRoutes
  <2>. QED BY <1>3, <2>1, <2>2 DEF DoGreet
<1>6. \A d \in Clients : Unheard(d) /\ Head(todo) # Greet(d) => Unheard(d)'
  BY <1>1, <1>4, <1>5 DEF Unheard
<1>7. WorkOrdered' BY <1>1, <1>6, WorkRest
<1>8. Newcomers' BY <1>1, <1>5, NewcomersKept
<1>. QED BY <1>5, <1>7, <1>8 DEF Routes

(* The first entry becomes the push of a message it makes. *)
Becomes(m) == todo # <<>> /\ todo' = <<Push(m)>> \o Tail(todo)

LEMMA BecomesRoutes ==
  ASSUME HubConstants, RouteInv, NEW m \in Routed, Becomes(m), Head(todo).do # "greet",
         UNCHANGED <<conn, inbound, send, view, broadcast, wire>>
  PROVE  Routes'
<1>1. todo \in Seq(Allowed) /\ todo # <<>> BY DEF RouteInv, HubInv, Becomes
<1>2. Head(todo) = todo[1] BY <1>1
<1>3. PICK p : p = Push(m) OBVIOUS
<1>4. p.do = "push" /\ p.message = m BY <1>3 DEF Push
<1>5. /\ Len(todo') = Len(todo) /\ todo'[1] = p
      /\ \A i \in 1..Len(todo) : i # 1 => todo'[i] = todo[i]
  BY <1>1, <1>3, Replaced DEF Becomes
<1>6. ASSUME NEW i \in 1..Len(todo')
      PROVE  /\ todo'[i].do = "push" => i = 1 /\ todo'[i].message \in Routed
             /\ todo'[i].do = "greet" => /\ i = Len(todo') /\ Registered(todo[i].client)'
                                         /\ Unheard(todo[i].client)'
  <2>1. CASE i = 1 BY <1>4, <1>5, <2>1
  <2>2. CASE i # 1
    <3>1. todo'[i] = todo[i] /\ i \in 1..Len(todo) BY <1>5, <1>6, <2>2
    <3>2. /\ todo[i].do # "push"
          /\ todo[i].do = "greet" => /\ i = Len(todo) /\ Registered(todo[i].client)
                                     /\ Unheard(todo[i].client)
      BY <2>2, <3>1 DEF RouteInv, WorkOrdered
    <3>3. PICK d : d = todo[i].client OBVIOUS
    <3>4. todo[i].do = "greet" => Registered(d)' /\ Unheard(d)'
      BY <3>2, <3>3 DEF Registered, Unheard
    <3>. QED BY <1>5, <3>1, <3>2, <3>3, <3>4 DEF Registered, Unheard
  <2>. QED BY <2>1, <2>2
<1>7. WorkOrdered' BY <1>6 DEF WorkOrdered
<1>8. Newcomers' BY NewcomersKept DEF RouteInv, Newcomers, Unheard
<1>. QED BY <1>7, <1>8 DEF Routes, RouteInv, ChannelsRouted

LEMMA DoCursorRoutes ==
  ASSUME HubConstants, RouteInv, HubInv', DoCursor
  PROVE  Routes'
<1>1. Head(todo) \in Allowed /\ Head(todo).do = "cursor" /\ todo # <<>>
  BY FirstEntry DEF DoCursor
<1>2. PICK r \in Rooms : r = RoomOf[Head(todo).client] BY <1>1, EntryShape
<1>3. PICK m : m = Message(r, None, "cursor", cursors'[r]) OBVIOUS
<1>4. cursors'[r] \in Positions BY DEF HubInv, RoomsOK
<1>5. m \in Routed BY <1>3, <1>4, RoutedMessages
<1>6. Becomes(m) /\ UNCHANGED <<conn, inbound, send, view, broadcast, wire>>
  BY <1>1, <1>2, <1>3 DEF DoCursor, Becomes, queues
<1>. QED BY <1>1, <1>5, <1>6, BecomesRoutes

LEMMA DoTypingRoutes ==
  ASSUME HubConstants, RouteInv, HubInv', DoTyping
  PROVE  Routes'
<1>1. Head(todo) \in Allowed /\ Head(todo).do = "typing" /\ todo # <<>>
  BY FirstEntry DEF DoTyping
<1>2. PICK r \in Rooms : r = RoomOf[Head(todo).client] BY <1>1, EntryShape
<1>3. PICK m : m = Message(r, None, "typing", typists'[r]) OBVIOUS
<1>4. typists'[r] \in SUBSET Users BY DEF HubInv, RoomsOK
<1>5. m \in Routed BY <1>3, <1>4, RoutedMessages
<1>6. UNCHANGED <<conn, inbound, send, view, broadcast, wire>> BY DEF DoTyping, queues
<1>7. CASE Becomes(m) BY <1>1, <1>5, <1>6, <1>7, BecomesRoutes
<1>8. CASE Advance
  <2>1. \A d \in Clients : Unheard(d) => Unheard(d)' BY <1>6 DEF Unheard
  <2>2. WorkOrdered' BY <1>6, <1>8, <2>1, WorkRest
  <2>3. Newcomers' BY <1>6, <2>1, NewcomersKept DEF RouteInv, Newcomers
  <2>. QED BY <1>6, <2>2, <2>3 DEF Routes, RouteInv, ChannelsRouted
<1>9. Becomes(m) \/ Advance
  <2>1. todo \in Seq(Allowed) BY DEF RouteInv, HubInv
  <2>2. Tail(todo) \in Seq(Allowed) BY <1>1, <2>1, Taken
  <2>3. <<>> \o Tail(todo) = Tail(todo) BY <2>2
  <2>. QED BY <1>1, <1>2, <1>3, <2>3 DEF DoTyping, Becomes, Advance
<1>. QED BY <1>7, <1>8, <1>9

(* Messages that come from elsewhere: they are about no topic. *)
LEMMA NewsRoutes ==
  ASSUME HubConstants, RouteInv, NEW m \in Messages, m.about \notin Topics,
         broadcast' \in {broadcast, Append(broadcast, m)},
         wire' \in {wire, Append(wire, m)},
         UNCHANGED <<conn, inbound, send, view, todo>>
  PROVE  Routes'
<1>1. m \in Routed BY RoutedMessages
<1>2. /\ Append(broadcast, m) \in Seq(Routed) /\ Append(wire, m) \in Seq(Routed)
      /\ broadcast \in Seq(Routed) /\ wire \in Seq(Routed)
  BY <1>1, Added DEF RouteInv, ChannelsRouted
<1>3. \A d \in Clients : Unheard(d) => Unheard(d)' BY DEF Unheard
<1>4. WorkOrdered' BY <1>3, SameWork
<1>5. Newcomers' BY <1>3, NewcomersKept DEF RouteInv, Newcomers
<1>6. ChannelsRouted' BY <1>2 DEF RouteInv, ChannelsRouted
<1>. QED BY <1>4, <1>5, <1>6 DEF Routes

(* What is published elsewhere, and what a timer announces. *)
LEMMA Elsewhere ==
  ASSUME HubConstants, HubInv,
         \/ \E u \in Users : TimerPush(u) \/ Publish(News(news + 1, None, u))
         \/ \E r \in Rooms : Publish(News(news + 1, r, None))
  PROVE  \E m \in Messages :
           /\ m.about \notin Topics /\ broadcast' \in {broadcast, Append(broadcast, m)}
           /\ wire' \in {wire, Append(wire, m)}
           /\ UNCHANGED <<conn, inbound, send, view, todo, members, cursors, typists>>
<1>1. ASSUME NEW u \in Users, TimerPush(u)
      PROVE  /\ broadcast' = Append(broadcast, Event) /\ wire' = wire
             /\ UNCHANGED <<conn, inbound, send, view, todo, members, cursors, typists>>
  BY <1>1 DEF TimerPush, rooms
<1>2. ASSUME NEW m, Publish(m)
      PROVE  /\ broadcast' \in {broadcast, Append(broadcast, m)}
             /\ wire' \in {wire, Append(wire, m)} /\ news + 1 \in 0..MaxNews
             /\ UNCHANGED <<conn, inbound, send, view, todo, members, cursors, typists>>
  BY <1>2 DEF Publish, rooms, HubConstants, HubInv, CountsOK
<1>3. Event \in Messages /\ Event.about \notin Topics BY EventMessage, NoNews DEF Event
<1>4. ASSUME NEW r \in Rooms \cup {None}, NEW u \in Users \cup {None}, news + 1 \in 0..MaxNews
      PROVE  News(news + 1, r, u) \in Messages /\ News(news + 1, r, u).about \notin Topics
  BY <1>4, NewsMessages, NoNews
<1>. QED BY <1>1, <1>2, <1>3, <1>4

LEMMA ElsewhereRoutes ==
  ASSUME HubConstants, RouteInv,
         \/ \E u \in Users : TimerPush(u) \/ Publish(News(news + 1, None, u))
         \/ \E r \in Rooms : Publish(News(news + 1, r, None))
  PROVE  Routes'
BY Elsewhere, NewsRoutes DEF RouteInv

-----------------------------------------------------------------------------
(* What is on its way to a room is up to date at its end. *)

(* What may be shown of a topic of a room. *)
Fitting(a, r) == IF a = "cursor" THEN {cursors[r]} ELSE SUBSET typists[r]

Pushing(a, r) ==
  todo # <<>> /\ Head(todo).do = "push" /\ About(Head(todo).message, a, r)
Greeted(c) == \A i \in 1..Len(todo) : todo[i] # Greet(c)
Shows(c, a) == IF a = "cursor" THEN view[c].cursor ELSE view[c].typing

Reached(c, a, r, S) ==
  \/ LastIn(send[c], a, r, S)
  \/ Silent(send[c], a, r) /\ Shows(c, a) \in S

(* The last word about the topic is fit: it is about to be broadcast, or it *)
(* is in the first of broadcast, wire and send that speaks of the topic, or *)
(* it is what the browser shows.                                            *)
Told(a, r, S) ==
  IF Pushing(a, r) THEN Head(todo).message.body \in S
  ELSE \/ LastIn(broadcast, a, r, S)
       \/ Silent(broadcast, a, r) /\ LastIn(wire, a, r, S)
       \/ /\ Silent(broadcast, a, r) /\ Silent(wire, a, r)
          /\ \A c \in members : RoomOf[c] = r /\ Greeted(c) => Reached(c, a, r, S)

ToldInv(a) == RouteInv /\ \A r \in Rooms : Told(a, r, Fitting(a, r))

(* Under which faults and handlers the topic is kept up to date. *)
Reliable(a) == /\ "redis error" \notin Faults
               /\ a = "cursor" => "cursor" \in Handlers
               /\ a = "typing" => "typing ttl" \notin Faults

LEMMA ToldKept ==
  ASSUME NEW a, NEW r, NEW S, Told(a, r, S), members' \subseteq members,
         UNCHANGED <<broadcast, wire, todo, send, view>>
  PROVE  Told(a, r, S)'
BY DEF Told, Pushing, Greeted, Reached, Shows

(* A new event, that begins with no broadcast about the topic. *)
LEMMA ToldEvent ==
  ASSUME NEW a, NEW r, NEW S, Told(a, r, S), todo = <<>>, ~Pushing(a, r)',
         UNCHANGED <<broadcast, wire, send, view>>,
         \A c \in members' : RoomOf[c] = r /\ Greeted(c)' => c \in members \/ Reached(c, a, r, S)
  PROVE  Told(a, r, S)'
<1>1. ~Pushing(a, r) BY DEF Pushing
<1>2. \A c \in members : Greeted(c) BY DEF Greeted
<1>3. \A c : Reached(c, a, r, S) => Reached(c, a, r, S)' BY DEF Reached, Shows
<1>. QED BY <1>1, <1>2, <1>3 DEF Told

LEMMA PlainQuiet ==
  ASSUME todo' \in Seq(Plain), NEW a, NEW r
  PROVE  ~Pushing(a, r)'
<1>1. todo' # <<>> => Head(todo') \in Plain BY Taken
<1>. QED BY <1>1 DEF Pushing, Plain

(* Only the sequence of messages sent to one client, and what it shows. *)
LEMMA WriteTold ==
  ASSUME HubConstants, RouteInv, NEW c \in Clients, Write(c), NEW a \in Topics, NEW r \in Rooms,
         NEW S, Told(a, r, S)
  PROVE  Told(a, r, S)'
<1>1. /\ UNCHANGED <<broadcast, wire, todo, members>> /\ send[c] # <<>>
      /\ send' = [send EXCEPT ![c] = Tail(@)]
      /\ view' = [view EXCEPT ![c] = Shown(@, Head(send[c]))]
  BY DEF Write, queues
<1>2. /\ send \in [Clients -> Seq(Messages)] /\ send[c] \in Seq(Own(c))
      /\ view \in [Clients -> [cursor: Positions, typing: SUBSET Users]]
      /\ members \subseteq Clients
  BY DEF RouteInv, HubInv, DoorsInv, ConnectionsOK, RoomsOK, ChannelsRouted
<1>3. ASSUME RoomOf[c] = r, Reached(c, a, r, S) PROVE Reached(c, a, r, S)'
  <2>1. PICK m : m = Head(send[c]) OBVIOUS
  <2>2. m \in Own(c) BY <1>1, <1>2, <2>1, Taken
  <2>3. send'[c] = Tail(send[c]) /\ view'[c] = Shown(view[c], m)
    BY <1>1, <1>2, <2>1
  <2>4. \/ LastIn(Tail(send[c]), a, r, S)
        \/ About(m, a, r) /\ m.body \in S /\ Silent(Tail(send[c]), a, r)
        \/ Silent(send[c], a, r) /\ ~About(m, a, r) /\ Silent(Tail(send[c]), a, r)
    BY <1>1, <1>2, <1>3, <2>1, OneLess DEF Reached
  <2>5. CASE LastIn(Tail(send[c]), a, r, S) BY <2>3, <2>5 DEF Reached
  <2>6. CASE About(m, a, r) /\ m.body \in S /\ Silent(Tail(send[c]), a, r)
    <3>1. Shows(c, a)' = m.body
      <4>1. a = "cursor" => view'[c] = [view[c] EXCEPT !.cursor = m.body]
        BY <2>3, <2>6 DEF Shown, About
      <4>2. a = "typing" => view'[c] = [view[c] EXCEPT !.typing = m.body]
        BY <2>3, <2>6 DEF Shown, About
      <4>. QED BY <1>2, <4>1, <4>2 DEF Shows, Topics
    <3>. QED BY <2>3, <2>6, <3>1 DEF Reached
  <2>7. CASE ~LastIn(send[c], a, r, S) /\ Silent(Tail(send[c]), a, r) /\ ~About(m, a, r)
    <3>1. Shows(c, a) \in S BY <1>3, <2>7 DEF Reached
    <3>2. m.about # a BY <1>3, <2>2, <2>7 DEF Own, About
    <3>3. Shows(c, a)' = Shows(c, a)
      <4>1. view'[c] \in {view[c], [view[c] EXCEPT !.cursor = m.body],
                          [view[c] EXCEPT !.typing = m.body]}
        BY <2>3 DEF Shown
      <4>2. m.about # "cursor" => view'[c] \in {view[c], [view[c] EXCEPT !.typing = m.body]}
        BY <2>3 DEF Shown
      <4>3. m.about # "typing" => view'[c] \in {view[c], [view[c] EXCEPT !.cursor = m.body]}
        BY <2>3 DEF Shown
      <4>. QED BY <1>2, <3>2, <4>2, <4>3 DEF Shows, Topics
    <3>. QED BY <2>3, <2>7, <3>1, <3>3 DEF Reached
  <2>8. LastIn(send[c], a, r, S) => ~Silent(send[c], a, r) BY NotBoth
  <2>. QED BY <2>4, <2>5, <2>6, <2>7, <2>8
<1>4. \A d \in Clients : d # c => (Reached(d, a, r, S) => Reached(d, a, r, S)')
  <2>1. ASSUME NEW d \in Clients, d # c PROVE send'[d] = send[d] /\ view'[d] = view[d]
    BY <1>1, <1>2, <2>1
  <2>. QED BY <2>1 DEF Reached, Shows
<1>5. \A d : Greeted(d)' <=> Greeted(d) BY <1>1 DEF Greeted
<1>6. Pushing(a, r)' <=> Pushing(a, r) BY <1>1 DEF Pushing
<1>. QED BY <1>1, <1>2, <1>3, <1>4, <1>5, <1>6 DEF Told

(* A delivery passes a message on to the clients of a room. *)
LEMMA DeliveredReached ==
  ASSUME HubConstants, RouteInv, NEW m \in Routed, DeliverLocally(m), UNCHANGED view,
         NEW a \in Topics, NEW r \in Rooms, NEW S, NEW c \in members', RoomOf[c] = r
  PROVE  /\ About(m, a, r) /\ m.body \in S => Reached(c, a, r, S)'
         /\ ~About(m, a, r) /\ Reached(c, a, r, S) => Reached(c, a, r, S)'
<1>1. c \in members /\ c \in Clients
  BY DeliveredRoutes DEF RouteInv, HubInv, DoorsInv, ConnectionsOK
<1>2. send[c] \in Seq(Messages) /\ m \in Messages
  BY <1>1 DEF RouteInv, HubInv, DoorsInv, ConnectionsOK, Routed
<1>3. ASSUME About(m, a, r), m.body \in S PROVE Reached(c, a, r, S)'
  <2>1. send'[c] = Append(send[c], m)
    BY <1>1, <1>3, DeliveredRoutes DEF RouteInv, About
  <2>. QED BY <1>2, <1>3, <2>1, SaidNow DEF Reached
<1>4. ASSUME ~About(m, a, r), Reached(c, a, r, S) PROVE Reached(c, a, r, S)'
  <2>1. send'[c] \in {send[c], Append(send[c], m)}
    BY <1>1, DeliveredRoutes DEF RouteInv
  <2>2. Shows(c, a)' = Shows(c, a) BY DEF Shows
  <2>3. CASE send'[c] = send[c] BY <1>4, <2>2, <2>3 DEF Reached
  <2>4. CASE send'[c] = Append(send[c], m)
    <3>1. CASE LastIn(send[c], a, r, S)
      BY <1>2, <1>4, <2>4, <3>1, StillLast DEF Reached
    <3>2. CASE Silent(send[c], a, r) /\ Shows(c, a) \in S
      <4>1. Silent(send'[c], a, r) BY <1>2, <1>4, <2>4, <3>2, StillSilent
      <4>. QED BY <2>2, <3>2, <4>1 DEF Reached
    <3>. QED BY <1>4, <3>1, <3>2 DEF Reached
  <2>. QED BY <2>1, <2>3, <2>4
<1>. QED BY <1>3, <1>4

(* What is broadcast goes to the room and, once more, to the wire. *)
LEMMA FanoutTold ==
  ASSUME HubConstants, Outcomes = {TRUE}, RouteInv, Fanout,
         NEW a \in Topics, NEW r \in Rooms, NEW S, Told(a, r, S)
  PROVE  Told(a, r, S)'
<1>1. /\ broadcast \in Seq(Routed) /\ broadcast # <<>> /\ wire \in Seq(Routed)
      /\ todo = <<>> /\ UNCHANGED <<todo, view>> /\ DeliverLocally(Head(broadcast))
      /\ broadcast' = Tail(broadcast) /\ wire' = Append(wire, Head(broadcast))
  BY DEF RouteInv, ChannelsRouted, Fanout, AtSelect
<1>2. PICK m : m = Head(broadcast) OBVIOUS
<1>3. m \in Routed BY <1>1, <1>2, Taken
<1>4. ~Pushing(a, r) /\ ~Pushing(a, r)' /\ \A d : Greeted(d) /\ Greeted(d)'
  BY <1>1 DEF Pushing, Greeted
<1>5. CASE LastIn(Tail(broadcast), a, r, S)
  BY <1>1, <1>4, <1>5 DEF Told
<1>6. CASE About(m, a, r) /\ m.body \in S /\ Silent(Tail(broadcast), a, r)
  BY <1>1, <1>2, <1>3, <1>4, <1>6, SaidNow DEF Told
<1>7. CASE ~About(m, a, r) /\ Silent(Tail(broadcast), a, r) /\ Silent(broadcast, a, r)
  <2>0. Silent(broadcast', a, r) /\ wire' = Append(wire, m) BY <1>1, <1>2, <1>7
  <2>1. ~LastIn(broadcast, a, r, S) BY <1>7, NotBoth
  <2>2. CASE LastIn(wire, a, r, S)
    <3>1. LastIn(wire', a, r, S) BY <1>1, <1>3, <1>7, <2>0, <2>2, StillLast
    <3>. QED BY <1>4, <2>0, <3>1 DEF Told
  <2>3. CASE Silent(wire, a, r) /\ \A c \in members : RoomOf[c] = r => Reached(c, a, r, S)
    <3>1. Silent(wire', a, r) BY <1>1, <1>3, <1>7, <2>0, <2>3, StillSilent
    <3>2. ASSUME NEW c \in members', RoomOf[c] = r PROVE Reached(c, a, r, S)'
      <4>1. c \in members BY <1>1, <1>2, <1>3, DeliveredRoutes DEF RouteInv
      <4>. QED BY <1>1, <1>2, <1>3, <1>7, <2>3, <3>2, <4>1, DeliveredReached
    <3>. QED BY <1>4, <2>0, <3>1, <3>2 DEF Told
  <2>. QED BY <1>4, <2>1, <2>2, <2>3 DEF Told
<1>. QED BY <1>1, <1>2, <1>4, <1>5, <1>6, <1>7, OneLess DEF Told

(* What comes back from the wire goes to the room. *)
LEMMA FromRedisTold ==
  ASSUME HubConstants, RouteInv, FromRedis,
         NEW a \in Topics, NEW r \in Rooms, NEW S, Told(a, r, S)
  PROVE  Told(a, r, S)'
<1>1. /\ wire \in Seq(Routed) /\ wire # <<>> /\ todo = <<>>
      /\ UNCHANGED <<todo, view, broadcast>>
      /\ DeliverLocally(Head(wire)) /\ wire' = Tail(wire)
  BY DEF RouteInv, ChannelsRouted, FromRedis, AtSelect
<1>2. PICK m : m = Head(wire) OBVIOUS
<1>3. m \in Routed BY <1>1, <1>2, Taken
<1>4. ~Pushing(a, r) /\ ~Pushing(a, r)' /\ \A d : Greeted(d) /\ Greeted(d)'
  BY <1>1 DEF Pushing, Greeted
<1>5. CASE LastIn(broadcast, a, r, S) BY <1>1, <1>4, <1>5 DEF Told
<1>6. CASE Silent(broadcast, a, r) /\ LastIn(Tail(wire), a, r, S)
  BY <1>1, <1>4, <1>6 DEF Told
<1>7. CASE /\ Silent(broadcast, a, r) /\ Silent(Tail(wire), a, r)
           /\ \/ About(m, a, r) /\ m.body \in S
              \/ /\ ~About(m, a, r)
                 /\ \A c \in members : RoomOf[c] = r => Reached(c, a, r, S)
  <2>1. ASSUME NEW c \in members', RoomOf[c] = r PROVE Reached(c, a, r, S)'
    <3>1. c \in members BY <1>1, <1>2, <1>3, DeliveredRoutes DEF RouteInv
    <3>. QED BY <1>1, <1>2, <1>3, <1>7, <2>1, <3>1, DeliveredReached
  <2>. QED BY <1>1, <1>4, <1>7, <2>1 DEF Told
<1>. QED BY <1>1, <1>2, <1>4, <1>5, <1>6, <1>7, OneLess DEF Told

(* News that is about no topic leaves what the rooms are told. *)
LEMMA ElsewhereTold ==
  ASSUME HubConstants, RouteInv,
         \/ \E u \in Users : TimerPush(u) \/ Publish(News(news + 1, None, u))
         \/ \E r \in Rooms : Publish(News(news + 1, r, None)),
         NEW a \in Topics, NEW r \in Rooms, NEW S, Told(a, r, S)
  PROVE  Told(a, r, S)'
<1>1. PICK m \in Messages :
        /\ m.about \notin Topics /\ broadcast' \in {broadcast, Append(broadcast, m)}
        /\ wire' \in {wire, Append(wire, m)}
        /\ UNCHANGED <<send, view, todo, members>>
  BY Elsewhere DEF RouteInv
<1>2. /\ broadcast \in Seq(Messages) /\ wire \in Seq(Messages) /\ ~About(m, a, r)
  BY <1>1 DEF RouteInv, HubInv, QueuesOK, About
<1>3. /\ Silent(broadcast, a, r) => Silent(broadcast', a, r)
      /\ LastIn(broadcast, a, r, S) => LastIn(broadcast', a, r, S)
  <2>1. CASE broadcast' = Append(broadcast, m) BY <1>1, <1>2, <2>1, StillSilent, StillLast
  <2>. QED BY <1>1, <2>1
<1>5. /\ Silent(wire, a, r) => Silent(wire', a, r)
      /\ LastIn(wire, a, r, S) => LastIn(wire', a, r, S)
  <2>1. CASE wire' = Append(wire, m) BY <1>1, <1>2, <2>1, StillSilent, StillLast
  <2>. QED BY <1>1, <2>1
<1>4. /\ Pushing(a, r)' <=> Pushing(a, r)
      /\ \A c : Greeted(c)' <=> Greeted(c)
      /\ \A c : Reached(c, a, r, S)' <=> Reached(c, a, r, S)
  BY <1>1 DEF Pushing, Greeted, Reached, Shows
<1>. QED BY <1>1, <1>3, <1>5, <1>4 DEF Told

(* Once the first entry is done nothing waits to be pushed. *)
LEMMA Advanced ==
  ASSUME RouteInv, Advance, NEW a, NEW r
  PROVE  /\ ~Pushing(a, r)'
         /\ \A c \in Clients : Greeted(c)' /\ Head(todo) # Greet(c) => Greeted(c)
<1>1. todo \in Seq(Allowed) BY DEF RouteInv, HubInv
<1>2. /\ Len(todo') = Len(todo) - 1 /\ Len(todo) \in Nat /\ Len(todo) >= 1
      /\ \A i \in 1..Len(todo') : todo'[i] = todo[i + 1]
      /\ Head(todo) = todo[1] /\ (todo' # <<>> => Head(todo') = todo'[1] /\ Len(todo') >= 1)
  BY <1>1 DEF Advance
<1>3. ASSUME todo' # <<>> PROVE Head(todo').do # "push"
  <2>1. Head(todo') = todo[2] /\ 2 \in 1..Len(todo) BY <1>2, <1>3
  <2>. QED BY <2>1 DEF RouteInv, WorkOrdered
<1>4. ASSUME NEW c \in Clients, Greeted(c)', Head(todo) # Greet(c) PROVE Greeted(c)
  <2>1. ASSUME NEW i \in 1..Len(todo) PROVE todo[i] # Greet(c)
    <3>1. CASE i = 1 BY <1>2, <1>4, <3>1
    <3>2. CASE i # 1
      <4>1. PICK n \in 1..Len(todo') : n + 1 = i BY <1>2, <2>1, <3>2
      <4>2. todo'[n] = todo[i] BY <1>2, <4>1
      <4>. QED BY <1>4, <4>1, <4>2 DEF Greeted, Greet
    <3>. QED BY <3>1, <3>2
  <2>. QED BY <2>1 DEF Greeted
<1>. QED BY <1>3, <1>4 DEF Pushing

LEMMA NotGreeting ==
  ASSUME NEW e, e.do # "greet", NEW c
  PROVE  e # Greet(c)
BY DEF Greet

(* Work that neither broadcasts nor greets. *)
LEMMA WorkTold ==
  ASSUME HubConstants, RouteInv, DoLater \/ DoRemove,
         NEW a \in Topics, NEW r \in Rooms, NEW S, Told(a, r, S)
  PROVE  Told(a, r, S)'
<1>1. /\ Advance /\ members' \subseteq members /\ UNCHANGED <<broadcast, wire, send, view>>
      /\ Head(todo).do \notin {"push", "greet"}
  BY DEF DoLater, DoRemove, Doing, Advance, queues
<1>2. ~Pushing(a, r) BY <1>1 DEF Pushing
<1>3. ~Pushing(a, r)' /\ \A c \in Clients : Greeted(c)' => Greeted(c)
  BY <1>1, Advanced, NotGreeting
<1>4. \A c : Reached(c, a, r, S)' <=> Reached(c, a, r, S) BY <1>1 DEF Reached, Shows
<1>5. members \subseteq Clients BY DEF RouteInv, HubInv, DoorsInv, ConnectionsOK
<1>. QED BY <1>1, <1>2, <1>3, <1>4, <1>5 DEF Told

LEMMA DoPushTold ==
  ASSUME HubConstants, RouteInv, DoPush,
         NEW a \in Topics, NEW r \in Rooms, NEW S, Told(a, r, S)
  PROVE  Told(a, r, S)'
<1>1. /\ Advance /\ UNCHANGED <<members, wire, send, view>> /\ Head(todo).do = "push"
      /\ todo # <<>> /\ broadcast' = Append(broadcast, Head(todo).message)
  BY DEF DoPush, Doing, Advance
<1>2. PICK m : m = Head(todo).message OBVIOUS
<1>3. /\ m \in Messages /\ broadcast \in Seq(Messages) /\ members \subseteq Clients
  BY <1>2, FirstEntry
     DEF RouteInv, HubInv, DoorsInv, ConnectionsOK, QueuesOK, DoPush, Routed
<1>4. ~Pushing(a, r)' /\ \A c \in Clients : Greeted(c)' => Greeted(c)
  BY <1>1, Advanced, NotGreeting
<1>5. CASE About(m, a, r)
  <2>1. m.body \in S BY <1>1, <1>2, <1>5 DEF Told, Pushing
  <2>. QED BY <1>1, <1>2, <1>3, <1>4, <1>5, <2>1, SaidNow DEF Told
<1>6. CASE ~About(m, a, r)
  <2>1. ~Pushing(a, r) BY <1>1, <1>2, <1>6 DEF Pushing
  <2>2. Silent(broadcast, a, r) => Silent(broadcast', a, r)
    BY <1>1, <1>2, <1>3, <1>6, StillSilent
  <2>3. LastIn(broadcast, a, r, S) => LastIn(broadcast', a, r, S)
    BY <1>1, <1>2, <1>3, <1>6, StillLast
  <2>4. \A c : Reached(c, a, r, S)' <=> Reached(c, a, r, S) BY <1>1 DEF Reached, Shows
  <2>. QED BY <1>1, <1>3, <1>4, <2>1, <2>2, <2>3, <2>4 DEF Told
<1>. QED BY <1>5, <1>6

(* An event's own broadcast is on its way before anything older. *)
LEMMA BecomesTold ==
  ASSUME RouteInv, NEW m, Becomes(m), Head(todo).do \notin {"push", "greet"},
         UNCHANGED <<broadcast, wire, send, view, members>>, NEW a, NEW r, NEW S
  PROVE  /\ About(m, a, r) /\ m.body \in S => Told(a, r, S)'
         /\ ~About(m, a, r) /\ Told(a, r, S) => Told(a, r, S)'
<1>1. todo \in Seq(Allowed) /\ todo # <<>> BY DEF RouteInv, HubInv, Becomes
<1>2. PICK p : p = Push(m) OBVIOUS
<1>3. p.do = "push" /\ p.message = m BY <1>2 DEF Push
<1>4. /\ Len(todo') = Len(todo) /\ todo'[1] = p
      /\ \A i \in 1..Len(todo) : i # 1 => todo'[i] = todo[i]
  BY <1>1, <1>2, Replaced DEF Becomes
<1>5. Head(todo) = todo[1] /\ Len(todo) \in Nat /\ Len(todo) >= 1 BY <1>1
<1>6. todo' # <<>> /\ Head(todo') = p BY <1>1, <1>2 DEF Becomes
<1>7. Pushing(a, r)' <=> About(m, a, r) BY <1>3, <1>6 DEF Pushing
<1>8. ASSUME NEW c, Greeted(c)' PROVE Greeted(c)
  <2>1. todo[1] # Greet(c) BY <1>5, NotGreeting
  <2>2. PICK g : g = Greet(c) OBVIOUS
  <2>3. \A i \in 1..Len(todo') : todo'[i] # g BY <1>8, <2>2 DEF Greeted, Greet
  <2>. QED BY <1>4, <2>1, <2>2, <2>3 DEF Greeted
<1>9. ASSUME About(m, a, r), m.body \in S PROVE Told(a, r, S)'
  BY <1>3, <1>6, <1>7, <1>9 DEF Told
<1>10. ASSUME ~About(m, a, r), Told(a, r, S) PROVE Told(a, r, S)'
  <2>1. ~Pushing(a, r) BY DEF Pushing
  <2>2. \A c : Reached(c, a, r, S)' <=> Reached(c, a, r, S) BY DEF Reached, Shows
  <2>. QED BY <1>7, <1>8, <1>10, <2>1, <2>2 DEF Told
<1>. QED BY <1>9, <1>10

(* The topics' blank state fits, so that a client that has heard nothing is *)
(* right about who types, and about the cursors of a room without any.      *)
LEMMA BlankFits ==
  ASSUME HubConstants, RouteInv, NEW r \in Rooms, NEW c \in Clients, Unheard(c)
  PROVE  /\ Reached(c, "typing", r, Fitting("typing", r))
         /\ cursors[r] = NoCursors => Reached(c, "cursor", r, Fitting("cursor", r))
<1>1. Silent(send[c], "typing", r) /\ Silent(send[c], "cursor", r)
  <2>1. send[c] = <<>> BY DEF Unheard
  <2>2. /\ Silent(<<>>, "typing", r) /\ ~LastIn(<<>>, "typing", r, {})
        /\ Silent(<<>>, "cursor", r) /\ ~LastIn(<<>>, "cursor", r, {})
    BY NothingSaid
  <2>. QED BY <2>1, <2>2
<1>2. view[c].typing = {} /\ view[c].cursor = NoCursors BY DEF Unheard, Blank
<1>. QED BY <1>1, <1>2 DEF Reached, Shows, Fitting

(* The snapshot a newcomer gets is of the moment it is sent. *)
LEMMA DoGreetTold ==
  ASSUME HubConstants, RouteInv, DoGreet, NEW a \in Topics, NEW r \in Rooms,
         NEW S, S = Fitting(a, r), Told(a, r, S)
  PROVE  Told(a, r, S)'
<1>1. Advance /\ UNCHANGED <<members, closed, view, broadcast, wire>>
  BY DEF DoGreet, Doing, Advance, queues
<1>2. /\ Head(todo) \in Allowed /\ Head(todo).do = "greet"
      /\ Head(todo) = todo[1] /\ 1 \in 1..Len(todo)
  BY FirstEntry DEF DoGreet
<1>3. PICK c \in Clients : c = Head(todo).client BY <1>2, EntryShape
<1>4. Unheard(c) /\ Head(todo) = Greet(c)
  <2>1. Unheard(c) BY <1>2, <1>3 DEF RouteInv, WorkOrdered
  <2>2. Head(todo) \in [do: {"greet", "remove"}, client: Clients]
    BY <1>2 DEF Allowed, TodoEntries
  <2>. QED BY <1>2, <1>3, <2>1, <2>2 DEF Greet
<1>5. /\ ~Pushing(a, r) /\ ~Pushing(a, r)' /\ members \subseteq Clients
      /\ \A d \in Clients : Greeted(d)' /\ d # c => Greeted(d)
  <2>1. \A d : d # c => Head(todo) # Greet(d) BY <1>4 DEF Greet
  <2>2. ~Pushing(a, r) BY <1>2 DEF Pushing
  <2>. QED
    BY <1>1, <2>1, <2>2, Advanced DEF RouteInv, HubInv, DoorsInv, ConnectionsOK
<1>6. send \in [Clients -> Seq(Messages)] /\ SendCap >= 1 /\ SendCap \in Nat
      /\ send[c] = <<>>
  BY <1>4 DEF RouteInv, HubInv, DoorsInv, ConnectionsOK, HubConstants, Unheard
<1>7. PICK m : m = Message(RoomOf[c], UserOf[c], "cursor", cursors[RoomOf[c]]) OBVIOUS
<1>8. /\ send' = send \/ SendTo(c, m)
      /\ RoomOf[c] = r /\ cursors[r] # NoCursors => SendTo(c, m)
  BY <1>3, <1>7 DEF DoGreet, HubConstants
<1>9. ASSUME NEW d \in Clients, d # c, Reached(d, a, r, S) PROVE Reached(d, a, r, S)'
  <2>1. send'[d] = send[d] BY <1>6, <1>8, <1>9 DEF SendTo
  <2>. QED BY <1>1, <1>9, <2>1 DEF Reached, Shows
<1>10. ASSUME c \in members, RoomOf[c] = r PROVE Reached(c, a, r, S)'
  <2>1. c \notin closed
    BY <1>10 DEF RouteInv, HubInv, DoorsInv, MembersHaveOpenChannels
  <2>2. SendTo(c, m) => send'[c] = Append(<<>>, m) BY <1>6, <2>1 DEF SendTo
  <2>3. send'[c] \in {<<>>, Append(<<>>, m)} BY <1>6, <1>8, <2>2
  <2>4. <<>> \in Seq({m}) OBVIOUS
  <2>5. m.about = "cursor" /\ m.room = RoomOf[c] /\ m.body = cursors[RoomOf[c]]
    BY <1>7 DEF Message
  <2>6. view'[c] = view[c] BY <1>1
  <2>7. CASE a = "typing"
    <3>1. Silent(Append(<<>>, m), a, r)
      BY <2>4, <2>5, <2>7, StillSilent, NothingSaid DEF About
    <3>2. Silent(send'[c], a, r) BY <2>3, <3>1, NothingSaid
    <3>3. Shows(c, a) \in S
      BY <1>4, <2>7 DEF Unheard, Blank, Shows, Fitting
    <3>. QED BY <2>6, <3>2, <3>3 DEF Reached, Shows
  <2>8. CASE a = "cursor" /\ cursors[r] # NoCursors
    <3>1. send'[c] = Append(<<>>, m) BY <1>8, <1>10, <2>2, <2>8
    <3>2. About(m, a, r) /\ m.body \in S
      BY <1>10, <2>5, <2>8 DEF About, Fitting
    <3>3. m \in {m} OBVIOUS
    <3>4. LastIn(Append(<<>>, m), a, r, S) BY ONLY <2>4, <3>2, <3>3, SaidNow
    <3>. QED BY <3>1, <3>4 DEF Reached
  <2>9. CASE a = "cursor" /\ cursors[r] = NoCursors
    <3>1. send'[c] = send[c]
      BY <1>3, <1>10, <2>9 DEF DoGreet
    <3>2. Reached(c, a, r, S) BY <1>4, <2>9, BlankFits
    <3>. QED BY <2>6, <3>1, <3>2 DEF Reached, Shows
  <2>. QED BY <2>7, <2>8, <2>9 DEF Topics
<1>. QED BY <1>1, <1>5, <1>9, <1>10 DEF Told

(* A newcomer is greeted, or has nothing to be told. *)
LEMMA RegisterTold ==
  ASSUME HubConstants, RouteInv, NEW c \in Clients, Register(c),
         NEW a \in Topics, a = "cursor" => "cursor" \in Handlers, NEW r \in Rooms,
         NEW S, S = Fitting(a, r), Told(a, r, S)
  PROVE  Told(a, r, S)'
<1>1. /\ todo = <<>> /\ UNCHANGED <<broadcast, wire, send, view>>
      /\ members' = members \cup {c} /\ conn[c] = "new"
  BY DEF Register, AtSelect, queues
<1>2. Unheard(c)
  BY <1>1 DEF RouteInv, Newcomers, Registered
<1>3. PICK p : p = Push(Event) OBVIOUS
<1>4. PICK g : g = Greet(c) OBVIOUS
<1>5. p.do = "push" /\ p.message.about \notin Topics /\ g.do = "greet"
  BY <1>3, <1>4, NoNews DEF Push, Event, Greet
<1>6. PICK x \in {<<>>, <<p>>}, y \in {<<>>, <<g>>} :
        todo' = x \o y /\ ("cursor" \in Handlers => y = <<g>>)
  <2>1. PICK counted \in BOOLEAN :
          todo' = With("presence", IF counted THEN <<Push(Event)>> ELSE <<>>)
                  \o With("cursor", <<Greet(c)>>)
    BY DEF Register, Outcomes
  <2>. QED BY <1>3, <1>4, <2>1 DEF With
<1>7. x \in Seq({p, g}) /\ y \in Seq({p, g}) BY Single
<1>8. ~Pushing(a, r)'
  <2>1. todo' \in Seq({p, g}) BY <1>6, <1>7, Joined
  <2>2. todo' # <<>> => Head(todo') \in {p, g} BY <2>1, Taken
  <2>. QED BY <1>5, <2>2 DEF Pushing, About
<1>9. ASSUME a = "cursor" PROVE ~Greeted(c)'
  <2>1. y = <<g>> BY <1>6, <1>9
  <2>2. Len(y) = 1 /\ y[1] = g /\ Len(x) \in Nat BY <2>1, <1>7
  <2>3. /\ Len(todo') = Len(x) + 1
        /\ \A i \in 1..Len(todo') : todo'[i] = IF i <= Len(x) THEN x[i] ELSE y[i - Len(x)]
    BY <1>6, <1>7, <2>2, JoinedAt
  <2>4. ASSUME NEW k \in Nat, NEW l, l = k + 1
        PROVE  \E n \in 1..l : ~(n <= k) /\ n - k = 1
    <3>1. (k + 1) \in 1..l /\ ~(k + 1 <= k) /\ (k + 1) - k = 1 BY <2>4
    <3>. QED BY <3>1
  <2>5. PICK n \in 1..Len(todo') : ~(n <= Len(x)) /\ n - Len(x) = 1
    BY ONLY <2>2, <2>3, <2>4
  <2>6. todo'[n] = g BY ONLY <2>2, <2>3, <2>5
  <2>. QED BY <1>4, <2>6 DEF Greeted, Greet
<1>10. a = "typing" => Reached(c, a, r, S) BY <1>2, BlankFits
<1>. QED BY <1>1, <1>8, <1>9, <1>10, ToldEvent DEF Topics

(* Events that begin with plain work. *)
LEMMA PlainEventTold ==
  ASSUME HubConstants, RouteInv, Handle \/ \E c \in Clients : Unregister(c),
         NEW a \in Topics, NEW r \in Rooms, NEW S, Told(a, r, S)
  PROVE  Told(a, r, S)'
<1>1. todo' \in Seq(Plain)
  <2>1. CASE Handle
    <3>1. Sender \in Clients BY <2>1, TakenRoutes DEF Handle
    <3>. QED BY <2>1, <3>1, PlainEntries DEF Handle
  <2>2. ASSUME NEW c \in Clients, Unregister(c) PROVE todo' \in Seq(Plain)
    BY <2>2, UnregisterPlain
  <2>. QED BY <2>1, <2>2
<1>2. todo = <<>> /\ UNCHANGED <<broadcast, wire, send, view, members>>
  BY DEF Handle, Unregister, Take, AtSelect, queues
<1>. QED BY <1>1, <1>2, PlainQuiet, ToldEvent

(* What a check asked for by a client pushes is about no topic. *)
LEMMA CheckOfflineTold ==
  ASSUME CheckOffline, NEW a \in Topics, NEW r \in Rooms, NEW S, Told(a, r, S)
  PROVE  Told(a, r, S)'
<1>1. todo = <<>> /\ UNCHANGED <<broadcast, wire, send, view, members>>
  BY DEF CheckOffline, Take, AtSelect
<1>2. PICK p : p = Push(Event) OBVIOUS
<1>3. p.message.about \notin Topics BY <1>2, NoNews DEF Push, Event
<1>4. todo' = <<>> \/ todo' = <<p>> BY <1>2 DEF CheckOffline
<1>5. todo' # <<>> => Head(todo') = p BY <1>4
<1>6. ~Pushing(a, r)' BY <1>3, <1>5 DEF Pushing, About
<1>. QED BY <1>1, <1>6, ToldEvent

(* What is answered to one client is about no topic. *)
LEMMA AnswerTold ==
  ASSUME HubConstants, RouteInv, Answer,
         NEW a \in Topics, NEW r \in Rooms, NEW S, Told(a, r, S)
  PROVE  Told(a, r, S)'
<1>1. PICK c \in Clients : c = Sender BY TakenRoutes DEF Answer
<1>2. PICK m : m = News(0, None, UserOf[c]) OBVIOUS
<1>3. /\ m \in Messages /\ ~About(m, a, r)
      /\ send \in [Clients -> Seq(Messages)] /\ members \subseteq Clients
  <2>1. m \in Messages BY <1>2, NewsMessages DEF HubConstants
  <2>2. m.about \notin Topics BY <1>2, NoNews
  <2>. QED BY <2>1, <2>2 DEF About, RouteInv, HubInv, DoorsInv, ConnectionsOK
<1>4. SendTo(c, m) /\ UNCHANGED <<members, view, broadcast, wire, todo>>
  BY <1>1, <1>2 DEF Answer, rooms
<1>5. ASSUME NEW d \in Clients, Reached(d, a, r, S) PROVE Reached(d, a, r, S)'
  <2>1. send'[d] = send[d] \/ send'[d] = Append(send[d], m)
    BY <1>3, <1>4 DEF SendTo
  <2>2. Silent(send[d], a, r) => Silent(send'[d], a, r)
    <3>1. CASE send'[d] = Append(send[d], m) BY <1>3, <3>1, StillSilent
    <3>. QED BY <2>1, <3>1
  <2>3. LastIn(send[d], a, r, S) => LastIn(send'[d], a, r, S)
    <3>1. CASE send'[d] = Append(send[d], m) BY <1>3, <3>1, StillLast
    <3>. QED BY <2>1, <3>1
  <2>. QED BY <1>4, <1>5, <2>2, <2>3 DEF Reached, Shows
<1>6. /\ Pushing(a, r)' <=> Pushing(a, r)
      /\ \A d : Greeted(d)' <=> Greeted(d)
  BY <1>4 DEF Pushing, Greeted
<1>. QED BY <1>3, <1>4, <1>5, <1>6 DEF Told

(* The cursors of a room change with the broadcast that tells it. *)
LEMMA DoCursorTold ==
  ASSUME HubConstants, RouteInv, HubInv', DoCursor, NEW a \in Topics, NEW r \in Rooms,
         Told(a, r, Fitting(a, r))
  PROVE  Told(a, r, Fitting(a, r))'
<1>1. Head(todo) \in Allowed /\ Head(todo).do = "cursor" /\ todo # <<>>
  BY FirstEntry DEF DoCursor
<1>2. PICK c \in Clients : c = Head(todo).client BY <1>1, EntryShape
<1>3. PICK q \in Rooms : q = RoomOf[c] BY <1>1, <1>2, EntryShape
<1>4. PICK m : m = Message(q, None, "cursor", cursors'[q]) OBVIOUS
<1>5. m.about = "cursor" /\ m.room = q /\ m.body = cursors'[q] BY <1>4 DEF Message
<1>6. /\ Becomes(m) /\ UNCHANGED <<members, send, view, broadcast, wire, typists>>
      /\ cursors' = [cursors EXCEPT ![q][UserOf[c]] = Head(todo).point]
  BY <1>1, <1>2, <1>3, <1>4 DEF DoCursor, Becomes, queues
<1>7. PICK S : S = Fitting(a, r)' OBVIOUS
<1>8. CASE About(m, a, r)
  <2>1. m.body \in S BY <1>5, <1>7, <1>8 DEF About, Fitting
  <2>2. Told(a, r, S)' BY <1>1, <1>6, <1>8, <2>1, BecomesTold
  <2>. QED BY <1>7, <2>2 DEF Told, Reached
<1>9. CASE ~About(m, a, r)
  <2>1. a = "typing" \/ r # q BY <1>5, <1>9 DEF About, Topics
  <2>2. cursors \in [Rooms -> Positions] BY DEF RouteInv, HubInv, RoomsOK
  <2>3. S = Fitting(a, r) BY <1>6, <1>7, <2>1, <2>2 DEF Fitting
  <2>4. Told(a, r, S)' BY <1>1, <1>6, <1>9, <2>3, BecomesTold
  <2>. QED BY <1>7, <2>4 DEF Told, Reached
<1>. QED BY <1>8, <1>9

(* And so do its typing users. *)
LEMMA DoTypingTold ==
  ASSUME HubConstants, Outcomes = {TRUE}, RouteInv, HubInv', DoTyping,
         NEW a \in Topics, NEW r \in Rooms, Told(a, r, Fitting(a, r))
  PROVE  Told(a, r, Fitting(a, r))'
<1>1. Head(todo) \in Allowed /\ Head(todo).do = "typing" /\ todo # <<>>
  BY FirstEntry DEF DoTyping
<1>2. PICK c \in Clients : c = Head(todo).client BY <1>1, EntryShape
<1>3. PICK q \in Rooms : q = RoomOf[c] BY <1>1, <1>2, EntryShape
<1>4. PICK m : m = Message(q, None, "typing", typists'[q]) OBVIOUS
<1>5. m.about = "typing" /\ m.room = q /\ m.body = typists'[q] BY <1>4 DEF Message
<1>6. /\ Becomes(m) /\ UNCHANGED <<members, send, view, broadcast, wire, cursors>>
      /\ \E new : typists' = [typists EXCEPT ![q] = new]
  BY <1>1, <1>2, <1>3, <1>4 DEF DoTyping, Becomes, queues
<1>7. PICK S : S = Fitting(a, r)' OBVIOUS
<1>8. CASE About(m, a, r)
  <2>1. m.body \in S BY <1>5, <1>7, <1>8 DEF About, Fitting
  <2>2. Told(a, r, S)' BY <1>1, <1>6, <1>8, <2>1, BecomesTold
  <2>. QED BY <1>7, <2>2 DEF Told, Reached
<1>9. CASE ~About(m, a, r)
  <2>1. a = "cursor" \/ r # q BY <1>5, <1>9 DEF About, Topics
  <2>2. typists \in [Rooms -> SUBSET Users] BY DEF RouteInv, HubInv, RoomsOK
  <2>3. S = Fitting(a, r) BY <1>6, <1>7, <2>1, <2>2 DEF Fitting, Topics
  <2>4. Told(a, r, S)' BY <1>1, <1>6, <1>9, <2>3, BecomesTold
  <2>. QED BY <1>7, <2>4 DEF Told, Reached
<1>. QED BY <1>8, <1>9

(* The hub keeps what it routes in order. *)
LEMMA InitRoutes == HubConstants /\ Init => RouteInv
<1> SUFFICES ASSUME HubConstants, Init PROVE RouteInv
  OBVIOUS
<1>1. HubInv BY InitHub
<1>2. ChannelsRouted BY DEF Init, ChannelsRouted
<1>3. WorkOrdered BY DEF Init, WorkOrdered
<1>4. Newcomers BY DEF Init, Newcomers, Unheard
<1>. QED BY <1>1, <1>2, <1>3, <1>4 DEF RouteInv

LEMMA NextRoutes == HubConstants /\ RouteInv /\ [Next]_vars => RouteInv'
<1> SUFFICES ASSUME HubConstants, RouteInv, [Next]_vars PROVE RouteInv'
  OBVIOUS
<1>0. HubInv' BY NextHub DEF RouteInv
<1>1. SUFFICES Routes'
  BY <1>0 DEF Routes, RouteInv
<1>2. CASE UNCHANGED vars
  BY <1>2, QuietRoutes DEF vars, queues
<1>3. CASE HubStep
  <2>1. ASSUME NEW c \in Clients, Register(c) \/ Unregister(c) PROVE Routes'
    BY <2>1, RegisterRoutes, UnregisterRoutes
  <2>2. CASE Ignore \/ StartTimer
    <3>1. UNCHANGED <<send, view, broadcast, wire, todo>>
      BY <2>2 DEF Ignore, StartTimer
    <3>. QED BY <2>2, <3>1, QuietRoutes
  <2>3. CASE Answer \/ Handle \/ CheckOffline \/ Fanout \/ FromRedis
    BY <2>3, AnswerRoutes, HandleRoutes, CheckOfflineRoutes, FanoutRoutes, FromRedisRoutes
  <2>4. CASE DoPush \/ DoLater \/ DoGreet \/ DoTyping \/ DoCursor \/ DoRemove
    BY <1>0, <2>4, WorkRoutes, DoGreetRoutes, DoTypingRoutes, DoCursorRoutes
  <2> QED
    BY <1>3, <2>1, <2>2, <2>3, <2>4 DEF HubStep
<1>4. CASE Stop
  <2>1. UNCHANGED <<send, view, broadcast, wire, todo>> BY <1>4 DEF Stop, queues
  <2>. QED BY <1>4, <2>1, QuietRoutes
<1>5. ASSUME NEW c \in Clients,
             \/ ReadError(c) \/ Write(c) \/ WriteError(c) \/ WriterDone(c)
             \/ \E kind \in Kinds : Read(c, kind)
      PROVE  Routes'
  <2>1. CASE Write(c) BY <2>1, WriteRoutes
  <2>2. CASE ReadError(c) \/ WriterEnds(c) \/ \E kind \in Kinds : Read(c, kind)
    <3>1. UNCHANGED <<send, view, broadcast, wire, todo>>
      BY <2>2 DEF ReadError, WriterEnds, Read, queues
    <3>. QED BY <2>2, <3>1, QuietRoutes
  <2> QED
    BY <1>5, <2>1, <2>2 DEF WriteError, WriterDone
<1>6. ASSUME NEW u \in Users,
             TimerAbort(u) \/ TimerPush(u) \/ Publish(News(news + 1, None, u))
      PROVE  Routes'
  <2>1. CASE TimerAbort(u)
    <3>1. UNCHANGED <<send, view, broadcast, wire, todo>> BY <2>1 DEF TimerAbort, queues
    <3>. QED BY <2>1, <3>1, QuietRoutes
  <2> QED
    BY <1>6, <2>1, ElsewhereRoutes
<1>7. ASSUME NEW r \in Rooms, Publish(News(news + 1, r, None)) \/ ExpireTyping(r)
      PROVE  Routes'
  <2>1. CASE ExpireTyping(r)
    <3>1. UNCHANGED <<send, view, broadcast, wire, todo>> BY <2>1 DEF ExpireTyping, queues
    <3>. QED BY <2>1, <3>1, QuietRoutes
  <2> QED
    BY <1>7, <2>1, ElsewhereRoutes
<1> QED
  BY <1>2, <1>3, <1>4, <1>5, <1>6, <1>7 DEF Next

(* Only DoCursor, DoTyping and the passing of a TTL change what fits. *)
LEMMA FittingKept ==
  ASSUME [Next]_vars, NEW a \in Topics, ~DoCursor, ~DoTyping,
         a = "typing" => ~\E q \in Rooms : ExpireTyping(q), NEW r \in Rooms
  PROVE  Fitting(a, r)' = Fitting(a, r)
<1>1. UNCHANGED cursors /\ (a = "typing" => UNCHANGED typists)
  BY DEF Next, vars, rooms, HubStep, Register, Unregister, Answer, Ignore, Handle, CheckOffline, Fanout,
         FromRedis, StartTimer, DoPush, DoLater, DoGreet, DoRemove, Stop, ReadError, Write,
         WriteError, WriterDone, WriterEnds, Read, TimerAbort, TimerPush, Publish, ExpireTyping
<1>. QED BY <1>1 DEF Fitting, Topics

LEMMA ReliableSteps ==
  ASSUME NEW a, Reliable(a)
  PROVE  /\ Outcomes = {TRUE} /\ (a = "cursor" => "cursor" \in Handlers)
         /\ a = "typing" => \A q \in Rooms : ~ExpireTyping(q)
BY DEF Reliable, Outcomes, ExpireTyping

LEMMA InitTold == ASSUME HubConstants, NEW a, Init PROVE ToldInv(a)
<1>1. RouteInv BY InitRoutes
<1>2. todo = <<>> /\ broadcast = <<>> /\ wire = <<>> /\ members = {} BY DEF Init
<1>3. ASSUME NEW r \in Rooms PROVE Told(a, r, Fitting(a, r))
  BY <1>2, NothingSaid DEF Told, Pushing
<1>. QED BY <1>1, <1>3 DEF ToldInv

(* Every step that changes no room's cursors and no typing users. *)
LEMMA OtherTold ==
  ASSUME HubConstants, NEW a \in Topics, Reliable(a), RouteInv, [Next]_vars,
         ~DoCursor, ~DoTyping, NEW r \in Rooms, NEW S, S = Fitting(a, r), Told(a, r, S)
  PROVE  Told(a, r, S)'
<1>0. /\ Outcomes = {TRUE} /\ (a = "cursor" => "cursor" \in Handlers)
  BY ReliableSteps
<1>1. CASE /\ members' \subseteq members
           /\ UNCHANGED <<broadcast, wire, todo, send, view>>
  BY <1>1, ToldKept
<1>2. CASE HubStep
  <2>1. ASSUME NEW c \in Clients, Register(c) PROVE Told(a, r, S)'
    BY <1>0, <2>1, RegisterTold
  <2>2. CASE Handle \/ \E c \in Clients : Unregister(c)
    BY <2>2, PlainEventTold
  <2>3. CASE Ignore \/ StartTimer
    <3>1. UNCHANGED <<send, view, broadcast, wire, todo, members>>
      BY <2>3 DEF Ignore, StartTimer
    <3>. QED BY <1>1, <3>1
  <2>4. CASE Answer BY <2>4, AnswerTold
  <2>9. CASE CheckOffline BY <2>9, CheckOfflineTold
  <2>5. CASE Fanout \/ FromRedis BY <1>0, <2>5, FanoutTold, FromRedisTold
  <2>6. CASE DoLater \/ DoRemove BY <2>6, WorkTold
  <2>7. CASE DoPush BY <2>7, DoPushTold
  <2>8. CASE DoGreet BY <2>8, DoGreetTold
  <2>. QED
    BY <1>2, <2>1, <2>2, <2>3, <2>4, <2>5, <2>6, <2>7, <2>8, <2>9 DEF HubStep
<1>3. ASSUME NEW c \in Clients,
             \/ ReadError(c) \/ Write(c) \/ WriteError(c) \/ WriterDone(c)
             \/ \E kind \in Kinds : Read(c, kind)
      PROVE  Told(a, r, S)'
  <2>1. CASE Write(c) BY <2>1, WriteTold
  <2>2. CASE ReadError(c) \/ WriterEnds(c) \/ \E kind \in Kinds : Read(c, kind)
    <3>1. UNCHANGED <<send, view, broadcast, wire, todo, members>>
      BY <2>2 DEF ReadError, WriterEnds, Read, queues
    <3>. QED BY <1>1, <3>1
  <2> QED
    BY <1>3, <2>1, <2>2 DEF WriteError, WriterDone
<1>4. CASE \/ \E u \in Users : TimerPush(u) \/ Publish(News(news + 1, None, u))
           \/ \E q \in Rooms : Publish(News(news + 1, q, None))
  BY <1>4, ElsewhereTold
<1>5. CASE \/ Stop \/ UNCHANGED vars
           \/ \E u \in Users : TimerAbort(u)
           \/ \E q \in Rooms : ExpireTyping(q)
  <2>1. UNCHANGED <<send, view, broadcast, wire, todo, members>>
    BY <1>5 DEF Stop, vars, queues, TimerAbort, ExpireTyping
  <2>. QED BY <1>1, <2>1
<1>. QED
  BY <1>2, <1>3, <1>4, <1>5 DEF Next

LEMMA NextTold ==
  ASSUME HubConstants, NEW a \in Topics, Reliable(a), ToldInv(a), [Next]_vars
  PROVE  ToldInv(a)'
<1>0. RouteInv /\ RouteInv' /\ HubInv' BY NextRoutes DEF ToldInv, RouteInv
<1>1. ASSUME NEW r \in Rooms PROVE Told(a, r, Fitting(a, r))'
  <2>0. Told(a, r, Fitting(a, r)) BY <1>1 DEF ToldInv
  <2>1. Outcomes = {TRUE} BY ReliableSteps
  <2>2. CASE DoCursor BY <1>0, <2>0, <2>2, DoCursorTold
  <2>3. CASE DoTyping BY <1>0, <2>0, <2>1, <2>3, DoTypingTold
  <2>4. CASE ~DoCursor /\ ~DoTyping
    <3>1. PICK S : S = Fitting(a, r) OBVIOUS
    <3>2. Told(a, r, S)' BY <1>0, <2>0, <2>4, <3>1, OtherTold
    <3>3. a = "typing" => ~\E q \in Rooms : ExpireTyping(q) BY ReliableSteps
    <3>4. Fitting(a, r)' = Fitting(a, r) BY <2>4, <3>3, FittingKept
    <3>. QED BY <3>1, <3>2, <3>4 DEF Told, Reached
  <2>. QED BY <2>2, <2>3, <2>4
<1>. QED BY <1>0, <1>1 DEF ToldInv

(* A quiet hub has nothing more to say: what its clients show is right. *)
LEMMA ToldShows ==
  ASSUME HubConstants, NEW a \in Topics, ToldInv(a), NEW c \in Clients, UpToDate(c)
  PROVE  Shows(c, a) \in Fitting(a, RoomOf[c])
<1>1. PICK r \in Rooms : r = RoomOf[c] BY DEF UpToDate, HubConstants
<1>2. /\ todo = <<>> /\ broadcast = <<>> /\ wire = <<>> /\ send[c] = <<>> /\ c \in members
  BY DEF UpToDate, Quiet
<1>3. Told(a, r, Fitting(a, r)) BY DEF ToldInv
<1>4. PICK S : S = Fitting(a, r) OBVIOUS
<1>5. /\ ~LastIn(broadcast, a, r, S) /\ ~LastIn(wire, a, r, S) /\ ~LastIn(send[c], a, r, S)
  BY <1>2, NothingSaid
<1>6. ~Pushing(a, r) /\ Greeted(c) BY <1>2 DEF Pushing, Greeted
<1>7. Reached(c, a, r, S) BY <1>1, <1>2, <1>3, <1>4, <1>5, <1>6 DEF Told
<1>. QED BY <1>1, <1>4, <1>5, <1>7 DEF Reached

(* As long as Redis works and the cursor handler is registered, a client of a *)
(* room that has written out all it was sent shows the cursors the hub holds, *)
(* whatever was dropped, greeted, pushed and returned from Redis meanwhile.   *)
THEOREM CursorsCaughtUp ==
  ASSUME Reliable("cursor")
  PROVE  Spec => []CursorsConverge
<1>1. "cursor" \in Topics BY DEF Topics
<1>2. Init => ToldInv("cursor") BY HubConstants, InitTold
<1>3. ToldInv("cursor") /\ [Next]_vars => ToldInv("cursor")'
  BY <1>1, HubConstants, NextTold
<1>4. ToldInv("cursor") => CursorsConverge
  <2>1. ASSUME ToldInv("cursor"), NEW c \in Clients, UpToDate(c)
        PROVE  view[c].cursor = cursors[RoomOf[c]]
    <3>1. Shows(c, "cursor") \in Fitting("cursor", RoomOf[c])
      BY <1>1, <2>1, HubConstants, ToldShows
    <3>. QED BY <3>1 DEF Shows, Fitting
  <2>. QED BY <2>1 DEF CursorsConverge
<1>. QED BY <1>2, <1>3, <1>4, PTL DEF Spec

(* As long as Redis works and no typing key expires, nobody is shown as       *)
(* typing to a client that is up to date unless the store says so.            *)
THEOREM TypingCaughtUp ==
  ASSUME Reliable("typing")
  PROVE  Spec => []TypingShownIsCurrent
<1>1. "typing" \in Topics BY DEF Topics
<1>2. Init => ToldInv("typing") BY HubConstants, InitTold
<1>3. ToldInv("typing") /\ [Next]_vars => ToldInv("typing")'
  BY <1>1, HubConstants, NextTold
<1>4. ToldInv("typing") => TypingShownIsCurrent
  <2>1. ASSUME ToldInv("typing"), NEW c \in Clients, UpToDate(c)
        PROVE  view[c].typing \subseteq typists[RoomOf[c]]
    <3>1. Shows(c, "typing") \in Fitting("typing", RoomOf[c])
      BY <1>1, <2>1, HubConstants, ToldShows
    <3>. QED BY <3>1 DEF Shows, Fitting
  <2>. QED BY <2>1 DEF TypingShownIsCurrent
<1>. QED BY <1>2, <1>3, <1>4, PTL DEF Spec

-----------------------------------------------------------------------------
(* A connection that ended is let go of. *)

(* The hub has still to remove the connection. *)
Owed(c) == \E i \in 1..Len(todo) : todo[i] = Remove(c)

EndedInv == HubInv /\ \A c \in Clients : conn[c] = "gone" => c \in closed \/ Owed(c)

(* The first entry is done: only a removal could have been lost with it. *)
LEMMA StillOwed ==
  ASSUME HubInv, NEW c \in Clients, Owed(c), Head(todo) # Remove(c),
         Advance \/ \E m : Becomes(m)
  PROVE  Owed(c)'
<1>1. todo \in Seq(Allowed) /\ todo # <<>> BY DEF HubInv, Advance, Becomes
<1>2. PICK g : g = Remove(c) OBVIOUS
<1>3. PICK i \in 1..Len(todo) : todo[i] = g BY <1>2 DEF Owed
<1>4. i # 1
  <2>1. Head(todo) = todo[1] BY <1>1
  <2>. QED BY <1>2, <1>3, <2>1
<1>5. CASE Advance
  <2>1. /\ Len(todo') = Len(todo) - 1 /\ Len(todo) \in Nat
        /\ \A k \in 1..Len(todo') : todo'[k] = todo[k + 1]
    BY <1>1, <1>5 DEF Advance
  <2>2. PICK n \in 1..Len(todo') : n + 1 = i BY <1>3, <1>4, <2>1
  <2>3. todo'[n] = g BY <1>3, <2>1, <2>2
  <2>. QED BY <1>2, <2>3 DEF Owed, Remove
<1>6. ASSUME NEW m, Becomes(m) PROVE Owed(c)'
  <2>1. PICK p : p = Push(m) OBVIOUS
  <2>2. /\ Len(todo') = Len(todo)
        /\ \A k \in 1..Len(todo) : k # 1 => todo'[k] = todo[k]
    BY <1>1, <1>6, <2>1, Replaced DEF Becomes
  <2>3. i \in 1..Len(todo') /\ todo'[i] = g BY <1>3, <1>4, <2>2
  <2>. QED BY <1>2, <2>3 DEF Owed, Remove
<1>. QED BY <1>5, <1>6

LEMMA UnregisterOwes ==
  ASSUME HubConstants, NEW c \in Clients, Unregister(c)
  PROVE  Owed(c)'
<1>1. PICK q \in Seq(Plain) : todo' = q \o <<Remove(c)>> BY UnregisterWork
<1>2. PICK g : g = Remove(c) OBVIOUS
<1>3. <<g>> \in Seq(Plain) BY <1>2, PlainEntries
<1>4. Len(<<g>>) = 1 /\ <<g>>[1] = g /\ Len(q) \in Nat OBVIOUS
<1>5. /\ Len(todo') = Len(q) + 1
      /\ \A i \in 1..Len(todo') : todo'[i] = IF i <= Len(q) THEN q[i] ELSE <<g>>[i - Len(q)]
  BY <1>1, <1>2, <1>3, <1>4, JoinedAt
<1>6. ASSUME NEW k \in Nat, NEW l, l = k + 1
      PROVE  \E n \in 1..l : ~(n <= k) /\ n - k = 1
  <2>1. (k + 1) \in 1..l /\ ~(k + 1 <= k) /\ (k + 1) - k = 1 BY <1>6
  <2>. QED BY <2>1
<1>7. PICK n \in 1..Len(todo') : ~(n <= Len(q)) /\ n - Len(q) = 1
  BY ONLY <1>4, <1>5, <1>6
<1>8. todo'[n] = g BY ONLY <1>4, <1>5, <1>7
<1>. QED BY <1>2, <1>8 DEF Owed, Remove

LEMMA EndedStep == HubConstants /\ EndedInv /\ [Next]_vars => EndedInv'
<1> SUFFICES ASSUME HubConstants, EndedInv, [Next]_vars, NEW c \in Clients, conn'[c] = "gone"
             PROVE  c \in closed' \/ Owed(c)'
  BY NextHub DEF EndedInv
<1>1. HubInv /\ (conn[c] = "gone" => c \in closed \/ Owed(c)) BY DEF EndedInv
<1>2. ASSUME closed \subseteq closed', conn[c] = "gone",
             todo = <<>> \/ todo' = todo
      PROVE  c \in closed' \/ Owed(c)'
  <2>1. todo = <<>> => ~Owed(c) BY DEF Owed
  <2>. QED BY <1>1, <1>2, <2>1 DEF Owed
<1>3. CASE DoPush \/ DoLater \/ DoGreet \/ DoTyping \/ DoCursor \/ DoRemove
  <2>1. todo # <<>> /\ closed \subseteq closed' /\ conn[c] = "gone"
    BY <1>3 DEF DoPush, DoLater, DoGreet, DoTyping, DoCursor, DoRemove, Doing
  <2>2. Advance \/ \E m : Becomes(m)
    <3>1. todo \in Seq(Allowed) BY <1>1 DEF HubInv
    <3>2. Tail(todo) \in Seq(Allowed) BY <2>1, <3>1, Taken
    <3>3. <<>> \o Tail(todo) = Tail(todo) BY <3>2
    <3>4. CASE DoTyping BY <2>1, <3>3, <3>4 DEF DoTyping, Advance, Becomes
    <3>5. CASE DoCursor BY <2>1, <3>5 DEF DoCursor, Advance, Becomes
    <3>6. CASE DoPush \/ DoLater \/ DoGreet \/ DoRemove
      BY <2>1, <3>6 DEF DoPush, DoLater, DoGreet, DoRemove, Advance
    <3>. QED BY <1>3, <3>4, <3>5, <3>6
  <2>3. Head(todo) = Remove(c) => c \in closed'
    <3>1. PICK g : g = Remove(c) OBVIOUS
    <3>2. g.do = "remove" /\ g.client = c BY <3>1 DEF Remove
    <3>3. CASE DoRemove
      <4>1. closed' = closed \cup {Head(todo).client} BY <3>3 DEF DoRemove
      <4>. QED BY <3>1, <3>2, <4>1
    <3>4. CASE DoPush \/ DoLater \/ DoGreet \/ DoTyping \/ DoCursor
      <4>1. Head(todo).do # "remove"
        BY <3>4 DEF DoPush, DoLater, DoGreet, DoTyping, DoCursor, Doing
      <4>. QED BY <3>1, <3>2, <4>1
    <3>. QED BY <1>3, <3>3, <3>4
  <2>. QED BY <1>1, <2>1, <2>2, <2>3, StillOwed
<1>4. CASE \E d \in Clients : Unregister(d)
  <2>1. PICK d \in Clients : Unregister(d) BY <1>4
  <2>2. CASE d = c BY <2>1, <2>2, UnregisterOwes
  <2>3. CASE d # c
    <3>1. conn[c] = "gone" /\ todo = <<>> /\ closed' = closed
      BY <2>1, <2>3 DEF Unregister, AtSelect, EndedInv, HubInv, DoorsInv, ConnectionsOK
    <3>. QED BY <1>2, <3>1
  <2>. QED BY <2>2, <2>3
<1>5. CASE ~(\/ DoPush \/ DoLater \/ DoGreet \/ DoTyping \/ DoCursor \/ DoRemove
             \/ \E d \in Clients : Unregister(d))
  <2>1. conn[c] = "gone"
    BY <1>1, <1>5 DEF Next, HubStep, Register, Answer, Ignore, Handle, CheckOffline, Fanout,
         FromRedis, StartTimer, Stop, ReadError, Write, WriteError, WriterDone, WriterEnds, Read,
         TimerAbort, TimerPush, Publish, ExpireTyping, vars, HubInv, DoorsInv, ConnectionsOK
  <2>2. closed \subseteq closed'
    BY <1>5 DEF Next, HubStep, Register, Answer, Ignore, Handle, CheckOffline, Fanout,
         FromRedis, StartTimer, Stop, ReadError, Write, WriteError, WriterDone, WriterEnds, Read,
         TimerAbort, TimerPush, Publish, ExpireTyping, vars, DeliverLocally
  <2>3. todo = <<>> \/ todo' = todo
    BY <1>5 DEF Next, HubStep, Register, Answer, Ignore, Handle, CheckOffline, Fanout,
         FromRedis, StartTimer, Stop, ReadError, Write, WriteError, WriterDone, WriterEnds, Read,
         TimerAbort, TimerPush, Publish, ExpireTyping, vars, Take, AtSelect
  <2>. QED BY <1>2, <2>1, <2>2, <2>3
<1>. QED BY <1>3, <1>4, <1>5

(* Whenever the hub is back at its select, every connection whose reader has  *)
(* left (readPump, Unregister) is in no room and its send channel is closed:  *)
(* no writePump is left waiting for a channel that stays open.                *)
THEOREM EndedAreLetGo ==
  Spec => [](todo = <<>> => \A c \in Clients : conn[c] = "gone" => c \in closed \ members)
<1>1. Init => EndedInv
  <2>1. Init => \A c \in Clients : conn[c] # "gone" BY DEF Init
  <2>. QED BY <2>1, HubConstants, InitHub DEF EndedInv
<1>2. EndedInv /\ [Next]_vars => EndedInv' BY HubConstants, EndedStep
<1>3. EndedInv => (todo = <<>> => \A c \in Clients : conn[c] = "gone" => c \in closed \ members)
  <2> SUFFICES ASSUME EndedInv, todo = <<>>, NEW c \in Clients, conn[c] = "gone"
               PROVE  c \in closed \ members
    OBVIOUS
  <2>1. ~Owed(c) BY DEF Owed
  <2>2. c \in closed BY <2>1 DEF EndedInv
  <2>. QED BY <2>2 DEF EndedInv, HubInv, DoorsInv, MembersHaveOpenChannels
<1>. QED BY <1>1, <1>2, <1>3, PTL DEF Spec
=============================================================================
