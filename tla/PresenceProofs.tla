--------------------------- MODULE PresenceProofs ---------------------------
(***************************************************************************)
(* The presence counter for any number of users, connections and           *)
(* processes.  CounterInv is inductive: each step of a connection adds to  *)
(* or takes from the set Connected exactly what it adds to or takes from   *)
(* the counter, and without faults no key is ever old enough to expire.    *)
(*                                                                         *)
(* At the end, what is said last of a user: WordInv follows a departure    *)
(* through its offline check and the hub's queue to what everyone is told. *)
(***************************************************************************)
EXTENDS Presence, FiniteSetTheorems, TLAPS

Up == {"joining", "up", "left"}

Types ==
  /\ phase \in [Conns -> Phases]
  /\ count \in [Users -> Nat]
  /\ ttl \in [Users -> {"new", "old", "none"}]

Lossless == Faults \cap {"crash", "redis"} = {}

CounterInv ==
  /\ Types
  /\ Lossless => \A u \in Users : count[u] <= Cardinality(Connected(u))
  /\ Faults = {} => \A u \in Users : count[u] = Cardinality(Connected(u)) /\ ttl[u] = "new"
  /\ "redis" \notin Faults => \A u \in Users : ttl[u] # "none"

-----------------------------------------------------------------------------
(* How the set of counted connections changes with one connection's phase. *)

LEMMA CountedFinite ==
  ASSUME NEW ph, NEW u
  PROVE  IsFiniteSet(Counted(ph, u)) /\ Cardinality(Counted(ph, u)) \in Nat
<1>1. Counted(ph, u) \subseteq Conns
  BY DEF Counted
<1>2. IsFiniteSet(Counted(ph, u))
  BY <1>1, PresenceConstants, FS_Subset
<1> QED
  BY <1>2, FS_CardinalityType

(* A move between two counted phases changes nothing. *)
LEMMA CountedSame ==
  ASSUME NEW ph \in [Conns -> Phases], NEW c \in Conns, NEW s \in Up, ph[c] \in Up,
         NEW u
  PROVE  Counted([ph EXCEPT ![c] = s], u) = Counted(ph, u)
BY DEF Counted, Up

LEMMA CountedJoins ==
  ASSUME NEW ph \in [Conns -> Phases], NEW c \in Conns, NEW s \in Up, ph[c] \notin Up
  PROVE  /\ Cardinality(Counted([ph EXCEPT ![c] = s], UserOf[c]))
              = Cardinality(Counted(ph, UserOf[c])) + 1
         /\ \A u \in Users \ {UserOf[c]} : Counted([ph EXCEPT ![c] = s], u) = Counted(ph, u)
<1> DEFINE before == Counted(ph, UserOf[c])
           after  == Counted([ph EXCEPT ![c] = s], UserOf[c])
<1>1. after = before \cup {c} /\ c \notin before
  BY DEF Counted, Up
<1>2. Cardinality(after) = Cardinality(before) + 1
  <2>1. IsFiniteSet(before)
    BY CountedFinite
  <2> HIDE DEF before, after
  <2>2. Cardinality(before \cup {c}) = Cardinality(before) + 1
    BY <1>1, <2>1, FS_AddElement
  <2> QED
    BY <1>1, <2>2
<1>3. \A u \in Users \ {UserOf[c]} : Counted([ph EXCEPT ![c] = s], u) = Counted(ph, u)
  BY DEF Counted, Up
<1> QED
  BY <1>2, <1>3

LEMMA CountedLeaves ==
  ASSUME NEW ph \in [Conns -> Phases], NEW c \in Conns, NEW s \in Phases \ Up, ph[c] \in Up
  PROVE  /\ Cardinality(Counted([ph EXCEPT ![c] = s], UserOf[c]))
              = Cardinality(Counted(ph, UserOf[c])) - 1
         /\ \A u \in Users \ {UserOf[c]} : Counted([ph EXCEPT ![c] = s], u) = Counted(ph, u)
<1> DEFINE before == Counted(ph, UserOf[c])
           after  == Counted([ph EXCEPT ![c] = s], UserOf[c])
<1>1. after = before \ {c} /\ c \in before
  BY DEF Counted, Up
<1>2. Cardinality(after) = Cardinality(before) - 1
  <2>1. IsFiniteSet(before)
    BY CountedFinite
  <2> HIDE DEF before, after
  <2>2. Cardinality(before \ {c}) = Cardinality(before) - 1
    BY <1>1, <2>1, FS_RemoveElement
  <2> QED
    BY <1>1, <2>2
<1>3. \A u \in Users \ {UserOf[c]} : Counted([ph EXCEPT ![c] = s], u) = Counted(ph, u)
  BY DEF Counted, Up
<1> QED
  BY <1>2, <1>3

(* A step that leaves the counter, the TTLs and the counted set alone. *)
LEMMA CounterUntouched ==
  ASSUME CounterInv, phase' \in [Conns -> Phases], UNCHANGED <<count, ttl>>,
         \A u \in Users : Counted(phase', u) = Counted(phase, u)
  PROVE  CounterInv'
BY DEF CounterInv, Types, Connected, Lossless

-----------------------------------------------------------------------------

LEMMA InitCounter == Init => CounterInv
<1> SUFFICES ASSUME Init PROVE CounterInv
  OBVIOUS
<1>1. Types
  BY DEF Init, Types, Phases
<1>2. \A u \in Users : Connected(u) = {}
  BY DEF Init, Connected, Counted
<1>3. \A u \in Users : Cardinality(Connected(u)) = 0
  BY <1>2, FS_EmptySet
<1> QED
  BY <1>1, <1>3 DEF CounterInv, Init

LEMMA NextCounter == CounterInv /\ [Next]_vars => CounterInv'
<1> SUFFICES ASSUME CounterInv, [Next]_vars PROVE CounterInv'
  OBVIOUS
<1> USE DEF CounterInv, Types
<1>1. ASSUME NEW c \in Conns, Connect(c) PROVE CounterInv'
  <2> DEFINE u == UserOf[c]
  <2>1. u \in Users
    BY PresenceConstants
  <2>2. /\ phase[c] \notin Up /\ phase' = [phase EXCEPT ![c] = "joining"]
        /\ count' = [count EXCEPT ![u] = @ + 1] /\ ttl' = [ttl EXCEPT ![u] = "new"]
    BY <1>1 DEF Connect, Incr, Up
  <2>3. Types'
    BY <2>1, <2>2 DEF Phases
  <2>4. /\ Cardinality(Counted(phase', u)) = Cardinality(Counted(phase, u)) + 1
        /\ \A v \in Users \ {u} : Counted(phase', v) = Counted(phase, v)
    <3>1. phase \in [Conns -> Phases] /\ "joining" \in Up
      BY DEF Up
    <3>2. /\ Cardinality(Counted([phase EXCEPT ![c] = "joining"], UserOf[c]))
               = Cardinality(Counted(phase, UserOf[c])) + 1
          /\ \A v \in Users \ {UserOf[c]} :
                Counted([phase EXCEPT ![c] = "joining"], v) = Counted(phase, v)
      <4> HIDE DEF CounterInv, Types
      <4> QED BY <2>2, <3>1, CountedJoins
    <3> QED
      BY <2>2, <3>2
  <2>5. Cardinality(Counted(phase, u)) \in Nat
    BY CountedFinite
  <2>6. ASSUME NEW v \in Users, count[v] <= Cardinality(Connected(v))
        PROVE  count'[v] <= Cardinality(Connected(v)')
    <3>1. CASE v = u
      BY <2>1, <2>2, <2>4, <2>5, <2>6, <3>1 DEF Connected
    <3>2. CASE v # u
      BY <2>1, <2>2, <2>4, <2>6, <3>2 DEF Connected
    <3> QED
      BY <3>1, <3>2
  <2>7. ASSUME NEW v \in Users, count[v] = Cardinality(Connected(v)), ttl[v] = "new"
        PROVE  count'[v] = Cardinality(Connected(v)') /\ ttl'[v] = "new"
    <3>1. CASE v = u
      BY <2>1, <2>2, <2>4, <2>5, <2>7, <3>1 DEF Connected
    <3>2. CASE v # u
      BY <2>1, <2>2, <2>4, <2>7, <3>2 DEF Connected
    <3> QED
      BY <3>1, <3>2
  <2>8. ASSUME NEW v \in Users, ttl[v] # "none" PROVE ttl'[v] # "none"
    BY <2>1, <2>2, <2>8
  <2> QED
    BY <2>3, <2>6, <2>7, <2>8 DEF Lossless
<1>2. ASSUME NEW c \in Conns, Disconnect(c) PROVE CounterInv'
  <2> DEFINE u == UserOf[c]
  <2>1. u \in Users
    BY PresenceConstants
  <2>2. /\ phase[c] \in Up /\ phase' = [phase EXCEPT ![c] = "gone"]
        /\ count' = [count EXCEPT ![u] = Remaining(u)] /\ ttl' = ttl
    BY <1>2 DEF Disconnect, Decr, Up
  <2>3. Remaining(u) \in Nat
    BY <2>1 DEF Remaining
  <2>4. Types'
    BY <2>1, <2>2, <2>3 DEF Phases
  <2>5. /\ Cardinality(Counted(phase', u)) = Cardinality(Counted(phase, u)) - 1
        /\ \A v \in Users \ {u} : Counted(phase', v) = Counted(phase, v)
    <3>1. phase \in [Conns -> Phases] /\ "gone" \in Phases \ Up
      BY DEF Up, Phases
    <3>2. /\ Cardinality(Counted([phase EXCEPT ![c] = "gone"], UserOf[c]))
               = Cardinality(Counted(phase, UserOf[c])) - 1
          /\ \A v \in Users \ {UserOf[c]} :
                Counted([phase EXCEPT ![c] = "gone"], v) = Counted(phase, v)
      <4> HIDE DEF CounterInv, Types
      <4> QED BY <2>2, <3>1, CountedLeaves
    <3> QED
      BY <2>2, <3>2
  <2>6. Cardinality(Counted(phase, u)) \in Nat /\ Cardinality(Counted(phase', u)) \in Nat
    BY CountedFinite
  <2>7. ASSUME NEW v \in Users, count[v] <= Cardinality(Connected(v))
        PROVE  count'[v] <= Cardinality(Connected(v)')
    <3>1. CASE v = u
      BY <2>1, <2>2, <2>5, <2>6, <2>7, <3>1 DEF Connected, Remaining
    <3>2. CASE v # u
      BY <2>1, <2>2, <2>5, <2>7, <3>2 DEF Connected
    <3> QED
      BY <3>1, <3>2
  <2>8. ASSUME NEW v \in Users, count[v] = Cardinality(Connected(v)), ttl[v] = "new"
        PROVE  count'[v] = Cardinality(Connected(v)') /\ ttl'[v] = "new"
    <3>1. CASE v = u
      BY <2>1, <2>2, <2>5, <2>6, <2>8, <3>1 DEF Connected, Remaining
    <3>2. CASE v # u
      BY <2>1, <2>2, <2>5, <2>8, <3>2 DEF Connected
    <3> QED
      BY <3>1, <3>2
  <2> QED
    BY <2>2, <2>4, <2>7, <2>8 DEF Lossless
<1>3. ASSUME NEW c \in Conns, ConnectFails(c) PROVE CounterInv'
  <2>1. UserOf[c] \in Users /\ ~Lossless /\ Faults # {} /\ "redis" \in Faults
    BY <1>3, PresenceConstants DEF ConnectFails, Lossless
  <2>2. phase' \in [Conns -> Phases]
    BY <1>3 DEF ConnectFails, Phases
  <2>3. CASE Incr(UserOf[c])
    BY <2>1, <2>2, <2>3 DEF Incr, Lossless
  <2>5. CASE IncrOnly(UserOf[c])
    BY <2>1, <2>2, <2>5 DEF IncrOnly, Lossless
  <2>6. CASE Refresh(UserOf[c])
    BY <2>1, <2>2, <2>6 DEF Refresh, Lossless
  <2>4. CASE UNCHANGED <<count, ttl>>
    BY <2>1, <2>2, <2>4 DEF Lossless
  <2> QED
    BY <1>3, <2>3, <2>4, <2>5, <2>6 DEF ConnectFails
<1>4. ASSUME NEW c \in Conns, DisconnectFails(c) PROVE CounterInv'
  <2>1. UserOf[c] \in Users /\ ~Lossless /\ Faults # {}
    BY <1>4, PresenceConstants DEF DisconnectFails, Lossless
  <2>2. Remaining(UserOf[c]) \in Nat
    BY <2>1 DEF Remaining
  <2>3. phase' \in [Conns -> Phases] /\ ttl' = ttl
    BY <1>4 DEF DisconnectFails, Phases
  <2>4. CASE Decr(UserOf[c])
    BY <2>1, <2>2, <2>3, <2>4 DEF Decr, Lossless
  <2>5. CASE UNCHANGED count
    BY <2>1, <2>3, <2>5 DEF Lossless
  <2> QED
    BY <1>4, <2>4, <2>5 DEF DisconnectFails
<1>5. ASSUME NEW c \in Conns, BroadcastOnline(c) \/ Leave(c) PROVE CounterInv'
  <2>1. PICK s \in Up : phase' = [phase EXCEPT ![c] = s] /\ phase[c] \in Up
    BY <1>5 DEF BroadcastOnline, Leave, Up
  <2>2. \A u \in Users : Counted(phase', u) = Counted(phase, u)
    <3>1. phase \in [Conns -> Phases]
      OBVIOUS
    <3>2. \A u \in Users : Counted([phase EXCEPT ![c] = s], u) = Counted(phase, u)
      <4> HIDE DEF CounterInv, Types
      <4> QED BY <2>1, <3>1, CountedSame
    <3> QED BY <2>1, <3>2
  <2>3. phase' \in [Conns -> Phases]
    BY <2>1 DEF Up, Phases
  <2> QED
    BY <1>5, <2>2, <2>3, CounterUntouched DEF BroadcastOnline, Leave
<1>6. ASSUME NEW c \in Conns, Ping(c) PROVE CounterInv'
  <2>1. phase' = phase /\ count' = count /\ ttl' = [ttl EXCEPT ![UserOf[c]] = "new"]
    BY <1>6 DEF Ping, Refresh
  <2> QED
    BY <2>1, PresenceConstants DEF Connected, Lossless
<1>7. ASSUME NEW u \in Users, Age(u) PROVE CounterInv'
  <2>1. count[u] > 0 /\ phase' = phase /\ count' = count
        /\ ttl' = [ttl EXCEPT ![u] = "old"]
    BY <1>7 DEF Age
  <2>2. Faults # {}
    <3>1. SUFFICES ASSUME Faults = {} PROVE FALSE
      OBVIOUS
    <3>2. Connected(u) = {}
      BY <1>7, <3>1 DEF Age
    <3>3. count[u] = 0
      BY <3>1, <3>2, FS_EmptySet
    <3> QED
      BY <2>1, <3>3
  <2> QED
    BY <2>1, <2>2 DEF Connected, Lossless
<1>8. ASSUME NEW u \in Users, Expire(u) PROVE CounterInv'
  <2>1. ttl[u] = "old" /\ phase' = phase /\ count' = [count EXCEPT ![u] = 0] /\ ttl' = ttl
    BY <1>8 DEF Expire
  <2>2. Faults # {}
    BY <2>1
  <2>3. \A v \in Users : Cardinality(Connected(v)) \in Nat
    BY CountedFinite DEF Connected
  <2> QED
    BY <2>1, <2>2, <2>3 DEF Connected, Lossless
<1>9. ASSUME NEW h \in Hubs, Crash(h) PROVE CounterInv'
  <2>1. ~Lossless /\ Faults # {} /\ count' = count /\ ttl' = ttl
    BY <1>9 DEF Crash, Lossless
  <2>2. phase' \in [Conns -> Phases]
    BY <1>9 DEF Crash, Phases
  <2> QED
    BY <2>1, <2>2 DEF Lossless
<1>10. ASSUME phase' = phase, count' = count, ttl' = ttl PROVE CounterInv'
  BY <1>10 DEF Connected, Lossless
<1>11. ASSUME NEW c \in Conns, CheckOffline(c) \/ CheckFails(c) \/ BroadcastOffline(c)
       PROVE  CounterInv'
  BY <1>10, <1>11 DEF CheckOffline, CheckFails, BroadcastOffline
<1>12. ASSUME NEW h \in Hubs, Announce(h) PROVE CounterInv'
  BY <1>10, <1>12 DEF Announce
<1>13. CASE UNCHANGED vars
  BY <1>10, <1>13 DEF vars
<1> QED
  BY <1>1, <1>2, <1>3, <1>4, <1>5, <1>6, <1>7, <1>8, <1>9, <1>11, <1>12, <1>13 DEF Next

(* The counter and what it counts, in every reachable state. *)
THEOREM CounterSound == Spec => []CounterInv
BY InitCounter, NextCounter, PTL DEF Spec

(* Without faults the counter is the number of connections, whatever the     *)
(* processes' OnConnect and OnDisconnect interleave like.                    *)
THEOREM CounterIsExact == Spec => []CounterExact
<1>1. CounterInv => CounterExact
  BY DEF CounterInv, CounterExact
<1> QED
  BY <1>1, CounterSound, PTL

(* With quiet browsers and expiring keys it is still never above it. *)
THEOREM CounterNeverOver == Spec => []NeverOvercounts
<1>1. CounterInv => NeverOvercounts
  BY DEF CounterInv, NeverOvercounts, Lossless
<1> QED
  BY <1>1, CounterSound, PTL

(* As long as every Redis call succeeds no key is left without a TTL, so      *)
(* what a crash leaves in the counter always expires: the failed pipeline is  *)
(* the only case GoneIsOffline has to excuse.                                 *)
THEOREM KeysDoExpire == Spec => []KeysExpire
<1>1. CounterInv => KeysExpire
  BY DEF CounterInv, KeysExpire, Stuck
<1> QED
  BY <1>1, CounterSound, PTL

-----------------------------------------------------------------------------
(* Types *)

(* What a hub's queue holds: the events it will announce. *)
PresenceEvents == [user: Users, what: {"online", "offline"}]

LEMMA EventIsOne ==
  ASSUME NEW u \in Users, NEW what \in {"online", "offline"}
  PROVE  Event(u, what) \in PresenceEvents
BY DEF Event, PresenceEvents

LEMMA QueueGrows ==
  ASSUME NEW h \in Hubs, NEW e \in PresenceEvents,
         queue \in [Hubs -> Seq(PresenceEvents)], queue' = [queue EXCEPT ![h] = Append(@, e)]
  PROVE  queue' \in [Hubs -> Seq(PresenceEvents)]
OBVIOUS

LEMMA TypesInit == Init => TypeOK
BY DEF Init, TypeOK, Phases

(* A connection's own steps. *)
LEMMA ConnectionTypes ==
  ASSUME TypeOK, NEW c \in Conns,
         \/ Connect(c) \/ ConnectFails(c) \/ BroadcastOnline(c) \/ Ping(c) \/ Leave(c)
         \/ Disconnect(c) \/ DisconnectFails(c)
  PROVE  TypeOK'
<1>1. UserOf[c] \in Users /\ HubOf[c] \in Hubs BY PresenceConstants
<1>2. Remaining(UserOf[c]) \in Nat BY <1>1 DEF TypeOK, Remaining
<1>3. CASE Connect(c) BY <1>1, <1>3 DEF TypeOK, Phases, Connect, Incr
<1>4. CASE ConnectFails(c)
  <2>1. phase' \in [Conns -> Phases] BY <1>4 DEF TypeOK, Phases, ConnectFails
  <2>2. count' \in [Users -> Nat] /\ ttl' \in [Users -> {"new", "old", "none"}]
    <3>1. CASE Incr(UserOf[c]) BY <1>1, <3>1 DEF TypeOK, Incr
    <3>3. CASE IncrOnly(UserOf[c]) BY <1>1, <3>3 DEF TypeOK, IncrOnly
    <3>4. CASE Refresh(UserOf[c]) BY <1>1, <3>4 DEF TypeOK, Refresh
    <3>2. CASE UNCHANGED <<count, ttl>> BY <3>2 DEF TypeOK
    <3>. QED BY <1>4, <3>1, <3>2, <3>3, <3>4 DEF ConnectFails
  <2>. QED BY <1>4, <2>1, <2>2 DEF TypeOK, ConnectFails
<1>5. CASE BroadcastOnline(c)
  <2>1. Event(UserOf[c], "online") \in PresenceEvents BY <1>1, EventIsOne
  <2>2. queue' \in [Hubs -> Seq(PresenceEvents)]
    BY <1>1, <1>5, <2>1, QueueGrows DEF TypeOK, PresenceEvents, BroadcastOnline
  <2>. QED BY <1>5, <2>2 DEF TypeOK, Phases, PresenceEvents, BroadcastOnline
<1>6. CASE Ping(c) BY <1>1, <1>6 DEF TypeOK, Ping, Refresh
<1>7. CASE Leave(c) BY <1>7 DEF TypeOK, Phases, Leave
<1>8. CASE Disconnect(c) BY <1>1, <1>2, <1>8 DEF TypeOK, Phases, Disconnect, Decr
<1>9. CASE DisconnectFails(c) BY <1>1, <1>2, <1>9 DEF TypeOK, Phases, DisconnectFails, Decr
<1>. QED BY <1>3, <1>4, <1>5, <1>6, <1>7, <1>8, <1>9

(* The steps of the goroutine a departed connection left behind. *)
LEMMA TimerTypes ==
  ASSUME TypeOK, NEW c \in Conns, CheckOffline(c) \/ CheckFails(c) \/ BroadcastOffline(c)
  PROVE  TypeOK'
<1>1. UserOf[c] \in Users /\ HubOf[c] \in Hubs BY PresenceConstants
<1>2. CASE CheckOffline(c) BY <1>2 DEF TypeOK, CheckOffline
<1>3. CASE CheckFails(c) BY <1>3 DEF TypeOK, CheckFails
<1>4. CASE BroadcastOffline(c)
  <2>1. Event(UserOf[c], "offline") \in PresenceEvents BY <1>1, EventIsOne
  <2>2. queue' \in [Hubs -> Seq(PresenceEvents)]
    BY <1>1, <1>4, <2>1, QueueGrows DEF TypeOK, PresenceEvents, BroadcastOffline
  <2>. QED BY <1>4, <2>2 DEF TypeOK, PresenceEvents, BroadcastOffline
<1>. QED BY <1>2, <1>3, <1>4

LEMMA HubTypes ==
  ASSUME TypeOK, NEW h \in Hubs, Announce(h) \/ Crash(h)
  PROVE  TypeOK'
<1>1. CASE Announce(h)
  <2>1. PICK q \in Seq(PresenceEvents) : q = queue[h] BY DEF TypeOK, PresenceEvents
  <2>2. q # <<>> BY <1>1, <2>1 DEF Announce
  <2>3. Head(q) \in PresenceEvents /\ Tail(q) \in Seq(PresenceEvents) BY <2>2
  <2>4. /\ queue' = [queue EXCEPT ![h] = Tail(q)]
        /\ told' = [told EXCEPT ![Head(q).user] = Head(q).what]
    BY <1>1, <2>1 DEF Announce
  <2>5. queue' \in [Hubs -> Seq(PresenceEvents)] BY <2>3, <2>4 DEF TypeOK, PresenceEvents
  <2>6. told' \in [Users -> {"online", "offline"}]
    BY <2>3, <2>4 DEF TypeOK, PresenceEvents
  <2>. QED BY <1>1, <2>5, <2>6 DEF TypeOK, PresenceEvents, Announce
<1>2. CASE Crash(h)
  <2>1. /\ \A c \in Conns : phase'[c] \in {"gone", phase[c]} /\ timer'[c] \in {"none", timer[c]}
        /\ DOMAIN phase' = Conns /\ DOMAIN timer' = Conns
        /\ phase' = [c \in Conns |-> phase'[c]] /\ timer' = [c \in Conns |-> timer'[c]]
    BY <1>2 DEF Crash
  <2>2. phase' \in [Conns -> Phases] /\ timer' \in [Conns -> {"none", "delay", "offline", "done"}]
    BY <2>1 DEF TypeOK, Phases
  <2>3. queue' \in [Hubs -> Seq(PresenceEvents)]
    <3>1. <<>> \in Seq(PresenceEvents) OBVIOUS
    <3>2. queue' = [queue EXCEPT ![h] = <<>>] BY <1>2 DEF Crash
    <3>. QED BY <3>1, <3>2 DEF TypeOK, PresenceEvents
  <2>. QED BY <1>2, <2>2, <2>3 DEF TypeOK, PresenceEvents, Crash
<1>. QED BY <1>1, <1>2

LEMMA TimeTypes ==
  ASSUME TypeOK, NEW u \in Users, Age(u) \/ Expire(u)
  PROVE  TypeOK'
<1>1. CASE Age(u) BY <1>1 DEF TypeOK, Age
<1>2. CASE Expire(u)
  <2>1. count' \in [Users -> Nat] BY <1>2 DEF TypeOK, Expire
  <2>. QED BY <1>2, <2>1 DEF TypeOK, Expire
<1>. QED BY <1>1, <1>2

LEMMA TypesNext == TypeOK /\ [Next]_vars => TypeOK'
<1> SUFFICES ASSUME TypeOK, [Next]_vars PROVE TypeOK'
  OBVIOUS
<1>1. CASE Next BY <1>1, ConnectionTypes, TimerTypes, HubTypes, TimeTypes DEF Next
<1>2. CASE UNCHANGED vars BY <1>2 DEF TypeOK, vars
<1>. QED BY <1>1, <1>2

(* Whatever fails and in whatever order the processes run, the counter is    *)
(* never below zero and every event is about a user (presence.go, Decr; the  *)
(* handlers' broadcasts).                                                    *)
THEOREM PresenceTypes == Spec => []TypeOK
<1>1. Init => TypeOK BY TypesInit
<1>2. TypeOK /\ [Next]_vars => TypeOK' BY TypesNext
<1>. QED BY <1>1, <1>2, PTL DEF Spec
-----------------------------------------------------------------------------
(* What is said last of a user *)

(* The offline check of a departed connection of u is still to come. *)
Awaited(u) == \E c \in Conns : UserOf[c] = u /\ timer[c] \in {"delay", "offline"}

Unmentioned(q, u) == \A i \in 1..Len(q) : q[i].user # u

(* The last word about u is "offline": in the events of q, or else in t, what *)
(* everyone was told before them.                                             *)
EndsOffline(q, u, t) ==
  \/ \E i \in 1..Len(q) : /\ q[i].user = u /\ q[i].what = "offline"
                          /\ \A j \in 1..Len(q) : j > i => q[j].user # u
  \/ Unmentioned(q, u) /\ t = "offline"

WordInv(h) ==
  /\ TypeOK /\ CounterInv
  /\ \A u \in Users :
       Connected(u) = {} => Awaited(u) \/ EndsOffline(queue[h], u, told[u])

(* An event about another user leaves the last word about u. *)
LEMMA OthersEvent ==
  ASSUME NEW q \in Seq(PresenceEvents), NEW e \in PresenceEvents, NEW u, NEW t,
         e.user # u, EndsOffline(q, u, t)
  PROVE  EndsOffline(Append(q, e), u, t)
<1>1. /\ Len(Append(q, e)) = Len(q) + 1 /\ Len(q) \in Nat
      /\ Append(q, e)[Len(q) + 1] = e
      /\ \A i \in 1..Len(q) : Append(q, e)[i] = q[i]
  OBVIOUS
<1>2. CASE Unmentioned(q, u) /\ t = "offline" BY <1>1, <1>2 DEF EndsOffline, Unmentioned
<1>3. CASE \E i \in 1..Len(q) : /\ q[i].user = u /\ q[i].what = "offline"
                                /\ \A j \in 1..Len(q) : j > i => q[j].user # u
  <2>1. PICK i \in 1..Len(q) : /\ q[i].user = u /\ q[i].what = "offline"
                               /\ \A j \in 1..Len(q) : j > i => q[j].user # u
    BY <1>3
  <2>2. \A j \in 1..Len(Append(q, e)) : j > i => Append(q, e)[j].user # u
    BY <1>1, <2>1
  <2>3. i \in 1..Len(Append(q, e)) /\ Append(q, e)[i] = q[i] BY <1>1
  <2>. QED BY <2>1, <2>2, <2>3 DEF EndsOffline
<1>. QED BY <1>2, <1>3 DEF EndsOffline

(* An event that says u is offline is the last word, queued last. *)
LEMMA OwnEvent ==
  ASSUME NEW q \in Seq(PresenceEvents), NEW u \in Users, NEW t
  PROVE  EndsOffline(Append(q, Event(u, "offline")), u, t)
<1>1. PICK e \in PresenceEvents : e = Event(u, "offline") BY EventIsOne
<1>2. e.user = u /\ e.what = "offline" BY <1>1 DEF Event
<1>3. Len(Append(q, e)) = Len(q) + 1 /\ Len(q) \in Nat /\ Append(q, e)[Len(q) + 1] = e
  OBVIOUS
<1>4. \A j \in 1..Len(Append(q, e)) : ~(j > Len(q) + 1) BY <1>3
<1>. QED BY <1>1, <1>2, <1>3, <1>4 DEF EndsOffline

(* Announcing the first event does not change what is said last. *)
LEMMA FirstTold ==
  ASSUME NEW q \in Seq(PresenceEvents), q # <<>>, NEW u, NEW t, EndsOffline(q, u, t),
         NEW s, IF Head(q).user = u THEN s = Head(q).what ELSE s = t
  PROVE  EndsOffline(Tail(q), u, s)
<1>1. /\ Len(q) \in Nat /\ Len(q) > 0 /\ Len(Tail(q)) = Len(q) - 1 /\ Head(q) = q[1]
      /\ \A i \in 1..Len(Tail(q)) : Tail(q)[i] = q[i + 1]
  OBVIOUS
<1>2. CASE Unmentioned(q, u) /\ t = "offline" BY <1>1, <1>2 DEF EndsOffline, Unmentioned
<1>3. CASE \E i \in 1..Len(q) : /\ q[i].user = u /\ q[i].what = "offline"
                                /\ \A j \in 1..Len(q) : j > i => q[j].user # u
  <2>1. PICK i \in 1..Len(q) : /\ q[i].user = u /\ q[i].what = "offline"
                               /\ \A j \in 1..Len(q) : j > i => q[j].user # u
    BY <1>3
  <2>2. CASE i = 1
    <3>1. Unmentioned(Tail(q), u) BY <1>1, <2>1, <2>2 DEF Unmentioned
    <3>. QED BY <1>1, <2>1, <2>2, <3>1 DEF EndsOffline
  <2>3. CASE i # 1
    <3>1. PICK k \in 1..Len(Tail(q)) : k = i - 1 BY <1>1, <2>1, <2>3
    <3>2. Tail(q)[k] = q[i] BY <1>1, <3>1
    <3>3. \A j \in 1..Len(Tail(q)) : j > k => Tail(q)[j].user # u BY <1>1, <2>1, <3>1
    <3>. QED BY <2>1, <3>2, <3>3 DEF EndsOffline
  <2>. QED BY <2>2, <2>3
<1>. QED BY <1>2, <1>3 DEF EndsOffline

(* Nothing is counted for a user without connections. *)
LEMMA NobodyCounted ==
  ASSUME CounterInv, Lossless, NEW u \in Users, Connected(u) = {}
  PROVE  count[u] = 0
<1>1. Cardinality(Connected(u)) = 0 BY FS_EmptySet
<1>2. count[u] \in Nat /\ count[u] <= Cardinality(Connected(u)) BY DEF CounterInv, Types
<1>. QED BY <1>1, <1>2

(* The last connection to go finds nothing remaining. *)
LEMMA LastOut ==
  ASSUME TypeOK, CounterInv, Lossless, NEW c \in Conns, Disconnect(c),
         Connected(UserOf[c])' = {}
  PROVE  timer'[c] = "delay"
<1>1. UserOf[c] \in Users /\ phase[c] = "left" /\ phase' = [phase EXCEPT ![c] = "gone"]
  BY PresenceConstants DEF Disconnect
<1>2. phase \in [Conns -> Phases] /\ phase[c] \in Up /\ "gone" \in Phases \ Up
  BY <1>1 DEF CounterInv, Types, Up, Phases
<1>3. Cardinality(Counted([phase EXCEPT ![c] = "gone"], UserOf[c]))
        = Cardinality(Counted(phase, UserOf[c])) - 1
  BY <1>2, CountedLeaves
<1>4. Cardinality(Counted(phase', UserOf[c])) = 0 BY FS_EmptySet DEF Connected
<1>5. /\ count[UserOf[c]] \in Nat
      /\ count[UserOf[c]] <= Cardinality(Connected(UserOf[c]))
  BY <1>1 DEF CounterInv, Types
<1>6. Cardinality(Connected(UserOf[c])) = 1
  <2>1. Cardinality(Counted(phase', UserOf[c])) = Cardinality(Counted(phase, UserOf[c])) - 1
    BY <1>1, <1>3
  <2>2. Cardinality(Counted(phase, UserOf[c])) \in Nat BY CountedFinite
  <2>. QED BY <1>4, <2>1, <2>2 DEF Connected
<1>7. Remaining(UserOf[c]) = 0 BY <1>5, <1>6 DEF Remaining
<1>. QED BY <1>7 DEF Disconnect, TypeOK

(* A step that starts no new silence about u: its checks go on, and of what *)
(* is queued and told nothing changes.                                      *)
LEMMA WordKept ==
  ASSUME NEW h, NEW u \in Users,
         Connected(u)' = {} => Connected(u) = {},
         UNCHANGED <<timer, queue, told>>,
         Connected(u) = {} => Awaited(u) \/ EndsOffline(queue[h], u, told[u]),
         Connected(u)' = {}
  PROVE  (Awaited(u) \/ EndsOffline(queue[h], u, told[u]))'
BY DEF Awaited

LEMMA NextWord ==
  ASSUME NEW h, Hubs = {h}, Lossless, WordInv(h), [Next]_vars
  PROVE  WordInv(h)'
<1>1. TypeOK' /\ CounterInv' BY TypesNext, NextCounter DEF WordInv
<1>2. SUFFICES ASSUME NEW u \in Users, Connected(u)' = {}
               PROVE  Awaited(u)' \/ EndsOffline(queue'[h], u, told'[u])
  BY <1>1 DEF WordInv
<1>3. /\ TypeOK /\ CounterInv
      /\ Connected(u) = {} => Awaited(u) \/ EndsOffline(queue[h], u, told[u])
  BY DEF WordInv
<1>4. queue[h] \in Seq(PresenceEvents) /\ \A c \in Conns : HubOf[c] = h
  BY <1>3, PresenceConstants DEF TypeOK, PresenceEvents
<1>5. phase \in [Conns -> Phases] BY <1>3 DEF TypeOK
<1>6. ASSUME NEW c \in Conns,
             Connect(c) \/ BroadcastOnline(c) \/ Ping(c) \/ Leave(c)
      PROVE  Awaited(u)' \/ EndsOffline(queue'[h], u, told'[u])
  <2>1. Connected(u)' = {} => Connected(u) = {}
    BY <1>5, <1>6 DEF Connected, Counted, Connect, BroadcastOnline, Ping, Leave
  <2>2. CASE ~BroadcastOnline(c)
    <3>1. UNCHANGED <<timer, queue, told>> BY <1>6, <2>2 DEF Connect, Ping, Leave
    <3>. QED BY <1>2, <1>3, <2>1, <3>1, WordKept
  <2>3. CASE BroadcastOnline(c)
    <3>1. PICK e \in PresenceEvents : e = Event(UserOf[c], "online")
      BY PresenceConstants, EventIsOne
    <3>2. UserOf[c] # u
      BY <1>2, <1>5, <2>3 DEF Connected, Counted, BroadcastOnline
    <3>3. queue'[h] = Append(queue[h], e) /\ UNCHANGED <<timer, told>>
      BY <1>3, <1>4, <2>3, <3>1 DEF BroadcastOnline, TypeOK
    <3>4. CASE Awaited(u) BY <3>3, <3>4 DEF Awaited
    <3>5. CASE EndsOffline(queue[h], u, told[u])
      <4>1. e.user # u BY <3>1, <3>2 DEF Event
      <4>2. EndsOffline(Append(queue[h], e), u, told[u]) BY <1>4, <3>5, <4>1, OthersEvent
      <4>. QED BY <3>3, <4>2
    <3>. QED BY <1>2, <1>3, <2>1, <3>4, <3>5
  <2>. QED BY <2>2, <2>3
<1>7. ASSUME NEW c \in Conns, Disconnect(c)
      PROVE  Awaited(u)' \/ EndsOffline(queue'[h], u, told'[u])
  <2>1. CASE UserOf[c] = u
    <3>1. timer'[c] = "delay" BY <1>2, <1>3, <1>7, <2>1, LastOut
    <3>. QED BY <2>1, <3>1 DEF Awaited
  <2>2. CASE UserOf[c] # u
    <3>1. Connected(u) = {}
      BY <1>2, <1>5, <1>7, <2>2 DEF Connected, Counted, Disconnect
    <3>2. /\ \A d \in Conns : UserOf[d] = u => timer'[d] = timer[d]
          /\ UNCHANGED <<queue, told>>
      BY <1>3, <1>7, <2>2 DEF Disconnect, TypeOK
    <3>. QED BY <1>3, <3>1, <3>2 DEF Awaited
  <2>. QED BY <2>1, <2>2
<1>8. ASSUME NEW c \in Conns, CheckOffline(c)
      PROVE  Awaited(u)' \/ EndsOffline(queue'[h], u, told'[u])
  <2>1. UNCHANGED <<phase, count, queue, told>> BY <1>8 DEF CheckOffline
  <2>2. Connected(u) = {} /\ count[u] = 0
    BY <1>2, <1>3, <2>1, NobodyCounted DEF Connected
  <2>3. CASE UserOf[c] = u
    <3>1. timer'[c] = "offline"
      BY <1>3, <1>8, <2>2, <2>3 DEF CheckOffline, IsOnline, TypeOK
    <3>. QED BY <2>3, <3>1 DEF Awaited
  <2>4. CASE UserOf[c] # u
    <3>1. \A d \in Conns : UserOf[d] = u => timer'[d] = timer[d]
      BY <1>3, <1>8, <2>4 DEF CheckOffline, TypeOK
    <3>. QED BY <1>3, <2>1, <2>2, <3>1 DEF Awaited
  <2>. QED BY <2>3, <2>4
<1>9. ASSUME NEW c \in Conns, BroadcastOffline(c)
      PROVE  Awaited(u)' \/ EndsOffline(queue'[h], u, told'[u])
  <2>1. /\ queue'[h] = Append(queue[h], Event(UserOf[c], "offline"))
        /\ UNCHANGED <<phase, told>>
    BY <1>3, <1>4, <1>9 DEF BroadcastOffline, TypeOK
  <2>2. CASE UserOf[c] = u
    BY <1>4, <2>1, <2>2, OwnEvent
  <2>3. CASE UserOf[c] # u
    <3>1. \A d \in Conns : UserOf[d] = u => timer'[d] = timer[d]
      BY <1>3, <1>9, <2>3 DEF BroadcastOffline, TypeOK
    <3>2. CASE Awaited(u) BY <3>1, <3>2 DEF Awaited
    <3>3. CASE EndsOffline(queue[h], u, told[u])
      <4>1. PICK e \in PresenceEvents : e = Event(UserOf[c], "offline")
        BY PresenceConstants, EventIsOne
      <4>2. e.user # u BY <2>3, <4>1 DEF Event
      <4>3. EndsOffline(Append(queue[h], e), u, told[u]) BY <1>4, <3>3, <4>2, OthersEvent
      <4>. QED BY <2>1, <4>1, <4>3
    <3>. QED BY <1>2, <1>3, <2>1, <3>2, <3>3 DEF Connected
  <2>. QED BY <2>2, <2>3
<1>10. CASE Announce(h)
  <2>1. PICK q \in Seq(PresenceEvents) : q = queue[h] BY <1>4
  <2>2. /\ q # <<>> /\ UNCHANGED <<phase, timer>>
        /\ queue'[h] = Tail(q)
        /\ told' = [told EXCEPT ![Head(q).user] = Head(q).what]
    BY <1>3, <1>10, <2>1 DEF Announce, TypeOK
  <2>3. CASE Awaited(u) BY <2>2, <2>3 DEF Awaited
  <2>4. CASE EndsOffline(q, u, told[u])
    <3>1. IF Head(q).user = u THEN told'[u] = Head(q).what ELSE told'[u] = told[u]
      BY <1>3, <2>2 DEF TypeOK
    <3>2. PICK s : s = told'[u] OBVIOUS
    <3>3. EndsOffline(Tail(q), u, s) BY <2>2, <2>4, <3>1, <3>2, FirstTold
    <3>. QED BY <2>2, <3>2, <3>3
  <2>. QED BY <1>2, <1>3, <2>1, <2>2, <2>3, <2>4 DEF Connected
<1>11. ASSUME NEW v \in Users, Age(v) \/ Expire(v)
       PROVE  Awaited(u)' \/ EndsOffline(queue'[h], u, told'[u])
  BY <1>2, <1>3, <1>11, WordKept DEF Age, Expire, Connected
<1>12. CASE UNCHANGED vars
  BY <1>2, <1>3, <1>12, WordKept DEF vars, Connected
<1>13. \A c \in Conns : ~ConnectFails(c) /\ ~DisconnectFails(c) /\ ~CheckFails(c)
  BY DEF Lossless, ConnectFails, DisconnectFails, CheckFails
<1>14. \A g \in Hubs : ~Crash(g) BY DEF Lossless, Crash
<1>. QED
  BY <1>6, <1>7, <1>8, <1>9, <1>10, <1>11, <1>12, <1>13, <1>14 DEF Next

(* As long as one process serves, does not crash and reaches Redis, a user    *)
(* without connections has been announced offline once no check of theirs     *)
(* waits and no event about them is queued (OnDisconnect,                     *)
(* handleInternalCheckOffline): nothing that is said later than a departure,  *)
(* an "online" of another connection or the expiry of the key, leaves a       *)
(* departed user shown as online.                                             *)
THEOREM LastWordIsOffline ==
  ASSUME NEW h, Hubs = {h}, Lossless
  PROVE  Spec => [](\A u \in Users :
                      Connected(u) = {} /\ ~Awaited(u) /\ Unmentioned(queue[h], u)
                        => told[u] = "offline")
<1>1. Init => WordInv(h)
  BY TypesInit, InitCounter DEF Init, WordInv, EndsOffline, Unmentioned
<1>2. WordInv(h) /\ [Next]_vars => WordInv(h)' BY NextWord
<1>3. WordInv(h) => \A u \in Users :
                      Connected(u) = {} /\ ~Awaited(u) /\ Unmentioned(queue[h], u)
                        => told[u] = "offline"
  BY DEF WordInv, EndsOffline, Unmentioned
<1>. QED BY <1>1, <1>2, <1>3, PTL DEF Spec
=============================================================================
