------------------------------ MODULE Presence ------------------------------
(***************************************************************************)
(* Who is online: the Redis counter ws:presence:<user> shared by every     *)
(* server process (infras/redis/presence.go) and the handler that keeps it *)
(* and announces users coming and going (integrations/ws/presence).        *)
(*                                                                         *)
(* A hub goroutine runs OnConnect and OnDisconnect one at a time; another  *)
(* goroutine per departure waits three seconds, reads the counter and, in  *)
(* a step of its own, broadcasts.  The capacity of the hub's channels is   *)
(* Hub's subject and is not bounded here.                                  *)
(***************************************************************************)
EXTENDS Integers, FiniteSets, Sequences

CONSTANTS
  Conns,            \* connections, each made at most once
  Users, UserOf,    \* the user of a connection
  Hubs, HubOf,      \* the process it is made to
  Faults            \* what may go wrong

AllFaults == {"quiet",   \* connected browsers go 90 seconds without presence.ping
              "crash",   \* a process dies without running OnDisconnect
              "redis"}   \* a Redis call fails, applied or not

ASSUME PresenceConstants ==
  /\ IsFiniteSet(Conns)
  /\ UserOf \in [Conns -> Users] /\ HubOf \in [Conns -> Hubs]
  /\ Faults \subseteq AllFaults

VARIABLES
  phase,    \* of a connection: "new", "joining" (counted, not yet announced),
            \* "up", "left" (its reader waits to unregister), "gone"
  count,    \* the counter; 0 stands for no key
  ttl,      \* of the key: "new", "old" (90 seconds have passed), "none" (not set)
  timer,    \* the goroutine a departed connection left behind: "none", "delay",
            \* "offline" (has read the counter as zero), "done"
  queue,    \* presence events in each hub's Broadcast channel
  told      \* what the last event to reach everyone said of a user

vars == <<phase, count, ttl, timer, queue, told>>

Phases == {"new", "joining", "up", "left", "gone"}

(* The connections of u that OnConnect has counted and OnDisconnect has not. *)
Counted(ph, u) == {c \in Conns : UserOf[c] = u /\ ph[c] \in {"joining", "up", "left"}}
Connected(u)   == Counted(phase, u)

Event(u, what) == [user |-> u, what |-> what]
Idle(h) == \A c \in Conns : HubOf[c] = h => phase[c] # "joining"

Init ==
  /\ phase = [c \in Conns |-> "new"]
  /\ count = [u \in Users |-> 0]
  /\ ttl = [u \in Users |-> "new"]
  /\ timer = [c \in Conns |-> "none"]
  /\ queue = [h \in Hubs |-> <<>>]
  /\ told = [u \in Users |-> "offline"]

-----------------------------------------------------------------------------
(* PresenceStore. *)

Incr(u) == /\ count' = [count EXCEPT ![u] = @ + 1]
           /\ ttl' = [ttl EXCEPT ![u] = "new"]

(* The first half of Connect's pipeline alone: INCR gives a new key no TTL. *)
IncrOnly(u) == /\ count' = [count EXCEPT ![u] = @ + 1]
               /\ ttl' = [ttl EXCEPT ![u] = IF count[u] > 0 THEN @ ELSE "none"]

(* EXPIRE: sets the TTL of a key that is there. *)
Refresh(u) == /\ count[u] > 0
              /\ ttl' = [ttl EXCEPT ![u] = "new"]
              /\ UNCHANGED count

(* Mutants of Decr: the last decrement is lost; or a missing key is counted below zero. *)
DecrKeepsLast(u)    == count' = [count EXCEPT ![u] = IF @ > 1 THEN @ - 1 ELSE @]
DecrWithoutDel(u)   == count' = [count EXCEPT ![u] = @ - 1]

(* The script: DECR, and DEL when nothing is left; a missing key counts as 0. *)
Remaining(u) == IF count[u] > 0 THEN count[u] - 1 ELSE 0
Decr(u) == count' = [count EXCEPT ![u] = Remaining(u)]

IsOnline(u) == count[u] > 0

-----------------------------------------------------------------------------
(* PresenceHandler.OnConnect: count, then broadcast. *)

Connect(c) ==
  /\ phase[c] = "new" /\ Idle(HubOf[c])
  /\ phase' = [phase EXCEPT ![c] = "joining"]
  /\ Incr(UserOf[c])
  /\ UNCHANGED <<timer, queue, told>>

(* A failed Connect leaves the client registered and unannounced.  The      *)
(* pipeline is no transaction: INCR and EXPIRE may each be applied or not.  *)
ConnectFails(c) ==
  /\ "redis" \in Faults /\ phase[c] = "new" /\ Idle(HubOf[c])
  /\ phase' = [phase EXCEPT ![c] = "up"]
  /\ \/ Incr(UserOf[c]) \/ IncrOnly(UserOf[c]) \/ Refresh(UserOf[c])
     \/ UNCHANGED <<count, ttl>>
  /\ UNCHANGED <<timer, queue, told>>

BroadcastOnline(c) ==
  /\ phase[c] = "joining"
  /\ phase' = [phase EXCEPT ![c] = "up"]
  /\ queue' = [queue EXCEPT ![HubOf[c]] = Append(@, Event(UserOf[c], "online"))]
  /\ UNCHANGED <<count, ttl, timer, told>>

(* presence.ping. *)
Ping(c) ==
  /\ phase[c] = "up" /\ Idle(HubOf[c])
  /\ Refresh(UserOf[c])
  /\ UNCHANGED <<phase, timer, queue, told>>

(* The socket closes or misses its pong deadline. *)
Leave(c) ==
  /\ phase[c] = "up"
  /\ phase' = [phase EXCEPT ![c] = "left"]
  /\ UNCHANGED <<count, ttl, timer, queue, told>>

(* Mutant of Disconnect: the offline check is scheduled only below zero. *)
DisconnectOffByOne(c) ==
  /\ phase[c] = "left" /\ Idle(HubOf[c])
  /\ phase' = [phase EXCEPT ![c] = "gone"]
  /\ Decr(UserOf[c])
  /\ timer' = [timer EXCEPT ![c] = IF Remaining(UserOf[c]) < 0 THEN "delay" ELSE @]
  /\ UNCHANGED <<ttl, queue, told>>

(* OnDisconnect: with nothing remaining, an offline check is scheduled. *)
Disconnect(c) ==
  /\ phase[c] = "left" /\ Idle(HubOf[c])
  /\ phase' = [phase EXCEPT ![c] = "gone"]
  /\ Decr(UserOf[c])
  /\ timer' = [timer EXCEPT ![c] = IF Remaining(UserOf[c]) <= 0 THEN "delay" ELSE @]
  /\ UNCHANGED <<ttl, queue, told>>

DisconnectFails(c) ==
  /\ "redis" \in Faults /\ phase[c] = "left" /\ Idle(HubOf[c])
  /\ phase' = [phase EXCEPT ![c] = "gone"]
  /\ Decr(UserOf[c]) \/ UNCHANGED count
  /\ UNCHANGED <<ttl, timer, queue, told>>

(* handleInternalCheckOffline, three seconds later: a user back online, or *)
(* a failed read, ends it; otherwise the broadcast is a step of its own.   *)
CheckOffline(c) ==
  /\ timer[c] = "delay"
  /\ timer' = [timer EXCEPT ![c] = IF IsOnline(UserOf[c]) THEN "done" ELSE "offline"]
  /\ UNCHANGED <<phase, count, ttl, queue, told>>

CheckFails(c) ==
  /\ "redis" \in Faults /\ timer[c] = "delay"
  /\ timer' = [timer EXCEPT ![c] = "done"]
  /\ UNCHANGED <<phase, count, ttl, queue, told>>

BroadcastOffline(c) ==
  /\ timer[c] = "offline"
  /\ timer' = [timer EXCEPT ![c] = "done"]
  /\ queue' = [queue EXCEPT ![HubOf[c]] = Append(@, Event(UserOf[c], "offline"))]
  /\ UNCHANGED <<phase, count, ttl, told>>

(* The hub takes a presence event and fans it out to every process. *)
Announce(h) ==
  /\ queue[h] # <<>>
  /\ queue' = [queue EXCEPT ![h] = Tail(@)]
  /\ told' = [told EXCEPT ![Head(queue[h]).user] = Head(queue[h]).what]
  /\ UNCHANGED <<phase, count, ttl, timer>>

-----------------------------------------------------------------------------
(* Time and failures. *)

(* Mutant of Age: the key is given no TTL. *)
AgeNever(u) == u \notin Users /\ UNCHANGED vars

(* 90 seconds pass without a ping: with no connection, or a quiet one. *)
Age(u) ==
  /\ count[u] > 0 /\ ttl[u] = "new"
  /\ Connected(u) = {} \/ "quiet" \in Faults
  /\ ttl' = [ttl EXCEPT ![u] = "old"]
  /\ UNCHANGED <<phase, count, timer, queue, told>>

Expire(u) ==
  /\ count[u] > 0 /\ ttl[u] = "old"
  /\ count' = [count EXCEPT ![u] = 0]
  /\ UNCHANGED <<phase, ttl, timer, queue, told>>

(* A process dies: its connections, timers and queued events with it. *)
Crash(h) ==
  /\ "crash" \in Faults
  /\ \E c \in Conns : HubOf[c] = h /\ phase[c] \in {"joining", "up", "left"}
  /\ phase' = [c \in Conns |-> IF HubOf[c] = h /\ phase[c] # "new" THEN "gone" ELSE phase[c]]
  /\ timer' = [c \in Conns |-> IF HubOf[c] = h THEN "none" ELSE timer[c]]
  /\ queue' = [queue EXCEPT ![h] = <<>>]
  /\ UNCHANGED <<count, ttl, told>>

Next ==
  \/ \E c \in Conns : \/ Connect(c) \/ ConnectFails(c) \/ BroadcastOnline(c) \/ Ping(c)
                      \/ Leave(c) \/ Disconnect(c) \/ DisconnectFails(c)
                      \/ CheckOffline(c) \/ CheckFails(c) \/ BroadcastOffline(c)
  \/ \E h \in Hubs : Announce(h) \/ Crash(h)
  \/ \E u \in Users : Age(u) \/ Expire(u)

Spec == Init /\ [][Next]_vars

(* Goroutines keep running and TTLs keep counting down.  Nothing is assumed *)
(* of the browsers.                                                         *)
Fairness ==
  /\ \A c \in Conns : /\ WF_vars(BroadcastOnline(c)) /\ WF_vars(Disconnect(c))
                      /\ WF_vars(CheckOffline(c)) /\ WF_vars(BroadcastOffline(c))
  /\ \A h \in Hubs : WF_vars(Announce(h))
  /\ \A u \in Users : WF_vars(Age(u)) /\ WF_vars(Expire(u))
FairSpec == Spec /\ Fairness

-----------------------------------------------------------------------------
(* Properties. *)

(* The type of the state. *)
TypeOK ==
  /\ phase \in [Conns -> Phases]
  /\ count \in [Users -> Nat]
  /\ ttl \in [Users -> {"new", "old", "none"}]
  /\ timer \in [Conns -> {"none", "delay", "offline", "done"}]
  /\ queue \in [Hubs -> Seq([user: Users, what: {"online", "offline"}])]
  /\ told \in [Users -> {"online", "offline"}]

(* Without faults the shared counter is the number of a user's connections,  *)
(* however the processes' OnConnect and OnDisconnect interleave.             *)
CounterExact ==
  Faults = {} => \A u \in Users : count[u] = Cardinality(Connected(u))

(* As long as every disconnect reaches Redis the counter is never too high:  *)
(* an expired key or a lost increment can only hide a user, not strand one   *)
(* online.  This is what lets the last disconnect find nothing remaining.    *)
NeverOvercounts ==
  Faults \cap {"crash", "redis"} = {} =>
    \A u \in Users : count[u] <= Cardinality(Connected(u))

(* With one process and nothing worse than quiet browsers, a user who left   *)
(* for good is in the end announced offline and stays so.                    *)
GoneIsAnnounced ==
  \A u \in Users :
    <>[](Connected(u) = {} /\ \E c \in Conns : UserOf[c] = u /\ phase[c] = "gone")
      => <>[](told[u] = "offline")

(* A key that never expires: the INCR that made it came without its EXPIRE. *)
Stuck(u) == IsOnline(u) /\ ttl[u] = "none"

(* Whatever crashed or failed, a user without connections ends up offline in *)
(* the store: what a dead process left in the counter expires.  Only a       *)
(* pipeline cut between INCR and EXPIRE (PresenceStore.Connect), followed by *)
(* a disconnect that never reached Redis, leaves a user online for good; a   *)
(* ping or a connect that succeeds in the meantime heals the key.            *)
GoneIsOffline ==
  \A u \in Users : <>[](Connected(u) = {}) => <>[]~IsOnline(u) \/ <>[]Stuck(u)

(* The cut pipeline is the only source of such a key.                        *)
KeysExpire == "redis" \notin Faults => \A u \in Users : ~Stuck(u)

(* "re-check online status - if reconnected during delay, abort" (hub.go,    *)
(* handleOfflineSchedule): offline is broadcast of users who are.            *)
OfflineOnlyIfGone ==
  [][\A c \in Conns : BroadcastOffline(c) => Connected(UserOf[c]) = {}]_vars

(* "IsOnline returns true if the user has at least one active connection"    *)
(* and "Refresh ... called on every successful pong" (presence.go): a user   *)
(* whose sockets are answering is online.                                    *)
OnlineWhileConnected ==
  \A u \in Users : (\E c \in Conns : UserOf[c] = u /\ phase[c] = "up") => IsOnline(u)
=============================================================================
