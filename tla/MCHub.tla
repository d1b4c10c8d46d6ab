------------------------------- MODULE MCHub -------------------------------
(* Small instances of Hub: two users with one connection each.           *)
EXTENDS Hub, TLC
CONSTANTS c1, c2, alice, bob, hall, p1

TwoUsers == {alice, bob}
OneRoom  == {hall}

(* Two users in one room. *)
Pair       == {c1, c2}
PairUser   == c1 :> alice @@ c2 :> bob
PairInRoom == c1 :> hall @@ c2 :> hall
(* Exchanging the two, users and connections together, changes nothing.  *)
PairSwap   == {c1 :> c2 @@ c2 :> c1 @@ alice :> bob @@ bob :> alice}
(* One of them connected at /ws only. *)
PairApart  == c1 :> hall @@ c2 :> None
=============================================================================
