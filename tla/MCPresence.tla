----------------------------- MODULE MCPresence -----------------------------
(* Small instances of Presence: one user (users share nothing but the hubs) *)
(* with three connections, or two users with four.                          *)
EXTENDS Presence, TLC
CONSTANTS c1, c2, c3, c4, alice, bob, h1, h2

Three       == {c1, c2, c3}
OneUser     == {alice}
AllAlice    == [c \in Three |-> alice]
OneHub      == {h1}
AllH1       == [c \in Three |-> h1]
TwoHubs     == {h1, h2}
Spread      == c1 :> h1 @@ c2 :> h1 @@ c3 :> h2

Four        == {c1, c2, c3, c4}
TwoUsers    == {alice, bob}
TwoEach     == c1 :> alice @@ c2 :> alice @@ c3 :> bob @@ c4 :> bob
FourSpread  == c1 :> h1 @@ c2 :> h2 @@ c3 :> h1 @@ c4 :> h2
=============================================================================
