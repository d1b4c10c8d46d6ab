------------------------------ MODULE Requests ------------------------------
(***************************************************************************)
(* What the feature modules share: the users, the slots of requests in     *)
(* flight, and the absent value.  A feature keeps its own request table,   *)
(* indexed by the slots; a free slot holds None.  The server handles every *)
(* HTTP request in a goroutine of its own and sets no limit, so the number *)
(* of slots is a bound of the checks only.                                 *)
(***************************************************************************)
CONSTANTS
  Users,   \* users that exist in the user table
  Slots,   \* request slots: how many requests of a feature can be in flight
  None     \* SQL NULL, no row, a free slot, a field that was not given

ASSUME RequestsAssumption == None \notin Users \cup Slots
=============================================================================
