SPECIFICATION Spec
CONSTANTS
  c1 = c1
  c2 = c2
  alice = alice
  bob = bob
  hall = hall
  None = None
  p1 = p1
  Clients <- Pair
  Users <- TwoUsers
  UserOf <- PairUser
  Rooms <- OneRoom
  RoomOf <- PairInRoom
  Points = {p1}
  Handlers = {"typing", "cursor"}
  Kinds = {"typing.start", "typing.stop", "cursor.move"}
  BroadcastCap = 2
  InboundCap = 1
  OfflineCap = 1
  SendCap = 2
  MaxInbound = 2
  MaxNews = 0
  Faults = {}
INVARIANT CursorsConverge
INVARIANT TypingShownIsCurrent
SYMMETRY PairSwap
CHECK_DEADLOCK FALSE
