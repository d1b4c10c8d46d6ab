SPECIFICATION Spec
CONSTANTS
  c1 = c1
  c2 = c2
  alice = alice
  bob = bob
  hall = hall
  None = None
  p1 = p1
  Clients <- Pair
  Users <- TwoUsers
  UserOf <- PairUser
  Rooms <- OneRoom
  RoomOf <- PairInRoom
  Points = {p1}
  Handlers = {"presence", "typing", "cursor"}
  Kinds = {"presence.ping"}
  BroadcastCap = 2
  InboundCap = 1
  OfflineCap = 1
  SendCap = 2
  MaxInbound = 0
  MaxNews = 2
  Faults = {}
INVARIANT SlowClientOnlyDropped
CHECK_DEADLOCK FALSE
