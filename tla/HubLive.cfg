SPECIFICATION FairSpec
CONSTANTS
  c1 = c1
  c2 = c2
  alice = alice
  bob = bob
  hall = hall
  None = None
  p1 = p1
  Clients <- Pair
  Users <- TwoUsers
  UserOf <- PairUser
  Rooms <- OneRoom
  RoomOf <- PairApart
  Points = {p1}
  Handlers = {"presence", "cursor"}
  Kinds = {"cursor.move"}
  BroadcastCap = 1
  InboundCap = 1
  OfflineCap = 1
  SendCap = 1
  MaxInbound = 1
  MaxNews = 0
  Faults = {"redis error", "write error", "shutdown"}
PROPERTY ConnectionReleased
CHECK_DEADLOCK FALSE
