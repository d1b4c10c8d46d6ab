SPECIFICATION Spec
CONSTANTS
  c1 = c1
  c2 = c2
  alice = alice
  bob = bob
  hall = hall
  None = None
  p1 = p1
  Clients <- Pair
  Users <- TwoUsers
  UserOf <- PairUser
  Rooms <- OneRoom
  RoomOf <- PairApart
  Points = {p1}
  Handlers = {"presence", "cursor", "typing"}
  Kinds = {"presence.ping", "typing.start", "cursor.move", "check_offline", "malformed"}
  BroadcastCap = 1
  InboundCap = 1
  OfflineCap = 1
  SendCap = 1
  MaxInbound = 1
  MaxNews = 1
  Faults = {"typing ttl"}
INVARIANT TypeOK
INVARIANT MembersHaveOpenChannels
CHECK_DEADLOCK FALSE
