SPECIFICATION FairSpec
CONSTANTS
  c1 = c1
  c2 = c2
  c3 = c3
  c4 = c4
  alice = alice
  bob = bob
  h1 = h1
  h2 = h2
  Conns <- Three
  Users <- OneUser
  UserOf <- AllAlice
  Hubs <- OneHub
  HubOf <- AllH1
  Faults = {"quiet"}
INVARIANT TypeOK
INVARIANT NeverOvercounts
PROPERTY GoneIsAnnounced
CHECK_DEADLOCK FALSE
