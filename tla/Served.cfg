\* Clients that stay and a connection that holds.
SPECIFICATION FairSpec
CONSTANTS
  s1 = s1
  s2 = s2
  TypeUrls = {"a", "b"}
  Trim <- TrimNothing
  InboxSize = 1
  MaxEvents = 1
  MaxDrops = 0
  Streams = {s1, s2}
  ChanCap = 1
  Scripts <- DistinctAB
  Leavers = {}
  CancelEarly = FALSE
CHECK_DEADLOCK FALSE
INVARIANTS
  ReceiversServed
PROPERTIES
  EventuallyServed
