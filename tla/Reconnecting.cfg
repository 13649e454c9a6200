\* One client that asks for one or two types and may leave, a lost connection, a
\* channel for one event, and room for all events in the client's pipeline.
SPECIFICATION FairSpec
CONSTANTS
  s1 = s1
  TypeUrls = {"a", "b"}
  Trim <- TrimNothing
  InboxSize = 4
  MaxEvents = 1
  MaxDrops = 1
  Streams = {s1}
  ChanCap = 1
  Scripts <- DistinctAB
  Leavers = {s1}
  CancelEarly = FALSE
CHECK_DEADLOCK FALSE
INVARIANT
  TopicsSubscribed
PROPERTIES
  EventuallyResubscribed
  EventuallyReleased
  
