\* Two streams for one type; one client leaves, once its request is through.
\* The connection may be lost once.
SPECIFICATION DeliverySpec
CONSTANTS
  s1 = s1
  s2 = s2
  TypeUrls = {"a"}
  Trim <- TrimNothing
  InboxSize = 1
  MaxEvents = 2
  MaxDrops = 1
  Streams = {s1, s2}
  ChanCap = 1
  Scripts <- OnceA
  Leavers = {s1}
  CancelEarly = FALSE
CHECK_DEADLOCK FALSE
INVARIANTS
  NoSendOnClosed
  EventsInOrder
  SubscriptionsTracked
PROPERTY
  DeliversInOrder
