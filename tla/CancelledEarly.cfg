\* A client that leaves while its request is being processed.
SPECIFICATION Spec
CONSTANTS
  s1 = s1
  TypeUrls = {"a"}
  Trim <- TrimNothing
  InboxSize = 1
  MaxEvents = 1
  MaxDrops = 0
  Streams = {s1}
  ChanCap = 1
  Scripts <- OnceA
  Leavers = {s1}
  CancelEarly = TRUE
CHECK_DEADLOCK FALSE
INVARIANTS
  NoSendOnClosed
