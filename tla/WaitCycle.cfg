\* One client that asks for three types, a connection that is lost once.
SPECIFICATION Spec
CONSTANTS
  s1 = s1
  TypeUrls = {"a", "b", "c"}
  Trim <- TrimNothing
  InboxSize = 1
  MaxEvents = 3
  MaxDrops = 1
  Streams = {s1}
  ChanCap = 1
  Scripts <- ABC
  Leavers = {}
  CancelEarly = FALSE
CHECK_DEADLOCK FALSE
INVARIANTS
  NoWaitCycle
