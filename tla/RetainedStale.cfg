\* One client that stays, one event.
SPECIFICATION Spec
CONSTANTS
  s1 = s1
  TypeUrls = {"a"}
  Trim <- TrimNothing
  InboxSize = 1
  MaxEvents = 1
  MaxDrops = 0
  Streams = {s1}
  ChanCap = 1
  Scripts <- OnceA
  Leavers = {}
  CancelEarly = FALSE
CHECK_DEADLOCK FALSE
INVARIANTS
  RetainedCurrent
