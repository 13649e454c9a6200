\* One client leaves as another comes.
SPECIFICATION Spec
CONSTANTS
  s1 = s1
  s2 = s2
  TypeUrls = {"a"}
  Trim <- TrimNothing
  InboxSize = 1
  MaxEvents = 0
  MaxDrops = 0
  Streams = {s1, s2}
  ChanCap = 1
  Scripts <- OnceA
  Leavers = {s1}
  CancelEarly = FALSE
CHECK_DEADLOCK FALSE
INVARIANTS
  UsedTopicSubscribed
