\* One client that may name a type twice, with and without the prefix, and may
\* leave at any time: the handlers may panic.
SPECIFICATION Spec
CONSTANTS
  s1 = s1
  TypeUrls = {"a", "prefix/a"}
  Trim <- TrimPrefixed
  InboxSize = 1
  MaxEvents = 1
  MaxDrops = 1
  Streams = {s1}
  ChanCap = 1
  Scripts <- AnyOfA
  Leavers = {s1}
  CancelEarly = TRUE
CHECK_DEADLOCK FALSE
INVARIANTS
  TypeOK
  SubscriptionsTracked
  MapsGuarded
  DiesUnused
