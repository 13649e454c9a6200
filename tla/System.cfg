\* Two bundles with a callback each, for two types.
SPECIFICATION FairSystem
CONSTANTS
  first = first
  second = second
  one = one
  two = two
  Bundles = {first, second}
  Callbacks = {one, two}
  Home <- InBundle
  Script <- Scripts
  Body <- Bodies
  Wrapped = {}
  MsgsCap = 1
  MaxArrivals = 3
  Prepares <- Order
  TypeServer = FALSE
  NameParts = 1
  BadVars = {}
  OnEvent = {one, two}
  EventType <- TypeOf
  TypeUrls = {"a", "b"}
  Trim <- TrimNothing
  InboxSize = 1
  MaxEvents = 2
  MaxDrops = 0
CHECK_DEADLOCK FALSE
PROPERTIES
  RunsInOrder
  
