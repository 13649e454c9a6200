\* One bundle with wrapInOperation, whose schedule triggers once.
SPECIFICATION Spec
CONSTANTS
  first = first
  second = second
  third = third
  event = event
  tick = tick
  Bundles = {first, second, third}
  Callbacks = {event, tick}
  Home <- InBundle
  Script <- Scripts
  Body <- Bodies
  Wrapped = {second}
  MsgsCap = 1
  MaxArrivals = 1
  Prepares <- Alone
  TypeServer = TRUE
  NameParts = 2
  BadVars = {}
CHECK_DEADLOCK FALSE
INVARIANT CompletedAfterCall
