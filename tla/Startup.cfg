\* Three bundles, one prepared twice while it logs.
SPECIFICATION FairSpec
CONSTANTS
  first = first
  second = second
  third = third
  event = event
  tick = tick
  Bundles = {first, second, third}
  Callbacks = {event, tick}
  Home <- InBundle
  Script <- Scripts
  Body <- Bodies
  Wrapped = {second}
  MsgsCap = 1
  MaxArrivals = 2
  Prepares <- Order
  TypeServer = TRUE
  NameParts = 2
  BadVars = {third}
CHECK_DEADLOCK FALSE
INVARIANTS
  TypeOK
  CalledInOrder
  ScriptFirst
  LockReturned
  
PROPERTIES
  CallsOnceInOrder
  EventuallyServing
  
