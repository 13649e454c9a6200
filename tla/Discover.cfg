\* Every archive of up to three items, and every pair of a few entries.
SPECIFICATION Spec
CONSTANTS
  Names = {"package.json", "index.js", "d"}
  Roots <- SomeRoots
CHECK_DEADLOCK FALSE
INVARIANTS
  TypeOK
  UnpackedExactly
  BundlesFound
  NothingLeft
