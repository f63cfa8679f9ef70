SPECIFICATION Spec
CONSTANTS
  Thread = {t1, t2}
  NoThread = NoThread
  AddrMax = 7
  BucketSize = 2
  Registrations <- MixedRegistrations
  Redirections <- MixedRedirections
  Removals <- MixedRemovals
  Lookups <- MixedLookups
  MaxCalls = 4
INVARIANTS
  TypeOK
  NoOverlapAtPriority
  FirstHitIsTopPriority
  RangesComplete
  DeviceWindows
  RedirectsRemovable
PROPERTY
  ImplementsMap
CHECK_DEADLOCK FALSE
