SPECIFICATION Spec
CONSTANTS
  Thread = {t1, t2}
  NoThread = NoThread
  AddrMax = 7
  BucketSize = 2
  Registrations <- StackedRegistrations
  Redirections <- None
  Removals <- None
  Lookups <- None
  MaxCalls = 2
INVARIANT
  NoWaitCycle
CHECK_DEADLOCK FALSE
