SPECIFICATION FairSpec
CONSTANTS
  Thread = {t1, t2}
  NoThread = NoThread
  AddrMax = 7
  BucketSize = 2
  Registrations <- CleanRegistrations
  Redirections <- CleanRedirections
  Removals <- CleanRemovals
  Lookups <- CleanLookups
  MaxCalls = 5
PROPERTIES
  ResolvesAtomically
  CallsReturn
CHECK_DEADLOCK FALSE
