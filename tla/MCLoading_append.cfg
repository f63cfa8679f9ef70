SPECIFICATION Spec
CONSTANTS
  BITS = 8
  BYTE = 4
  MAX_REDIRECTS = 8
  U32 = 4096
  U64_LIMIT = 256
  MAX_SIZE = 8
  MAX_INDICES = 4
  NameOrder <- MCNameOrder
  Path <- MCPaths
  FileSets <- MCFileSets
  Entries <- MCEntries
  MaxLoads = 1
INVARIANT AppendsKeepSize
CHECK_DEADLOCK FALSE
