SPECIFICATION Spec
CONSTANTS
  BITS <- MCBits
  Machine <- MCMachine
  MAX_REDIRECTS = 8
  U32 = 4096
  MAX_CALL_DEPTH = 3
  BYTE = 4
  NameOrder <- MCNameOrder
  Roms <- MCRoms
  Bases <- MCBases
  HostWrites <- MCHostWrites
  MaxSteps = 2
INVARIANTS
  FetchTruthful
  DecodeStable
  AssemblesBack
  NamesBound
CHECK_DEADLOCK FALSE
