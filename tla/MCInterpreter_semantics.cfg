SPECIFICATION Spec
CONSTANTS
  BITS <- MCBits
  Machine <- MCMachine
  MAX_REDIRECTS = 8
  U32 = 4096
  MAX_CALL_DEPTH = 4
  Programs <- MCPrograms
  Arguments <- MCArguments
  Contents <- MCContents
INVARIANTS
  FramesReleased
  AnalysisSound
  ParsesBack
  TraceReplays
  HostExact
PROPERTIES
  FieldFrame
  TraceShowsRegister
CHECK_DEADLOCK FALSE
