SPECIFICATION CoreSpecification
CONSTANTS
  Handle = {core}
  Core = core
  Device = {ram}
  Memory = ram
  SizeOf <- Sizes
  InitialRanges <- Whole
  Redirects = {}
  EndianOf <- Little
  Contents <- Zeros
  BYTE_BITS = 2
  WORD_BYTES = 2
  U8 = 4
  U16 = 16
  Jumps = {}
  Deltas = {}
  Counts = {}
  BitSlices = {}
  Spans = {}
  Patterns = {}
  Values <- WrittenValues
  MaxOps = 6
  Registers <- Packed
INVARIANT
  RegistersReachable
PROPERTY
  ImplementsRegisterFile
CHECK_DEADLOCK FALSE
