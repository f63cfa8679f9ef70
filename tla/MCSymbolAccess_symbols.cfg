SPECIFICATION SymbolSpec
CONSTANTS
  Handle = {"own", "tool"}
  Own = "own"
  Tool = "tool"
  Device = {"ram", "rom"}
  SizeOf <- Sizes
  InitialRanges <- TwoDevices
  Redirects <- Alias
  EndianOf <- Orders
  BYTE_BITS = 4
  WORD_BYTES = 2
  U8 = 32
  U16 = 1024
  Contents <- Patterned
  Jumps = {}
  Deltas = {}
  Counts = {}
  BitSlices = {}
  Spans = {}
  Patterns = {}
  Values = {}
  MaxOps = 10
  Types <- Arena
  BITS_PER_BYTE = 4
  BITS = 8
  U32 = 256
  FLOAT_BYTES = {1, 2}
  Table <- Program
  Lookups <- Looked
  Streams <- Heard
  Payloads <- Written
  ForeignBytes <- Elsewhere
INVARIANTS
  ValuesFaithful
  TransferInOrder
  WalkInOrder
  EntriesInRoot
