SPECIFICATION Spec
CONSTANTS
  Handle = {h1, h2}
  Device = {"ram", "rom"}
  SizeOf <- Sizes
  InitialRanges <- TwoDevices
  Redirects <- SeamAlias
  EndianOf <- Orders
  Contents <- Zeros
  BYTE_BITS = 2
  WORD_BYTES = 2
  U8 = 4
  U16 = 16
  Jumps = {1, 8, 10}
  Deltas = {}
  Counts = {}
  BitSlices <- MixedSlices
  Spans = {1}
  Patterns = {1}
  Values <- WrittenValues
  MaxOps = 3
INVARIANTS
  StaleOnlyByOthers
  ReadsTheSlice
  WritesTheSlice
PROPERTY
  WriteBitsFrame
