SPECIFICATION Spec
CONSTANTS
  BYTE_BITS = 2
  WORD_BYTES = 2
  Names = {pc, sp, flags}
  Widths = {0, 1, 3, 4, 6}
  Offsets <- SomeOffsets
  Ordinals = {0, 1}
  U32 = 32
  MaxCalls = 3
INVARIANTS
  AutoRegistersApart
  RegistersBacked
CHECK_DEADLOCK FALSE
