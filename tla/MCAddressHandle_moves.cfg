SPECIFICATION AddressSpec
CONSTANTS
  Handle = {h1}
  Device = {"ram", "rom"}
  SizeOf <- Sizes
  InitialRanges <- TwoDevices
  Redirects <- Overlays
  Jumps <- EveryAddress
  Deltas <- SmallDeltas
  Counts <- SmallCounts
INVARIANTS
  HandleInWindow
  OriginInRange
  DivergesOnlyUnderOverlay
