SPECIFICATION Spec
CONSTANTS
  Calls <- MCCalls
  Blocks <- MCBlocks
  MaxUnits = 2
  PayloadSizes <- MCPayloadSizes
  BlockSize = 4
  MaxReservation <- MCMaxReservation
  MaxInt64 <- MCMaxInt64
  DefaultBitrate = 8191
  Word = 1048576
  MaxTicks = 2000000000
  Second = 1
\* A call that has returned is over.
CHECK_DEADLOCK FALSE
INVARIANTS
  ReadsBackAsConfigured
  PresentsTheInput
  ReservationFits
