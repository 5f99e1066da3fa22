SPECIFICATION Spec
CONSTANTS
  Files <- MCFiles
  Limits = {0, 4, 12, 20, 30}
  MaxPCMReservation = 24
  MaxRetainedSlack = 4
  MaxBlockSize = 4
  FrameSamples = 2
  MaxFLACChannels = 8
  MaxOpusChannels = 2
  MaxFLACBitDepth = 32
  AppendRounding = 2
CHECK_DEADLOCK FALSE
INVARIANTS
  DecodeIsAllOrNothing
  MemoryIsBounded
  HonestFilesAreExact
