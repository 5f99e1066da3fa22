\* 2^32 scaled to 2: an access unit of that many bytes or more.
SPECIFICATION Spec
CONSTANTS
  MaxCount = 4
  Configs <- MCOpus
  Blocks <- MCBlocks
  BadBlocks = {}
  NoBlock = "none"
  AuLens = {1, 2, 3}
  Durations = {1}
  AacDuration = 2
  OpusDelay = 1
  MaxFrames = 3
  U32 = 2
  MoovLen = 2
  MaxTicks = 1000
  Second = 2
  SampleRate = 1
INVARIANT TableMatchesDisk
CHECK_DEADLOCK FALSE
