\* maxFrames scaled to 8, and the 32-bit box size with it to 64 = 8 * maxFrames.
SPECIFICATION Spec
CONSTANTS
  MaxCount = 100
  Configs <- MCOpus
  Blocks <- MCBlocks
  BadBlocks = {}
  NoBlock = "none"
  AuLens = {1}
  Durations = {1, 2}
  AacDuration = 2
  OpusDelay = 1
  MaxFrames = 8
  U32 = 100
  MoovLen = 1
  MaxTicks = 1000
  Second = 2
  SampleRate = 1
INVARIANT TablesFitBoxes
CHECK_DEADLOCK FALSE
