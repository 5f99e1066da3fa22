SPECIFICATION FairSpec
CONSTANTS
  MaxCount = 4
  Configs <- MCConfigs
  Blocks <- MCBlocks
  BadBlocks = {"bad"}
  NoBlock = "none"
  AuLens = {0, 1, 2}
  Durations = {0, 1, 2}
  AacDuration = 2
  OpusDelay = 1
  MaxFrames = 3
  U32 = 100
  MoovLen = 2
  MaxTicks = 1000
  Second = 2
  SampleRate = 1
INVARIANTS
  VisibleFileIsFaithful
  FinalizedFileIsVisible
  TableMatchesDisk
  TimesAreFaithful
  FileIsGapless
PROPERTIES
  FailedWriterIsInert
  ClosedFileIsSealed
  CloseCanBeRetried
  ImplementsMuxedFile
\* A final or failed writer accepts no further call: the system stops.
CHECK_DEADLOCK FALSE
