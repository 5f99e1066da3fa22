SPECIFICATION Spec
CONSTANTS
  Configs <- MCConfigs
  AuLens = {0, 1, 3}
  Durations = {0, 1, 2}
  AacDuration = 2
  OpusDelay = 1
  MaxSamplesPerSegment = 3
  MaxSegmentBytes = 4
  MaxUint32 = 12
  MaxInt32 = 124
  InitSize = 5
  Word = 256
  MaxBoxBuffer = 124
  MaxTicks = 1000
  Second = 2
  SampleRate = 1
  MaxAccepted = 4
INVARIANTS
  TypeOK
  NothingLostNothingTwice
  PendingIsFlushable
  DecodeTimesContinue
  ReaderSeesWhatWasFlushed
  StreamIsGapless
