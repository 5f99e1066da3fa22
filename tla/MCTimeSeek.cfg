SPECIFICATION Spec
CONSTANTS
  MaxCount = 3
  MaxTicks = 92
  Second = 7
  Tracks <- MCTracks
  Times <- MCTimes
INVARIANTS
  SeekFindsThePresentedSample
  SeekRangeIsDuration
  WindowIsConsistent
