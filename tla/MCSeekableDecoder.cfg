SPECIFICATION Spec
CONSTANTS
  MaxCount = 10
  MaxTicks = 1000
  Second = 2
  Tracks <- MCTracks
  Times = {0, 2, 5, 6, 11}
  FrameSize = 2
  PreRoll = 2
  Sizes = {1, 5}
INVARIANTS
  OutputFollowsTarget
  CursorMatchesDecoder
  EndIsTheEnd
