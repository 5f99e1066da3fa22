SPECIFICATION FairSpec
CONSTANTS
  RawTables <- MCTables
  WindowSize = 5
  BufLens = {1, 2}
  RawReaders = {r1}
  RawLimit = 2
  RawLens = {0, 3}
  Cuts = {3}
INVARIANTS
  AcceptedUnitsAreInside
  WindowHoldsStream
  CursorIsWhereSeekPutsIt
  RawReaderKeepsItsFrame
PROPERTIES
  UnitsAreWhole
  EndIsReached
  ImplementsFrameSource
\* A rejected file is not read, and its stream cannot shrink for ever.
CHECK_DEADLOCK FALSE
