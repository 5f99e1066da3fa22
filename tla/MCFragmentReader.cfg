SPECIFICATION ReaderSpec
CONSTANTS
  Files <- MCFiles
  Styles <- MCStyles
  Word = 16
INVARIANTS
  GeometryIsAsDeclared
  AcceptedSamplesAreInside
  ForeignTrafsAreIgnored
  SegmentsAreRelocatable
\* NewReader opens the file once.
CHECK_DEADLOCK FALSE
