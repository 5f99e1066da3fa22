SPECIFICATION Spec
CONSTANTS
  Files <- MCFiles
  Cuts = {0, 3, 12}
  Limits = {0, 5, 6}
  Word = 256
CHECK_DEADLOCK FALSE
INVARIANTS
  OpenedIsDeclared
  RefusalsAreDeserved
