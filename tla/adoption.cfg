SPECIFICATION Spec
CONSTANTS
  Null = Null
  s1 = s1
  s2 = s2
  c1 = c1
  full = full
  empty = empty
  code1 = code1
  code2 = code2
  Task <- Tasks
  ProcOf <- TaskProc
  Folder <- TwoFolders
  Filled <- IsFull
  DefaultFolder = full
  Code <- TwoCodes
  MaxOps = 2
  MaxEnds = 1
SYMMETRY TaskSymmetry
INVARIANTS UnconfirmedOnlyInRaces
CHECK_DEADLOCK FALSE
