SPECIFICATION Spec
CONSTANTS
  Null = Null
  Invalid = Invalid
  a = a
  b = b
  ws = ws
  da = da
  db = db
  Slug <- TwoParches
  Folder <- AllFolders
  DefaultFolder <- Defaults
  WsVault = ws
  EnvPath = Null
  SearchRoots <- Roots
  FirstDirs <- WsExists
  MaxOps = 3
  MaxEvents = 1
INVARIANTS OneParchePerFolder WorkspaceKeepsItsParche CommandIsFollowed
CHECK_DEADLOCK FALSE
