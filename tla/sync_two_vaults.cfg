SPECIFICATION Spec
CONSTANTS
  Null = Null
  t1 = t1
  t2 = t2
  t3 = t3
  MaxCopies = 2
  Path <- NotePaths
  Text <- MCText
  Author <- AnaBob
  CopyNumber <- MCCopyNumber
  CopyName <- NoteCopies
  Vault <- TwoVaults
  Runner <- TwoVaults
  VaultOf <- OwnVault
  AuthorOf <- OwnAuthor
  InvalidPath <- AllValid
  DerivedPath <- Note
  GeneratedText <- GeneratedT1
  EmptyText = Empty
  EditPath <- BothEditNote
  PageSize = 1
  EditDuringSync <- OnlyA
  ReuseText = FALSE
  MaxEdits = 2
  MaxDeletes = 2
  MaxFails = 1
  MaxMishaps = 2
SYMMETRY HumanSymmetry
INVARIANTS CursorSound EditsBetweenSyncsKept NoDuplicateCopies OnlyUsersPublish NoBlindOverwrite
