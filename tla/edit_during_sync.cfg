SPECIFICATION Spec
CONSTANTS
  Null = Null
  t1 = t1
  t2 = t2
  t3 = t3
  MaxCopies = 2
  Path <- NotePaths
  Text <- MCText
  Author <- AnaBob
  CopyNumber <- MCCopyNumber
  CopyName <- NoteCopies
  Vault <- TwoVaults
  Runner <- TwoVaults
  VaultOf <- OwnVault
  AuthorOf <- OwnAuthor
  InvalidPath <- AllValid
  DerivedPath <- Nothing
  GeneratedText <- Nothing
  EmptyText = Empty
  EditPath <- BothEditNote
  PageSize = 1
  EditDuringSync <- TwoVaults
  ReuseText = FALSE
  MaxEdits = 2
  MaxDeletes = 0
  MaxFails = 0
  MaxMishaps = 0
SYMMETRY TextSymmetry
INVARIANTS NoLostEdit
