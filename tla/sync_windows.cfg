SPECIFICATION FairSpec
CONSTANTS
  Null = Null
  t1 = t1
  t2 = t2
  t3 = t3
  MaxCopies = 2
  Path <- ColonPaths
  Text <- TwoTexts
  Author <- AnaBob
  CopyNumber <- MCCopyNumber
  CopyName <- ColonCopies
  Vault <- TwoVaults
  Runner <- TwoVaults
  VaultOf <- OwnVault
  AuthorOf <- OwnAuthor
  InvalidPath <- ColonInvalid
  DerivedPath <- Nothing
  GeneratedText <- Nothing
  EmptyText = Empty
  EditPath <- BothEditColon
  PageSize = 1
  EditDuringSync <- TwoVaults
  ReuseText = FALSE
  MaxEdits = 2
  MaxDeletes = 1
  MaxFails = 1
  MaxMishaps = 1
INVARIANTS DeletesAreUsers
PROPERTIES EventuallyConverged
