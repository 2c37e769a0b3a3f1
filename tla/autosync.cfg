SPECIFICATION FairSpec
CONSTANTS
  Name <- OneName
  BadName <- Nothing
  Topic <- OneTopic
  MaxDepth = 3
  Words <- OwnWord
  Says <- Silent
  FolderOf <- Places
  Umbral = 2
  Note <- OneNote
  Metas <- SomeMetas
  FirstMeta <- SomeNotes
  Docs <- BothDocs
  FirstDoc <- OneTopic
  Folders <- TwoFolders
  MaxEvents = 2
  MaxTexts = 2
INVARIANTS OwedMarked ManualKept CompleteIsExact
PROPERTIES FreshInTheEnd
CHECK_DEADLOCK FALSE
