SPECIFICATION Spec
CONSTANTS
  Name <- SomeNames
  BadName <- Nothing
  Topic <- SomeTopics
  MaxDepth = 3
  Words <- SomeWords
  Says <- SomeSays
  Note <- Notes
  FolderOf <- Places
  Umbral = 2
  ToolNote <- SecondNote
  FirstLines <- SomeLines
  Applied <- OtherLines
  Wanted <- SomeWanted
  Quoted <- NoQuotes
  EditDuringCall = FALSE
  MaxCalls = 2
  MaxEdits = 2
INVARIANTS ViewsAgree 
PROPERTIES VocabularyKept ToolTagsDeclared ProposalsKept
CHECK_DEADLOCK FALSE
