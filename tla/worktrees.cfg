SPECIFICATION FairSpec
CONSTANTS
  Repos <- Folders
  RepoLists <- SomeLists
  GitRepos <- ApiWeb
  Tickets <- TwoTickets
  Copies <- OnlyT1
  Cwd <- OnlyApi
  Tasks <- OneTask
  Files <- OneFile
  Ignoring <- OnlyApi
  MainPort <- ApiPort
  BasePort = 1
  StepPort = 1
  MaxPort = 4
  MaxAttempts = 2
  Machine <- Laptop
  MaxCalls = 2
  MaxEvents = 2
INVARIANTS PortsApart ParallelismSound
PROPERTIES WorkKept CallEnds
CHECK_DEADLOCK FALSE
