SPECIFICATION FairSpec
CONSTANTS
  None = None
  h1 = h1
  h2 = h2
  h3 = h3
  u1 = u1
  Hash <- Three
  Batches <- TwoBatches
  Unknown <- Bogus
  MaxAttempts = 2
  MaxSyncs = 2
  MaxPeers = 1
INVARIANTS JoinNotRepeated LoggedOnce AckedIsLogged
PROPERTIES PushEnds
CHECK_DEADLOCK FALSE
