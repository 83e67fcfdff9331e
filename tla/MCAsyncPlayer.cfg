SPECIFICATION FairSpec
CONSTANTS
  Pos <- TwoPositions
  MaxVideos = 2
INVARIANTS
  TypeOK
  CloseExclusive
  
  FreedQuiet
  PendingSeekPromise
  LastSeekWins
PROPERTIES
  CloseReturns
  DestroyReturns
