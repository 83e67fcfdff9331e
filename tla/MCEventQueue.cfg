SPECIFICATION FairSpec
CONSTANTS
  e1 = e1
  e2 = e2
  p1 = p1
  p2 = p2
  NoEvent = NoEvent
  MaxQueue = 3
  Event <- MCEvent
  Poster <- MCPoster
INVARIANTS
  TypeOK
  ContextAlive
PROPERTIES
  ChannelFair
  ReleaseReturns
CHECK_DEADLOCK FALSE
