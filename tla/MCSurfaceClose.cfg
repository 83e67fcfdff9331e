SPECIFICATION FairSpec
CONSTANTS
  f1 = f1
  f2 = f2
  NoFrame = NoFrame
  MaxIn = 2
  frames <- MCFrames
PROPERTY
  CloseReturns
CHECK_DEADLOCK FALSE
