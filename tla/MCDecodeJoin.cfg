SPECIFICATION FairSpec
CONSTANTS
  Frame = {f1}
  NoFrame = NoFrame
PROPERTY CloseReturns
CHECK_DEADLOCK FALSE
