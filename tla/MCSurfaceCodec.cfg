SPECIFICATION FairSpec
CONSTANTS
  f1 = f1
  f2 = f2
  NoFrame = NoFrame
  MaxIn = 2
  frames <- MCFrames
INVARIANTS
  TypeOK
  FramesConserved
  BuffersAccounted
  StaleHarmless
  NoLostWakeUp
PROPERTIES
  ReleaseAlone
  CallReturns
CHECK_DEADLOCK FALSE
