SPECIFICATION EngineFair
CONSTANTS
  f1 = f1
  f2 = f2
  NoFrame = NoFrame
  MaxIn = 1
  MaxSeek = 1
  PlayN = 2
  frames <- MCFrame
INVARIANTS
  EngineTypeOK
  EngineHolds
  SinkCounted
  DisplayFresh
PROPERTY
  PicturesFlow
CHECK_DEADLOCK FALSE
