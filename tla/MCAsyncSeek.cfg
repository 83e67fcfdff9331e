SPECIFICATION EngineSpec
CONSTANTS
  f1 = f1
  f2 = f2
  NoFrame = NoFrame
  MaxIn = 1
  MaxSeek = 1
  PlayN = 2
  frames <- MCFrames
PROPERTY
  PictureOfSeek
CHECK_DEADLOCK FALSE
