SPECIFICATION FairSpec
CONSTANTS
  Frame = {f1, f2, f3}
  NoFrame = NoFrame
INVARIANTS
  TypeOK
  FramesConserved
  DecodingAlone
  ResultOfRequest
PROPERTIES
  TurnEnds
CHECK_DEADLOCK FALSE
