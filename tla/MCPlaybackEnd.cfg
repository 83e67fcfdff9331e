SPECIFICATION Spec
CONSTANTS
  NoPts = NoPts
  Files <- SmallFiles
  Buffer = 2
  Delay = 1
  Early = 1
  StartTime = 0
  Lengths <- MCLengths
  Speed = 1
  IntBound = 16
INVARIANT EndIsEnd
