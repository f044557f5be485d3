SPECIFICATION Spec
CONSTANTS
  Frames <- MCFrames
  MaxFrames = 3
  MaxTaken = 2
  MaxQueue = 2
INVARIANTS
  Sound
PROPERTIES
  CloseIsLast
  KeepsSocketPromise
  CloseEnds
CHECK_DEADLOCK FALSE
