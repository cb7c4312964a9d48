SPECIFICATION Spec
CONSTANTS
  Channels = {c1}
  Contents <- MCContents
  Tempos = {1}
  LoopEnds = {2, 5}
  Seeks = {0, 2}
  BlockFrames = 2
  MaxFrame = 5
  DrainLimit = 2
  QueueLimit = 3
  WrapLimit = 8
  MaxCommands = 3
  MaxEdits = 2
INVARIANT NoHungVoice
CHECK_DEADLOCK FALSE
