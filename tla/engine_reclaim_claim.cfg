SPECIFICATION EngineSpec
CONSTANTS
  Objs = {o1, o2, o3}
  NoObj = NoObj
  Writers = {w1}
  MaxEpoch = 3
  MaxStarts = 2
  RelaxedReader = FALSE
  RelaxedWriter = FALSE
INVARIANT HeldAlive
CHECK_DEADLOCK FALSE
