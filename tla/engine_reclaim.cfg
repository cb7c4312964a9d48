SPECIFICATION EngineFairSpec
CONSTANTS
  Objs = {o1, o2}
  NoObj = NoObj
  Writers = {w1}
  MaxEpoch = 3
  MaxStarts = 2
  RelaxedReader = FALSE
  RelaxedWriter = FALSE
INVARIANTS
  ReclaimsSafely
PROPERTIES
  ReclaimsInTime
CHECK_DEADLOCK FALSE
