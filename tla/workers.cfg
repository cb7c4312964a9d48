SPECIFICATION WorkersSpec
CONSTANTS
  Producers = {p1, p2}
  Capacity = 2
  MaxPush = 3
  SongBlocks = 2
  TailBlocks = 1
  ExportQueue = 2
  MaxPostings = 3
  MaxExports = 2
  MaxLaunches = 2
  MaxCalls = 2
  MaxBlocks = 5
  MaxRestarts = 2
  MaxEditor = 1
INVARIANTS
  CellsAreSafe
  
  TornDownInOrder
  BlockIsSafeUnlessForgotten
PROPERTIES
  IsABoundedQueue
  PushedIsReceived
  ExportEnds
  AppComesBackUnlessHung
  AnswersAreItsOwn
  CallbackReturns
CHECK_DEADLOCK FALSE
