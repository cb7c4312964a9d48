SPECIFICATION PlaylistSpec
CONSTANTS
  NoId = NoId
  NoValue = NoValue
  Master = 0
  Loadable <- MCLoadable
  FirstId = 12
  Tempos = {2, 3}
  Values = {1}
  Lengths = {0, 2}
  Bars = {1, 2}
  MaxExecuted = 2
  MaxOpen = 2
CONSTRAINT OnTheLine
INVARIANTS
  HistoryIsSound
PROPERTIES
  AbortRestores
  FittingClipsKeepFitting
CHECK_DEADLOCK FALSE
