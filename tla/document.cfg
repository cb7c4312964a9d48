SPECIFICATION DocumentSpec
CONSTANTS
  TopKey = 3
  Bar = 8
  Grid = 2
  FramesPerBar = 11
  PointsOf = 1
  FirstSongs <- MCSongs
  NewNotes <- MCNewNotes
  Deltas <- MCDeltas
  Transpositions <- MCTranspositions
  Grids = {2}
  Strengths = {50, 100}
  Lengths = {6, 8, 10}
  Swings = {0, 100}
  Shifts <- MCShifts
  Gates = {100, 40}
  Ranges <- MCRanges
  Windows = {0, 3}
  MaxSongEdits = 2
  NoInstrument = NoInstrument
  NoVoice = NoVoice
  NoBundle = NoBundle
  NoState = NoState
  Plugins = {"a", "b"}
  Unavailable = {"b"}
  MaxChannels = 2
  MaxIds = 2
  MaxDeeds = 3
  MaxProjects = 2
  Files <- MCFiles
  MaxDeleted = 2
  MintedId = 20
  Owners = {"p", "q"}
  NoFolder = NoFolder
  MaxSaves = 3
  Bundles = {1, 2}
  Contents <- MCContents
  MaxChanges = 2
  MaxScans = 3
INVARIANTS
  PlaysWhatIsWritten
  
  
  
  ListIsTrueUnlessLeftBehind
PROPERTIES
  SettingsAreKept
  
  QuarantineHolds
CHECK_DEADLOCK FALSE
