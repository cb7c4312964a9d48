SPECIFICATION HandOverSpec
CONSTANTS
  Objs = {o1, o2, o3}
  NoObj = NoObj
  Writers = {w1, w2}
  MaxEpoch = 4
  MaxStarts = 2
  RelaxedReader = TRUE
  RelaxedWriter = TRUE
  WordCount = 3
  Attempts = 3
  MaxWrites = 3
  MaxReads = 2
  RelaxedStores = TRUE
  RelaxedLoads = TRUE
  TrackIds = {1, 2}
  Effects = {"x", "y"}
  Knob = {0, 1}
  Default = 0
  ParamQueue = 2
  ChunkTurns = 1
  NoMixer = NoMixer
  MaxMixerEdits = 5
  Devices <- MCDevices
  FormatOf <- MCFormatOf
  NoDevice = NoDevice
  MaxDeviceMoves = 1
  MaxLaneEdits = 2
  SavedSongs <- MCSavedSongs
  RackChannels = {"lead"}
  Everything = Everything
  NoPattern = NoPattern
  PlaybackTempos = {1, 2}
  DefaultTempo = 2
  ClipLengths = {1, 2}
  LastBar = 1
  Postbox = 4
  MaxUses = 4
SYMMETRY Symmetry
INVARIANTS
  FreedOnceAndAll
  HeldAliveInOrder
  SnapshotIsSound
  
  
  ScheduleIsShownUnlessRenewed
  TransportFollowsUnlessRefusedOrOvertaken
PROPERTIES
  NeverAcquiresRetired
CHECK_DEADLOCK FALSE
