SPECIFICATION SoundSpec
CONSTANTS
  Channels = {c1, c2}
  Contents <- MCContents
  Tempos = {1, 2}
  LoopEnds = {3}
  Seeks = {3}
  BlockFrames = 2
  MaxFrame = 5
  DrainLimit = 2
  QueueLimit = 2
  WrapLimit = 8
  MaxCommands = 2
  MaxEdits = 2
  MaxVoices = 2
  SampledKeys = {0, 1}
  Transposes <- MCTransposes
  Kinds = {"piano", "guitar", "lowkey", "synth"}
  PlayedKeys = {5, 7}
  VoiceCount = 2
  ChunkFrames = 2
  ListRoom = 2
  ScoreLength = 2
  MaxTyped = 1
  FileFrames = 8
  FramesPerUnit = 2
  ClipTempos = {1, 2}
  DropTicks = {0, 1}
  ClipTicks = {2, 5}
  TrimOffsets = {0, 1}
  TrimLengths = {0, 2}
  LastTick = 8
  ClipIds = {1, 2}
  MaxClipEdits = 5
SYMMETRY ChannelsAlike
INVARIANTS
  SoundsAsScheduled
  SoundsWhileHeldUnlessAdrift
  HeldIsWantedUnlessUnheard
  StretchedIsPinnedUnlessReopened
PROPERTIES
  UntouchedChannelsRingOn
  ChordKeepsItsVoices
  
CHECK_DEADLOCK FALSE
