SPECIFICATION StockSpec
CONSTANTS
  Kinds = {"piano", "guitar", "lowkey", "synth"}
  PlayedKeys = {5, 7}
  VoiceCount = 2
  ChunkFrames = 2
  ListRoom = 2
  ScoreLength = 2
  MaxTyped = 1
PROPERTIES
  AllNotesOffReleasesAll
CHECK_DEADLOCK FALSE
