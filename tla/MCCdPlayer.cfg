SPECIFICATION PlayingSpec
CONSTANTS
  TheDisc = TheDisc
  Discs <- MCDiscs
  NoDisc = NoDisc
  Tracks <- MCTracks
  Length = 2
  Keys <- MCKeys
  Options <- MCOptions
  MaxDepth = 14
  MaxKeys = 2
  MaxHands = 1
  MaxFaults = 1
  Platforms <- MCPlatforms
  AudioDiscs <- MCAudioDiscs
  NoAudioDisc <- MCNoAudioDisc
  Addresses = {0, 8, 16}
  Pregap = 3
  Levels = {0, 1}
INVARIANTS PlayingAsAsked
PROPERTIES QuietOnceStopped AutoEjects
CHECK_DEADLOCK FALSE
