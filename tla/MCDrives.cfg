CONSTANTS
  mixed = mixed
  later = later
  NoDisc = NoDisc
  Discs <- MCDiscs
  First <- MCFirst
  Last <- MCLast
  MaxTracks = 4
  Tracks = {1, 2, 4}
  Lsns = {0}
  Blocks = {1, 2}
  OtherDiscs <- MCOtherDiscs
  OtherLsns = {299, 899, 901}
  MaxEntry = 8
  MaxBlocks = 3
  MaxCommands = 6
SPECIFICATION DrivesSpec
INVARIANT TableOfOneReading
INVARIANT BlockSizeKnown
INVARIANT TableAnswersForDisc
INVARIANT SectorsAsAsked
PROPERTY TableNeverChanges
PROPERTY CallsEnd
