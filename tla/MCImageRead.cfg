SPECIFICATION Spec
CONSTANTS
  Images <- MCImages
  Header = 1
  Subheader = 1
  Frame = 3
  Raw = 6
  Pregap = 3
  Entries = 6
  Lsns <- MCLsns
  Blocks = {0, 1, 3}
  Offsets = {0, 1, 2, 3, 4, 5, 6, 7, 8, 9}
  Sizes = {1, 2, 3, 5, 30}
  MaxLba = 2
INVARIANTS
  SectorReadsInPlace
  ReadAfterSeek
PROPERTIES
  ReadEnds
CHECK_DEADLOCK FALSE
