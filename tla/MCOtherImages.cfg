CONSTANTS
  Sheets <- MCSheets
  Here = {"near", "lone"}
  Beside = {"near", "away"}
  SizeOf <- MCSizeOf
  Header = 4
  Subheader = 2
  Frame = 5
  M2Raw = 8
  Raw = 12
  Form2End = 3
  Pregap = 2
  Lsns <- MCLsns
  Blocks = {0, 1, 2}
  Offsets = {0, 5, 12, 30}
  Sizes = {5}
SPECIFICATION ImagesSpec
INVARIANTS
  RefusedForItsFiles
  SectorsComeFromTheirTrack
CHECK_DEADLOCK FALSE
