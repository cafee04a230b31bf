\* A file of five bytes, reads up to one byte over the limit of a read and
\* seeks before, inside, at the end of and beyond the file.
SPECIFICATION Spec
CONSTANTS
  FileSize = 5
  MaxAllowedCount = 4
  Offsets = {0, 1, 3, 5, 7}
  Counts = {0, 1, 2, 3, 4, 5}
  Whences = {"SEEK_SET"}
  MaxOffset = 7
  OpenMayFail = TRUE
  SeekMayFail = FALSE
INVARIANTS
  OneFilePerOpenStream
  PositionIsFileOffset
PROPERTIES
  ImplementsByteCursor
