CONSTANTS
  Discs <- MCDiscs
  BlockSize = 4
  Translated <- MCTranslated
  NameLimit = 4
  CeLimit = 2
  Paths <- MCPaths
  Masks <- MCMasks
  Limits = {0, 3}
SPECIFICATION FileSystemsSpec
INVARIANTS
  ReadAsWritten
  ListedIsFound
  FuzzyReadsInPlace
  UdfReadInOrder
