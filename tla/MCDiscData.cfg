SPECIFICATION DiscDataSpec
CONSTANTS
  Lsns <- MCLsns
  Texts <- MCTexts
  Transports <- MCTransports
  Drives <- MCDrives
  MmcDiscs <- MCMmcDiscs
  MAX_CD_READ_BLOCKS = 2
  Sizes = {100, 2352}
  Requests <- MCRequests
  KindDiscs <- MCKindDiscs
  Searches <- MCSearches
INVARIANTS
  MsfNamesLsn
  PrintedIsParsed
  TextReadAsWritten
  CommandsOfOneDisc
  KindsAsOnDisc
CHECK_DEADLOCK FALSE
