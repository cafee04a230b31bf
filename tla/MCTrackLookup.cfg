SPECIFICATION Spec
CONSTANTS
  Tocs <- MCTocs
  Lsns <- MCLsns
  Texts = {}
INVARIANTS
  AnswersSpanningTrack
  ProbesInsideTable
PROPERTIES
  LookupTerminates
