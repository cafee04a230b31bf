SPECIFICATION Spec
CONSTANTS
  Lines <- MCLines
  MaxLines = 5
  LeadLsns = {6}
  Pregap = 2
INVARIANTS
  LoadedAsWritten
  ProbeAgreesWithLoad
  TracksDoNotOverlap
  OnlySupersededStringsLeak
CHECK_DEADLOCK FALSE
