SPECIFICATION Spec
CONSTANTS
  Base = 4
  Width = 2
  MaxLen = 16
  Sent <- MCSent
  Null = Null
INVARIANTS
  TypeOK
  AcceptsTheFormat
  DecodesWhatWasSent
