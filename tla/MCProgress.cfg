SPECIFICATION FairProgressSpec
CONSTANTS
  Contents = {0, 2}
  Initials = {0, 1}
  MaxBytes = 3
  Interval = 2
  Widths <- MCWidths
  TextLengths <- MCTextLengths
  SizeMax = 256
INVARIANTS
  ProgressTypeOK
  DotsBeforeSummary
  FinalLineOnSuccess
PROPERTIES
  SizeNeverShrinks
  FitsTerminal
  CatchesUp
