SPECIFICATION FairExecSpec
CONSTANTS
  Titles <- MCTitles
  Trs <- MCTrs
  Format <- MCFormat
  ExecLists <- MCExecLists
  OutputDir <- MCOutputDir
INVARIANTS
  ExecTypeOK
  NameIsTrimmed
  OneAfterAnother
  ArgumentsAsWritten
PROPERTY
  ExecEnds
