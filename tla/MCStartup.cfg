SPECIFICATION FairStartupSpec
CONSTANTS
  Occurrences <- MCAllOccurrences
  CommandLines <- MCCommandLines
  Configs <- MCConfigs
  IntMax = 127
  Items <- MCItems
  Inputs <- MCAllInputs
  StackLimit = 4
  Worlds <- MCWorlds
INVARIANTS
  StartupTypeOK
  CommandLineFirst
  Verdict
  InputAsRead
  OneOfEach
  ErrorsBeforeDetaching
PROPERTIES
  StartsOrEnds
  ShellIsReleased
