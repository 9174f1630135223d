SPECIFICATION Spec
CONSTANTS
  m1 = m1
  m2 = m2
  other = other
  Media <- MCMedia
  Other = other
  BaseName <- MCBaseName
  OutputFile = "given"
  ContentLength <- MCContentLength
  StreamLength <- MCStreamLength
  MaxSuffix = 2
  Settings <- MCSettings
  ErrorCodes = {404, 503}
  PageLength = 1
  InitialDisks <- MCInitialDisks
INVARIANTS
  TypeOK
  ResumeInStep
  HandleIsSafe
  SuccessIsTheWholeRest
PROPERTY
  ImplementsStore
