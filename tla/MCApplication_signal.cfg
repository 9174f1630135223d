SPECIFICATION AppSpec
CONSTANTS
  m1 = m1
  m2 = m2
  other = other
  Media <- MCMedia
  MediaOf <- MCMediaOf
  N = 2
  MaxSignals = 2
  Other = other
  BaseName <- MCBaseName
  OutputFile = "given"
  ContentLength <- MCContentLength
  StreamLength <- MCStreamLength
  MaxSuffix = 4
  Settings <- PlainOnly
  ErrorCodes = {404, 503}
  PageLength = 1
  InitialDisks <- EmptyOnly
INVARIANT SkipsTheCurrentTransfer
