SPECIFICATION Spec
CONSTANTS
  m1 = m1
  m2 = m2
  other = other
  Media <- MCMedia
  Other = other
  BaseName <- MCBaseName
  OutputFile = "given"
  ContentLength <- MCContentLength
  StreamLength <- MCStreamLength
  MaxSuffix = 2
  Settings <- PlainOnly
  ErrorCodes = {503}
  PageLength = 0
  InitialDisks <- EmptyOnly
PROPERTY NoRetryAfterHttpError
