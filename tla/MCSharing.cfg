SPECIFICATION Spec
CONSTANTS
  m1 = m1
  m2 = m2
  p1 = p1
  p2 = p2
  Other = other
  Media <- MCMedia
  BaseName <- MCBaseName
  OutputFile = "out"
  ContentLength <- MCLength
  StreamLength <- MCLength
  MaxSuffix = 2
  Settings <- MCSettings
  Processes <- MCProcesses
  Beginnings <- MCBeginnings
  Jobs <- MCJobs
  PageLength = 1
  MaxAttempts = 2
SYMMETRY MCSymmetry
INVARIANTS
  SharingTypeOK
  NothingLost
  OneByOneIsWhole
  AllSucceededIsWhole
