SPECIFICATION Spec
CONSTANTS
  NULL = NULL
  a = a
  p = p
  q = q
  r = r
  h1 = h1
  h2 = h2
  f1 = f1
  f2 = f2
  CallIds <- TwoCalls
  Handles <- OneDumper
  MediaAddrs <- Addresses
  MaxIpPerCall = 4
  AbsTimeout = 2147483647
  Times <- EarlyLate
  Tuples <- TwoTuples
  Datagrams <- Fragmented
  Fragments <- LaterFragments
  MethodFilter <- DefaultFilter
  RtpSave = "rtp+rtcp"
  T38Only = FALSE
  SkipN = 1
  Verbosity = 0
  OpenCanFail = FALSE
  Int32Max <- LastInt32
PROPERTIES
  FragmentsReachTheirOwnFile
