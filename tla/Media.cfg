SPECIFICATION Spec
CONSTANTS
  NULL = NULL
  a = a
  p = p
  q = q
  r = r
  h1 = h1
  h2 = h2
  f1 = f1
  f2 = f2
  CallIds <- TwoCalls
  Handles <- TwoDumpers
  MediaAddrs <- Addresses
  MaxIpPerCall = 2
  AbsTimeout = 2147483647
  Times <- EarlyLate
  Tuples <- OneTuple
  Datagrams <- MediaCalls
  Fragments <- NoFragments
  MethodFilter <- DefaultFilter
  RtpSave = "rtp+rtcp"
  T38Only = TRUE
  SkipN = 1
  Verbosity = 0
  OpenCanFail = FALSE
  Int32Max <- LastInt32

  
PROPERTIES
  LiveCallGetsItsMedia
  AfterByeOnlyKnownSources
  EndingFitsTheCall
SYMMETRY
  DumpersAreAlike
