SPECIFICATION CaptureSpec
CONSTANTS
  NULL = NULL
  a = a
  p = p
  q = q
  r = r
  h1 = h1
  h2 = h2
  f1 = f1
  f2 = f2
  v6a = v6a
  v6b = v6b
  CallIds <- TwoCalls
  Handles <- TwoDumpers
  MediaAddrs <- CaptureAddresses
  MaxIpPerCall = 4
  AbsTimeout = 2147483647
  Times <- EarlyLate
  Tuples <- DecodedTuples
  Datagrams <- DecodedDatagrams
  Fragments <- DecodedFragments
  Frames <- Mixed
  Fold <- Hosts
  MethodFilter <- DefaultFilter
  RtpSave = "rtp+rtcp"
  T38Only = FALSE
  SkipN = 1
  Verbosity = 0
  OpenCanFail = FALSE
  Int32Max <- LastInt32
INVARIANTS
  FragmentsFollowTheirCall
PROPERTIES
  
  OfferIsTracked
SYMMETRY
  DumpersAreAlike
