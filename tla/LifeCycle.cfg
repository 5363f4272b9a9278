SPECIFICATION Spec
CONSTANTS
  NULL = NULL
  a = a
  p = p
  q = q
  r = r
  h1 = h1
  h2 = h2
  f1 = f1
  f2 = f2
  CallIds <- ThreeCalls
  Handles <- TwoDumpers
  MediaAddrs <- Addresses
  MaxIpPerCall = 4
  AbsTimeout = 310
  Times <- Crossing
  Tuples <- OneTuple
  Datagrams <- LifeCycle
  Fragments <- OneLaterFragment
  MethodFilter <- DefaultFilter
  RtpSave = "rtp+rtcp"
  T38Only = FALSE
  SkipN = 2
  Verbosity = 0
  OpenCanFail = TRUE
  Int32Max <- LastInt32
INVARIANTS
  TypeOK
  CallsAreUnique
  DumperOwnership
  NoCallOutstaysItsLimits
  TableIsBounded
  EndClosesEveryFile
PROPERTIES
  ImplementsCallRecorder
  SignallingStaysWithItsCall
  MediaKeepsTheCallOpen
