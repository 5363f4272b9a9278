SPECIFICATION Spec
CONSTANTS
  NULL = NULL
  a = a
  b = b
  empty = empty
  h1 = h1
  h2 = h2
  m1 = m1
  m2 = m2
  proxy = proxy
  CallIds <- TwoCalls
  EmptyCallId = empty
  Handles <- TwoDumpers
  MediaAddrs <- Addresses
  MaxIpPerCall = 2
  Packets <- SharedAddress
INVARIANTS
  TypeOK
  IndexedWhileLive
  CacheMatchesTable
PROPERTIES
  LiveCallGetsItsMedia
  SignallingOfLiveCallIsItsOwn
  ImplementsCallRecorder
SYMMETRY
  DumpersAreAlike
