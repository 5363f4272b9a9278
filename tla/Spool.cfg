SPECIFICATION FairSpec
CONSTANTS
  NULL = NULL
  p1 = p1
  p2 = p2
  slash = slash
  colon = colon
  x = x
  y = y
  Recorders <- TwoRecorders
  Calls <- WithLongCall
  Sanitised <- AsciiSan
  Template <- ByDayAndCaller
  Days = 2
  Retention = 1
  T38Only = TRUE
  LinkMayFallSilent = FALSE
INVARIANTS
  
  OpenFilesAreKept
  
  OpenFailsOnlyIfDisturbed
PROPERTIES
  SpoolEmpties
