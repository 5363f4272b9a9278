SPECIFICATION ReplaySpec
CONSTANTS
  NULL = NULL
  l = l
  x = x
  y = y
  z = z
  f1 = f1
  f2 = f2
  Launcher = l
  Pids <- ThreePids
  Files <- TwoFiles
  Options <- Missing
  Daemonise = TRUE
  PidFileWritable = FALSE
  EraseNonT38 = TRUE
  ForkCanFail = FALSE
INVARIANTS
  TypeOK
PROPERTIES
  ReplayEnds
