SPECIFICATION Spec
CONSTANTS
  NULL = NULL
  l = l
  x = x
  y = y
  z = z
  f1 = f1
  f2 = f2
  Launcher = l
  Pids <- ThreePids
  Files <- OneFile
  Options <- Missing
  Daemonise = FALSE
  PidFileWritable = TRUE
  EraseNonT38 = FALSE
  ForkCanFail = FALSE
INVARIANTS
  ChildrenOnlyExec
