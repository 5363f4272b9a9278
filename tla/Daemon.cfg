SPECIFICATION FairSpec
CONSTANTS
  NULL = NULL
  l = l
  x = x
  y = y
  z = z
  f1 = f1
  f2 = f2
  Launcher = l
  Pids <- ThreePids
  Files <- TwoFiles
  Options <- Archive
  Daemonise = TRUE
  PidFileWritable = TRUE
  EraseNonT38 = FALSE
  ForkCanFail = TRUE
INVARIANTS
  OneRecorder
  PidFileNamesTheDaemon
  TriggersRunAtMostOnce
  EveryTriggerIsAccountedFor
PROPERTIES
  WaitingEnds
