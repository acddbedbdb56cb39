SPECIFICATION FairSpec
CONSTANTS
  Daemons = {d1, d2}
  Commands = {c1, c2}
  None = None
  Serial = TRUE
  Full = 2
  Target = 2
  Threshold = 1
  IdleDaemons = {d2}
  Faults = {"death", "binary"}
INVARIANTS TypeOK StatusFindsDaemon CleanExitLeavesNothing BelievedIntensityIsSet
PROPERTIES YieldsToLoad ResumesUnlessDied
CHECK_DEADLOCK FALSE
