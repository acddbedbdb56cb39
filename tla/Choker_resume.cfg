SPECIFICATION FairSpec
CONSTANTS
  Daemons = {d1}
  Commands = {}
  None = None
  Serial = TRUE
  Full = 1
  Target = 1
  Threshold = 1
  IdleDaemons = {}
  Faults = {"death"}
PROPERTY ResumesWhenIdle
CHECK_DEADLOCK FALSE
