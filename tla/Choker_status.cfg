SPECIFICATION Spec
CONSTANTS
  Daemons = {d1, d2}
  Commands = {c1}
  None = None
  Serial = FALSE
  Full = 1
  Target = 1
  Threshold = 1
  IdleDaemons = {}
  Faults = {}
INVARIANT StatusFindsDaemon
CHECK_DEADLOCK FALSE
