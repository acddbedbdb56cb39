SPECIFICATION Spec
CONSTANTS
  Machines = {m1}
  Jobs = {j1, j2}
  Requests = {r1, r2}
  NoPlan = NoPlan
  Durations = {1,2}
  Delays = {0, 1}
  Lead = 1
  Grace = 1
  LastAdmission = 2
  LastBase = 4
  DuplicateTargets = TRUE
  SendErrors = {}
  Stoppers = {}
SYMMETRY Symmetry
INVARIANT TimedKeepsClear
