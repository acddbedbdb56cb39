SPECIFICATION Spec
CONSTANTS
  Machines = {m1}
  Jobs = {j1, j2}
  Requests = {r1, r2}
  NoPlan = NoPlan
  Durations = {1}
  Delays = {0}
  Lead = 1
  Grace = 0
  LastAdmission = 0
  LastBase = 0
  DuplicateTargets = FALSE
  SendErrors = {}
  Stoppers = {"user", "grace"}
INVARIANT NothingLost
