SPECIFICATION Spec
CONSTANTS
  Acts = {a1, a2}
  Machines = {m1}
INVARIANT RebuildBlocksBurnAndUpdate
CHECK_DEADLOCK FALSE
