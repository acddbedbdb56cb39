SPECIFICATION Spec
CONSTANTS
  Acts = {a1, a2, a3}
  Machines = {m1, m2}
SYMMETRY Symmetry
INVARIANTS TypeOK RivalsMeetOnlyByRacing FlagsAreExclusive
CHECK_DEADLOCK FALSE
