SPECIFICATION MachineSpec
CONSTANTS
  Workers = {w1, w2}
  Runner = Runner
  None = None
  Period = 8
  Full = 4
  NBackends = 2
  Ticks = 3
  Step = 3
  MaxSignals = 2
  Curves <- MCCurves
  Tasks <- MCTasks
  Zones = {z1, z2}
  Turn = 3
  Draws = {1}
  MaxUse = 2
  MaxSamples = 3
INVARIANTS
  MachineTypes StopLeavesNothing ExitCleans ExitStopsBackends LevelWithinCurve
  StopEndsContainer StopCutsScenario TaskLeavesNoChild EnergyIsTrue
  TerminalRestored
PROPERTIES RunnerEnds StopReturns
CHECK_DEADLOCK FALSE
