SPECIFICATION BackendSpec
CONSTANTS
  m1 = m1
  m2 = m2
  r1 = r1
  r2 = r2
  s1 = s1
  s2 = s2
  j1 = j1
  j2 = j2
  v1 = v1
  v2 = v2
  v3 = v3
  WlMachines = {m1, m2}
  WlRequests = {r1, r2}
  Scenarios <- MCScenarios
  WlGrace = 1
  MaxWlJobs = 2
  LastRequest = 1
  NoJob = NoJob
  GpuMachines = {m1}
  GpuScenarios = {s1, s2}
  NamedIn <- MCNamedIn
  GpuIds = {j1, j2}
  GpuRaises = {j1}
  FleetMachines = {m1, m2}
  MaxRounds = 2
  ViewJobs = {v1, v2, v3}
  ViewMachine <- MCViewMachine
  MaxConnections = 2
  MaxAnswers = 1
  Connects = {c1, c2, c3}
  Disconnects = {d1, d2}
  NoConnection = NoConnection
INVARIANTS
  BackendTypes KeepsBehind SyncFailureStartsNothing OneGpuJobEach
  ScenarioInPlace BoxesAccounted AppliedMeansBuilt QuietWhenClear
  ViewIsRegistry ConnectionsAccounted
PROPERTIES LedgersKept FleetEnds
CHECK_DEADLOCK FALSE
