--------------------------- MODULE Workloads_proofs ---------------------------
(***************************************************************************)
(* Proofs about the jobs of the two workload controllers: CPU jobs, for    *)
(* any scenarios, the job ledger they implement included; and GPU jobs,    *)
(* for any sets of machines, scenarios and jobs.                           *)
(***************************************************************************)
EXTENDS WorkloadJobs, GpuJobs, FiniteSetTheorems, TLAPS

-----------------------------------------------------------------------------
(* The jobs of CPU workloads *)

\* Ids are handed out in order, each with a plan.
IdsInv ==
  /\ \E n \in 0..MaxWlJobs : Used = 1..n
  /\ \A j \in Used : wlPlan[j] \in WlPlans

\* What StartScenario does to the ids, without counting them.
NewIds(r, ids) ==
  /\ ids \subseteq WlJobs \ Used
  /\ wlPlan' \in [WlJobs -> WlPlans \cup {NoJob}]
  /\ wlPhase' = [j \in WlJobs |-> IF j \in ids THEN "waiting" ELSE wlPhase[j]]
  /\ \A j \in WlJobs \ ids : wlPlan'[j] = wlPlan[j]
  /\ \A j \in ids :
       /\ wlPlan'[j] \in WlPlans
       /\ wlPlan'[j].request = r
       /\ wlPlan'[j].checked = clock + wlPlan'[j].job.delay
       /\ wlPlan'[j].over = wlRegistry
       /\ KeepsClear(wlPlan'[j].job)

LEMMA StartMakes ==
  ASSUME WorkloadTypeOK, IdsInv, NEW r \in WlRequests,
         NEW scenario \in Scenarios[r], StartScenario(r, scenario)
  PROVE  IdsInv' /\ \E ids \in SUBSET WlJobs : NewIds(r, ids)
<1> DEFINE used == Cardinality(Used)
           ids == (used + 1)..(used + Len(scenario))
           plan(j) == [job |-> scenario[j - used], request |-> r,
                       checked |-> clock + scenario[j - used].delay,
                       over |-> wlRegistry]
<1>1. MaxWlJobs \in Nat /\ scenario \in Seq(ScenarioJobs)
  BY WorkloadAssumption
<1>2. PICK n \in 0..MaxWlJobs : Used = 1..n
  BY DEF IdsInv
<1>3. used = n
  BY <1>1, <1>2, FS_Interval
<1>4. Len(scenario) \in Nat /\ n + Len(scenario) <= MaxWlJobs
  BY <1>1, <1>3 DEF StartScenario
<1>5. ids = (n + 1)..(n + Len(scenario))
  BY <1>3
<1>6. /\ wlPlan' = [j \in WlJobs |-> IF j \in ids THEN plan(j) ELSE wlPlan[j]]
      /\ wlPhase' = [j \in WlJobs |->
                       IF j \in ids THEN "waiting" ELSE wlPhase[j]]
      /\ \A i \in DOMAIN scenario : KeepsClear(scenario[i])
  BY DEF StartScenario
<1>7. \A j \in ids : j - used \in DOMAIN scenario
                     /\ scenario[j - used] \in ScenarioJobs
  BY <1>1, <1>3, <1>4, <1>5
<1>8. \A j \in ids : plan(j) \in WlPlans /\ KeepsClear(plan(j).job)
  <2> SUFFICES ASSUME NEW j \in ids
               PROVE  plan(j) \in WlPlans /\ KeepsClear(plan(j).job)
    OBVIOUS
  <2>1. scenario[j - used] \in ScenarioJobs /\ KeepsClear(scenario[j - used])
    BY <1>6, <1>7
  <2>2. scenario[j - used].delay \in Nat
    BY <2>1 DEF ScenarioJobs
  <2> QED
    BY <2>1, <2>2 DEF WlPlans, WorkloadTypeOK
<1> HIDE DEF ids
<1>9. ids \subseteq WlJobs \ Used
  BY <1>1, <1>2, <1>4, <1>5 DEF WlJobs
<1>10. NewIds(r, ids)
  BY <1>9, <1>6, <1>8 DEF NewIds, WorkloadTypeOK
<1>11. Used' = Used \cup ids
  BY <1>9, <1>6 DEF Used
<1>12. Used' = 1..(n + Len(scenario))
  BY <1>1, <1>2, <1>4, <1>5, <1>11
<1>13. IdsInv'
  <2>1. n + Len(scenario) \in 0..MaxWlJobs
    BY <1>1, <1>4
  <2>2. \A j \in Used' : wlPlan'[j] \in WlPlans
    BY <1>10, <1>11 DEF IdsInv, NewIds, Used
  <2> QED
    BY <1>12, <2>1, <2>2 DEF IdsInv, WlPlans
<1> QED
  BY <1>9, <1>10, <1>13

LEMMA WorkloadBasics == WorkloadSpec => [](WorkloadTypeOK /\ IdsInv)
<1> USE WorkloadAssumption
<1>1. WorkloadInit => WorkloadTypeOK /\ IdsInv
  <2> SUFFICES ASSUME WorkloadInit PROVE WorkloadTypeOK /\ IdsInv
    OBVIOUS
  <2>1. Used = 1..0
    BY DEF WorkloadInit, Used
  <2> QED
    BY <2>1 DEF WorkloadInit, WorkloadTypeOK, IdsInv
<1>2. WorkloadTypeOK /\ IdsInv /\ [WorkloadNext]_workloadVars
        => WorkloadTypeOK' /\ IdsInv'
  <2> SUFFICES ASSUME WorkloadTypeOK, IdsInv, [WorkloadNext]_workloadVars
               PROVE  WorkloadTypeOK' /\ IdsInv'
    OBVIOUS
  <2> USE DEF WorkloadTypeOK
  <2>1. ASSUME NEW r \in WlRequests, NEW scenario \in Scenarios[r],
               StartScenario(r, scenario)
        PROVE  WorkloadTypeOK' /\ IdsInv'
    <3>1. PICK ids \in SUBSET WlJobs : NewIds(r, ids)
      BY <2>1, StartMakes
    <3>2. scenario \in Seq(ScenarioJobs)
      OBVIOUS
    <3>3. {scenario[i].machine : i \in DOMAIN scenario} \subseteq WlMachines
      <4> SUFFICES ASSUME NEW i \in DOMAIN scenario
                   PROVE  scenario[i].machine \in WlMachines
        OBVIOUS
      <4>1. scenario[i] \in ScenarioJobs
        BY <3>2
      <4> QED
        BY <4>1 DEF ScenarioJobs
    <3>4. wlPlan' \in [WlJobs -> WlPlans \cup {NoJob}]
      BY <3>1 DEF NewIds
    <3>5. wlPhase' = [j \in WlJobs |-> IF j \in ids THEN "waiting"
                                       ELSE wlPhase[j]]
      BY <3>1 DEF NewIds
    <3>6. WorkloadTypeOK'
      BY <2>1, <3>3, <3>4, <3>5 DEF StartScenario
    <3> QED
      BY <2>1, <3>6, StartMakes
  <2>2. ASSUME wlPlan' = wlPlan, Used' = Used PROVE IdsInv'
    BY <2>2 DEF IdsInv, WlPlans
  <2> USE DEF Used
  <2>3. ASSUME NEW r \in WlRequests,
               (\E m \in WlMachines : SyncDone(r, m)) \/ SyncFails(r)
               \/ AnswerScenario(r)
        PROVE  WorkloadTypeOK' /\ IdsInv'
    BY <2>2, <2>3 DEF SyncDone, SyncFails, AnswerScenario
  <2>4. ASSUME NEW r \in WlRequests, BeginStarts(r)
        PROVE  WorkloadTypeOK' /\ IdsInv'
    <3>1. Synced(r) \subseteq Used
      BY DEF Synced, WlJobsOf
    <3>2. \A j \in Synced(r) : wlPlan[j].job.delay \in Nat
      BY <3>1 DEF IdsInv, WlPlans, ScenarioJobs
    <3> HIDE DEF Synced
    <3>3. WorkloadTypeOK'
      BY <2>4, <3>2 DEF BeginStarts
    <3> QED
      BY <2>2, <2>4, <3>3 DEF BeginStarts
  <2>5. ASSUME NEW j \in WlJobs,
               RegisterWorkload(j) \/ LaunchRunnerFails(j)
               \/ AnnouncedWorkload(j) \/ AnnounceWorkloadRaises(j)
        PROVE  WorkloadTypeOK' /\ IdsInv'
    BY <2>2, <2>5 DEF RegisterWorkload, LaunchRunnerFails, AnnouncedWorkload,
                      AnnounceWorkloadRaises
  <2>6. ASSUME NEW j \in WlJobs,
               ExpireWorkload(j) \/ ExpireWorkloadTold(j)
               \/ ExpireWorkloadRaises(j) \/ PopWorkload(j)
        PROVE  WorkloadTypeOK' /\ IdsInv'
    <3>1. wlPlan' = wlPlan /\ wlPhase' = wlPhase
      BY <2>6 DEF ExpireWorkload, ExpireWorkloadTold, ExpireWorkloadRaises,
                  PopWorkload
    <3>2. CASE ExpireWorkload(j)
      BY <2>2, <3>1, <3>2 DEF ExpireWorkload
    <3>3. CASE ExpireWorkloadTold(j)
      BY <2>2, <3>1, <3>3 DEF ExpireWorkloadTold
    <3>4. CASE PopWorkload(j)
      BY <2>2, <3>1, <3>4 DEF PopWorkload
    <3>5. CASE ExpireWorkloadRaises(j)
      BY <2>2, <3>1, <3>5 DEF ExpireWorkloadRaises
    <3> QED
      BY <2>6, <3>2, <3>3, <3>4, <3>5
  <2>7. ASSUME NEW j \in WlJobs, PopWorkloadNone(j) \/ StopWorkloadTold(j)
        PROVE  WorkloadTypeOK' /\ IdsInv'
    <3>1. CASE PopWorkloadNone(j)
      BY <2>2, <3>1 DEF PopWorkloadNone
    <3>2. CASE StopWorkloadTold(j)
      BY <2>2, <3>2 DEF StopWorkloadTold
    <3> QED
      BY <2>7, <3>1, <3>2
  <2>8. ASSUME NEW J \in SUBSET WlJobs,
               ResolveWorkloads(J) \/ CancelWorkloads(J)
        PROVE  WorkloadTypeOK' /\ IdsInv'
    BY <2>2, <2>8 DEF ResolveWorkloads, CancelWorkloads
  <2>9. CASE WlTick
    BY <2>2, <2>9 DEF WlTick
  <2>10. CASE UNCHANGED workloadVars
    BY <2>2, <2>10 DEF workloadVars
  <2> QED
    BY <2>1, <2>3, <2>4, <2>5, <2>6, <2>7, <2>8, <2>9, <2>10 DEF WorkloadNext
<1> QED
  BY <1>1, <1>2, PTL DEF WorkloadSpec

RunnerKnown(j) == wlPhase[j] \in {"announcing", "tracked", "untimed"}

\* A job leaves its waiting with all sources in place, together with the other
\* jobs of its request.
RequestInv ==
  /\ \A j \in Used :
       /\ wlRequest[wlPlan[j].request] # "idle"
       /\ wlPhase[j] # "waiting" =>
            /\ wlRequest[wlPlan[j].request] \in {"starting", "ok", "error"}
            /\ wlUnsynced[wlPlan[j].request] = {}
  /\ \A j \in wlRegistry : RunnerKnown(j)

\* A window only moves later, and those it was compared with do not move.
WindowInv ==
  \A j \in Used :
    /\ wlPlan[j].checked <= clock + wlPlan[j].job.delay
    /\ wlPhase[j] # "waiting" => wlStart[j] >= wlPlan[j].checked
    /\ \A k \in wlPlan[j].over :
         /\ RunnerKnown(k)
         /\ WlMachine(j) = WlMachine(k) /\ wlPlan[j].checked >= WlEnd(k) =>
              wlPlan[j].checked >= WlEnd(k) + WlGrace

\* Steps that hand out no ids and begin no start.
WindowsCalm ==
  /\ clock' \in Nat /\ clock' >= clock
  /\ wlPlan' = wlPlan /\ wlStart' = wlStart
  /\ \A j \in WlJobs :
       /\ (wlPhase'[j] = "none") <=> (wlPhase[j] = "none")
       /\ (wlPhase'[j] = "waiting") <=> (wlPhase[j] = "waiting")
       /\ RunnerKnown(j) => RunnerKnown(j)'
  /\ \A r \in WlRequests :
       /\ wlRequest[r] # "idle" => wlRequest'[r] # "idle"
       /\ wlRequest[r] \in {"starting", "ok", "error"} =>
            wlRequest'[r] \in {"starting", "ok", "error"}
       /\ wlUnsynced'[r] \subseteq wlUnsynced[r]
  /\ \A j \in wlRegistry' : RunnerKnown(j)'

LEMMA PlanTypes ==
  ASSUME IdsInv, NEW j \in Used
  PROVE  /\ wlPlan[j].request \in WlRequests
         /\ wlPlan[j].checked \in Nat
         /\ wlPlan[j].over \subseteq WlJobs
         /\ wlPlan[j].job.delay \in Nat /\ wlPlan[j].job.duration \in Nat
  BY DEF IdsInv, WlPlans, ScenarioJobs

LEMMA WindowsCalmStep ==
  WorkloadTypeOK /\ IdsInv /\ RequestInv /\ WindowInv /\ WindowsCalm
    => RequestInv' /\ WindowInv'
<1> SUFFICES ASSUME WorkloadTypeOK, IdsInv, RequestInv, WindowInv, WindowsCalm
             PROVE  RequestInv' /\ WindowInv'
  OBVIOUS
<1>1. Used' = Used
  BY DEF WindowsCalm, Used
<1>2. RequestInv'
  BY <1>1, PlanTypes DEF WindowsCalm, RequestInv, Used
<1>3. WindowInv'
  <2> SUFFICES ASSUME NEW j \in Used
               PROVE  /\ wlPlan[j].checked <= clock' + wlPlan[j].job.delay
                      /\ wlPhase'[j] # "waiting" =>
                           wlStart[j] >= wlPlan[j].checked
                      /\ \A k \in wlPlan[j].over : RunnerKnown(k)'
    BY <1>1 DEF WindowsCalm, WindowInv, WlMachine, WlEnd
  <2>1. wlPlan[j].checked <= clock' + wlPlan[j].job.delay
    BY PlanTypes DEF WindowsCalm, WindowInv, WorkloadTypeOK
  <2>2. wlPhase'[j] # "waiting" => wlStart[j] >= wlPlan[j].checked
    BY DEF WindowsCalm, WindowInv, Used
  <2>3. \A k \in wlPlan[j].over : RunnerKnown(k)'
    BY PlanTypes DEF WindowsCalm, WindowInv
  <2> QED
    BY <2>1, <2>2, <2>3
<1> QED
  BY <1>2, <1>3

LEMMA StartKeepsWindows ==
  ASSUME WorkloadTypeOK, IdsInv, RequestInv, WindowInv, NEW r \in WlRequests,
         NEW scenario \in Scenarios[r], StartScenario(r, scenario)
  PROVE  RequestInv' /\ WindowInv'
<1>1. PICK ids \in SUBSET WlJobs : NewIds(r, ids)
  BY StartMakes
<1>2. IdsInv'
  BY StartMakes
<1>3. /\ wlRequest[r] = "idle"
      /\ wlRequest' = [wlRequest EXCEPT ![r] = "syncing"]
      /\ \A q \in WlRequests \ {r} : wlUnsynced'[q] = wlUnsynced[q]
      /\ UNCHANGED <<clock, wlRegistry, wlStart>>
  BY DEF StartScenario, WorkloadTypeOK
<1>4. \A j \in Used : /\ j \in WlJobs \ ids
                      /\ wlPlan'[j] = wlPlan[j] /\ wlPhase'[j] = wlPhase[j]
  BY <1>1 DEF NewIds, Used
<1>5. \A j \in Used' \ Used : j \in ids
  BY <1>1 DEF NewIds, Used
<1>6. \A j \in wlRegistry : j \in Used /\ RunnerKnown(j)
  BY DEF RequestInv, RunnerKnown, Used, WorkloadTypeOK
<1>7. \A j \in ids : wlPhase'[j] = "waiting"
  BY <1>1 DEF NewIds
<1>8. RequestInv'
  <2>1. \A j \in wlRegistry' : RunnerKnown(j)'
    BY <1>3, <1>4, <1>6 DEF RunnerKnown
  <2>2. ASSUME NEW j \in Used'
        PROVE  /\ wlRequest'[wlPlan'[j].request] # "idle"
               /\ wlPhase'[j] # "waiting" =>
                    /\ wlRequest'[wlPlan'[j].request]
                         \in {"starting", "ok", "error"}
                    /\ wlUnsynced'[wlPlan'[j].request] = {}
    <3>1. CASE j \in Used
      <4>1. wlPlan[j].request \in WlRequests \ {r}
        BY <1>3, <3>1, PlanTypes DEF RequestInv
      <4>2. /\ wlRequest'[wlPlan[j].request] = wlRequest[wlPlan[j].request]
            /\ wlUnsynced'[wlPlan[j].request] = wlUnsynced[wlPlan[j].request]
        BY <1>3, <4>1 DEF WorkloadTypeOK
      <4> QED
        BY <1>4, <3>1, <4>2 DEF RequestInv
    <3>2. CASE j \notin Used
      BY <1>1, <1>3, <1>5, <1>7, <3>2 DEF NewIds, WorkloadTypeOK
    <3> QED
      BY <3>1, <3>2
  <2> QED
    BY <2>1, <2>2 DEF RequestInv
<1>9. WindowInv'
  <2> DEFINE Window(j) ==
        /\ wlPlan[j].checked <= clock + wlPlan[j].job.delay
        /\ wlPhase[j] # "waiting" => wlStart[j] >= wlPlan[j].checked
        /\ \A k \in wlPlan[j].over :
             /\ RunnerKnown(k)
             /\ WlMachine(j) = WlMachine(k) /\ wlPlan[j].checked >= WlEnd(k) =>
                  wlPlan[j].checked >= WlEnd(k) + WlGrace
  <2>1. ASSUME NEW j \in Used PROVE Window(j)'
    <3>1. \A k \in wlPlan[j].over : k \in Used
      BY <2>1, PlanTypes DEF WindowInv, RunnerKnown, Used
    <3> QED
      BY <1>3, <1>4, <2>1, <3>1
         DEF WindowInv, RunnerKnown, WlMachine, WlEnd
  <2>2. ASSUME NEW j \in ids PROVE Window(j)'
    <3>1. /\ wlPlan'[j].over = wlRegistry
          /\ wlPlan'[j].checked = clock + wlPlan'[j].job.delay
          /\ KeepsClear(wlPlan'[j].job)
      BY <1>1, <2>2 DEF NewIds
    <3>2. /\ wlPlan'[j].job.delay \in Nat /\ wlPlan'[j].job.duration \in Nat
          /\ clock \in Nat /\ WlGrace \in Nat
      BY <1>1, <2>2, WorkloadAssumption
         DEF NewIds, WlPlans, ScenarioJobs, WorkloadTypeOK
    <3>3. wlPlan'[j].checked <= clock' + wlPlan'[j].job.delay
      BY <1>3, <3>1, <3>2
    <3>4. ASSUME NEW k \in wlRegistry, wlPlan'[j].job.machine = WlMachine(k),
                 wlPlan'[j].checked >= WlEnd(k)
          PROVE  wlPlan'[j].checked >= WlEnd(k) + WlGrace
      <4>1. ~WindowsOverlap(wlPlan'[j].checked,
                            wlPlan'[j].checked + wlPlan'[j].job.duration,
                            wlStart[k], WlEnd(k))
        BY <3>1, <3>4 DEF KeepsClear
      <4>2. wlStart[k] \in Nat /\ WlEnd(k) \in Nat /\ WlEnd(k) >= wlStart[k]
        BY <1>6, <3>4, PlanTypes DEF WlEnd, WorkloadTypeOK
      <4> QED
        BY <3>1, <3>2, <3>4, <4>1, <4>2 DEF WindowsOverlap
    <3>5. \A k \in wlRegistry :
            /\ WlMachine(k)' = WlMachine(k) /\ WlEnd(k)' = WlEnd(k)
            /\ RunnerKnown(k)'
      BY <1>3, <1>4, <1>6 DEF WlMachine, WlEnd, RunnerKnown
    <3> QED
      BY <1>7, <2>2, <3>1, <3>3, <3>4, <3>5 DEF WlMachine
  <2> QED
    BY <1>5, <2>1, <2>2 DEF WindowInv
<1> QED
  BY <1>8, <1>9

LEMMA BeginKeepsWindows ==
  ASSUME WorkloadTypeOK, IdsInv, RequestInv, WindowInv, NEW r \in WlRequests,
         BeginStarts(r)
  PROVE  RequestInv' /\ WindowInv'
<1>1. /\ wlRequest[r] = "syncing" /\ wlUnsynced[r] = {}
      /\ wlRequest' = [wlRequest EXCEPT ![r] = "starting"]
      /\ UNCHANGED <<clock, wlUnsynced, wlPlan, wlRegistry>>
  BY DEF BeginStarts, Synced
<1>2. \A j \in WlJobsOf(r) : j \in Used /\ wlPhase[j] = "waiting"
  BY <1>1 DEF WlJobsOf, Used, RequestInv
<1>3. /\ wlPhase' = [j \in WlJobs |-> IF j \in WlJobsOf(r) THEN "launching"
                                      ELSE wlPhase[j]]
      /\ wlStart' = [j \in WlJobs |-> IF j \in WlJobsOf(r)
                                      THEN clock + wlPlan[j].job.delay
                                      ELSE wlStart[j]]
  BY <1>1, <1>2 DEF BeginStarts, Synced
<1>4. Used' = Used
  BY <1>2, <1>3 DEF Used
<1>5. \A k \in WlJobs : RunnerKnown(k) =>
        wlStart'[k] = wlStart[k] /\ RunnerKnown(k)'
  BY <1>2, <1>3 DEF RunnerKnown
<1>6. RequestInv'
  <2>1. ASSUME NEW j \in Used
        PROVE  /\ wlRequest'[wlPlan[j].request] # "idle"
               /\ wlPhase'[j] # "waiting" =>
                    /\ wlRequest'[wlPlan[j].request]
                         \in {"starting", "ok", "error"}
                    /\ wlUnsynced[wlPlan[j].request] = {}
    BY <1>1, <1>3, PlanTypes DEF RequestInv, WlJobsOf, Used, WorkloadTypeOK
  <2>2. \A j \in wlRegistry : RunnerKnown(j)'
    BY <1>5 DEF RequestInv, WorkloadTypeOK
  <2> QED
    BY <1>1, <1>4, <2>1, <2>2 DEF RequestInv
<1>7. WindowInv'
  <2>1. ASSUME NEW j \in Used
        PROVE  wlPhase'[j] # "waiting" => wlStart'[j] >= wlPlan[j].checked
    BY <1>2, <1>3 DEF WindowInv, Used
  <2>2. ASSUME NEW j \in Used, NEW k \in wlPlan[j].over
        PROVE  RunnerKnown(k)' /\ wlStart'[k] = wlStart[k]
    BY <1>5, <2>2, PlanTypes DEF WindowInv
  <2> QED
    BY <1>1, <1>4, <2>1, <2>2 DEF WindowInv, WlMachine, WlEnd
<1> QED
  BY <1>6, <1>7

LEMMA WindowsInductive == WorkloadSpec => [](RequestInv /\ WindowInv)
<1>1. WorkloadInit => RequestInv /\ WindowInv
  BY DEF WorkloadInit, RequestInv, WindowInv, Used
<1>2. WorkloadTypeOK /\ IdsInv /\ RequestInv /\ WindowInv
        /\ [WorkloadNext]_workloadVars => RequestInv' /\ WindowInv'
  <2> SUFFICES ASSUME WorkloadTypeOK, IdsInv, RequestInv, WindowInv,
                      [WorkloadNext]_workloadVars
               PROVE  RequestInv' /\ WindowInv'
    OBVIOUS
  <2>1. ASSUME NEW r \in WlRequests, NEW scenario \in Scenarios[r],
               StartScenario(r, scenario)
        PROVE  RequestInv' /\ WindowInv'
    BY <2>1, StartKeepsWindows
  <2>2. ASSUME NEW r \in WlRequests, BeginStarts(r)
        PROVE  RequestInv' /\ WindowInv'
    BY <2>2, BeginKeepsWindows
  <2>3. ASSUME WindowsCalm PROVE RequestInv' /\ WindowInv'
    BY <2>3, WindowsCalmStep
  <2> USE DEF WorkloadTypeOK, WindowsCalm, RunnerKnown, RequestInv
  <2>4. ASSUME NEW r \in WlRequests,
               (\E m \in WlMachines : SyncDone(r, m)) \/ SyncFails(r)
               \/ AnswerScenario(r)
        PROVE  WindowsCalm
    BY <2>4 DEF SyncDone, SyncFails, AnswerScenario
  <2>5. ASSUME NEW j \in WlJobs,
               RegisterWorkload(j) \/ AnnouncedWorkload(j)
        PROVE  WindowsCalm
    BY <2>5 DEF RegisterWorkload, AnnouncedWorkload
  <2>6. ASSUME NEW j \in WlJobs,
               LaunchRunnerFails(j) \/ AnnounceWorkloadRaises(j)
        PROVE  WindowsCalm
    BY <2>6 DEF LaunchRunnerFails, AnnounceWorkloadRaises
  <2>7. ASSUME NEW j \in WlJobs,
               ExpireWorkload(j) \/ ExpireWorkloadTold(j)
               \/ ExpireWorkloadRaises(j) \/ PopWorkload(j)
               \/ PopWorkloadNone(j) \/ StopWorkloadTold(j)
        PROVE  WindowsCalm
    BY <2>7 DEF ExpireWorkload, ExpireWorkloadTold, ExpireWorkloadRaises,
                PopWorkload, PopWorkloadNone, StopWorkloadTold
  <2>8. ASSUME NEW J \in SUBSET WlJobs,
               ResolveWorkloads(J) \/ CancelWorkloads(J)
        PROVE  WindowsCalm
    BY <2>8 DEF ResolveWorkloads, CancelWorkloads
  <2>9. CASE WlTick
    BY <2>3, <2>9 DEF WlTick
  <2>10. CASE UNCHANGED workloadVars
    BY <2>3, <2>10 DEF workloadVars
  <2> QED
    BY <2>1, <2>2, <2>3, <2>4, <2>5, <2>6, <2>7, <2>8, <2>9, <2>10
       DEF WorkloadNext
<1> QED
  BY <1>1, <1>2, WorkloadBasics, PTL DEF WorkloadSpec

(***************************************************************************)
(* A job that was let in behind another one keeps its distance, for any    *)
(* scenarios, requests and machines and however long the sources take.     *)
(***************************************************************************)
THEOREM KeepsBehindHolds == WorkloadSpec => []KeepsBehind
<1>1. WorkloadTypeOK /\ IdsInv /\ RequestInv /\ WindowInv => KeepsBehind
  <2> SUFFICES ASSUME WorkloadTypeOK, IdsInv, RequestInv, WindowInv,
                      NEW j \in wlRegistry, NEW k \in wlRegistry,
                      k \in wlPlan[j].over, WlMachine(j) = WlMachine(k),
                      wlPlan[j].checked >= WlEnd(k)
               PROVE  wlStart[j] >= WlEnd(k) + WlGrace
    BY DEF KeepsBehind
  <2>1. j \in Used /\ k \in Used /\ wlPhase[j] # "waiting"
    BY DEF RequestInv, RunnerKnown, Used, WorkloadTypeOK
  <2>2. /\ wlStart[j] >= wlPlan[j].checked
        /\ wlPlan[j].checked >= WlEnd(k) + WlGrace
    BY <2>1 DEF WindowInv
  <2>3. /\ wlStart[j] \in Nat /\ wlPlan[j].checked \in Nat
        /\ WlEnd(k) \in Nat /\ WlGrace \in Nat
    BY <2>1, PlanTypes, WorkloadAssumption DEF WlEnd, WorkloadTypeOK
  <2> QED
    BY <2>2, <2>3
<1> QED
  BY <1>1, WorkloadBasics, WindowsInductive, PTL

(***************************************************************************)
(* No job of a request is started while a machine of that request lacks    *)
(* the sources, and none ever when one does not get them.                  *)
(***************************************************************************)
THEOREM SyncFailureStartsNothingHolds ==
  WorkloadSpec => []SyncFailureStartsNothing
<1>1. WorkloadTypeOK /\ RequestInv => SyncFailureStartsNothing
  BY DEF RequestInv, RunnerKnown, SyncFailureStartsNothing, Used,
         WorkloadTypeOK
<1> QED
  BY <1>1, WorkloadBasics, WindowsInductive, PTL

-----------------------------------------------------------------------------
(* The ledger of the CPU workload controller *)

\* Whoever has taken a job out of the registry, its timer or a stop, is alone
\* with it and is to tell its end.
Held(j) ==
  j \in wlRegistry \/ wlTimer[j] = "announcing" \/ wlStop[j] = "killing"

Owned(j) ==
  /\ wlTold[j] \in {0, 1}
  /\ wlPhase[j] # "tracked" => wlTimer[j] = "none"
  /\ Held(j) \/ j \in wlLost \/ wlTold[j] = 1 => RunnerKnown(j)
  /\ j \in wlRegistry => wlTimer[j] # "announcing" /\ wlStop[j] # "killing"
  /\ wlTimer[j] = "announcing" => wlStop[j] # "killing"
  /\ Held(j) => j \notin wlLost /\ wlTold[j] = 0
  /\ j \in wlLost => wlTold[j] = 0

OwnersInv == \A j \in WlJobs : Owned(j)

LEMMA OwnersInit == WorkloadInit => OwnersInv
  BY DEF WorkloadInit, OwnersInv, Owned, Held, RunnerKnown

\* What starting does to phases is not the owners' concern.
LEMMA PhasesApart ==
  ASSUME WorkloadTypeOK, IdsInv, NEW r \in WlRequests,
         (\E scenario \in Scenarios[r] : StartScenario(r, scenario))
         \/ BeginStarts(r)
  PROVE  /\ \A j \in WlJobs :
              /\ (wlPhase'[j] = "tracked") <=> (wlPhase[j] = "tracked")
              /\ RunnerKnown(j)' <=> RunnerKnown(j)
         /\ UNCHANGED <<wlRegistry, wlTimer, wlStop, wlTold, wlLost>>
<1>1. ASSUME NEW scenario \in Scenarios[r], StartScenario(r, scenario)
      PROVE  /\ \A j \in WlJobs :
                  /\ (wlPhase'[j] = "tracked") <=> (wlPhase[j] = "tracked")
                  /\ RunnerKnown(j)' <=> RunnerKnown(j)
             /\ UNCHANGED <<wlRegistry, wlTimer, wlStop, wlTold, wlLost>>
  <2>1. PICK ids \in SUBSET WlJobs : NewIds(r, ids)
    BY <1>1, StartMakes
  <2> QED
    BY <1>1, <2>1 DEF StartScenario, NewIds, Used, RunnerKnown
<1>2. ASSUME BeginStarts(r)
      PROVE  /\ \A j \in WlJobs :
                  /\ (wlPhase'[j] = "tracked") <=> (wlPhase[j] = "tracked")
                  /\ RunnerKnown(j)' <=> RunnerKnown(j)
             /\ UNCHANGED <<wlRegistry, wlTimer, wlStop, wlTold, wlLost>>
  BY <1>2 DEF BeginStarts, RunnerKnown
<1> QED
  BY <1>1, <1>2

LEMMA OwnersStep ==
  WorkloadTypeOK /\ IdsInv /\ RequestInv /\ OwnersInv
    /\ [WorkloadNext]_workloadVars => OwnersInv'
<1> SUFFICES ASSUME WorkloadTypeOK, IdsInv, RequestInv, OwnersInv,
                    [WorkloadNext]_workloadVars
             PROVE  OwnersInv'
  OBVIOUS
<1>1. ASSUME NEW r \in WlRequests,
             (\E scenario \in Scenarios[r] : StartScenario(r, scenario))
             \/ BeginStarts(r)
      PROVE  OwnersInv'
  BY <1>1, PhasesApart DEF OwnersInv, Owned, Held
<1> USE DEF WorkloadTypeOK, OwnersInv, Owned, Held, RunnerKnown
<1>2. ASSUME NEW r \in WlRequests,
             (\E m \in WlMachines : SyncDone(r, m)) \/ SyncFails(r)
             \/ AnswerScenario(r)
      PROVE  OwnersInv'
  BY <1>2 DEF SyncDone, SyncFails, AnswerScenario
<1>3. ASSUME NEW j \in WlJobs, RegisterWorkload(j) PROVE OwnersInv'
  BY <1>3 DEF RegisterWorkload
<1>4. ASSUME NEW j \in WlJobs, LaunchRunnerFails(j) PROVE OwnersInv'
  BY <1>4 DEF LaunchRunnerFails
<1>5. ASSUME NEW j \in WlJobs,
             AnnouncedWorkload(j) \/ AnnounceWorkloadRaises(j)
      PROVE  OwnersInv'
  BY <1>5 DEF AnnouncedWorkload, AnnounceWorkloadRaises
<1>6. ASSUME NEW j \in WlJobs, ExpireWorkload(j) PROVE OwnersInv'
  BY <1>6 DEF ExpireWorkload
<1>7. ASSUME NEW j \in WlJobs,
             ExpireWorkloadTold(j) \/ ExpireWorkloadRaises(j)
      PROVE  OwnersInv'
  <2>1. Owned(j)'
    BY <1>7 DEF ExpireWorkloadTold, ExpireWorkloadRaises
  <2>2. ASSUME NEW i \in WlJobs \ {j} PROVE Owned(i)'
    BY <1>7, <2>2 DEF ExpireWorkloadTold, ExpireWorkloadRaises
  <2> HIDE DEF Owned
  <2> QED
    BY <2>1, <2>2
<1>8. ASSUME NEW j \in WlJobs, PopWorkload(j) PROVE OwnersInv'
  <2>1. Owned(j)'
    BY <1>8 DEF PopWorkload
  <2>2. ASSUME NEW i \in WlJobs \ {j} PROVE Owned(i)'
    BY <1>8, <2>2 DEF PopWorkload
  <2> HIDE DEF Owned
  <2> QED
    BY <2>1, <2>2
<1>9. ASSUME NEW j \in WlJobs, PopWorkloadNone(j) PROVE OwnersInv'
  BY <1>9 DEF PopWorkloadNone
<1>10. ASSUME NEW j \in WlJobs, StopWorkloadTold(j) PROVE OwnersInv'
  BY <1>10 DEF StopWorkloadTold
<1>11. ASSUME NEW J \in SUBSET WlJobs,
              ResolveWorkloads(J) \/ CancelWorkloads(J)
       PROVE  OwnersInv'
  BY <1>11 DEF ResolveWorkloads, CancelWorkloads
<1>12. CASE WlTick
  BY <1>12 DEF WlTick
<1>13. CASE UNCHANGED workloadVars
  BY <1>13 DEF workloadVars
<1> QED
  BY <1>1, <1>2, <1>3, <1>4, <1>5, <1>6, <1>7, <1>8, <1>9, <1>10, <1>11,
     <1>12, <1>13 DEF WorkloadNext

\* Every step of the controller is a step of the ledger, or invisible there.
LEMMA WlLedgerStep ==
  ASSUME WorkloadTypeOK, IdsInv, OwnersInv, [WorkloadNext]_workloadVars
  PROVE  [WlLedger!Next]_(WlLedger!vars)
<1> USE DEF WlLedger!vars
<1>1. ASSUME NEW r \in WlRequests,
             (\E scenario \in Scenarios[r] : StartScenario(r, scenario))
             \/ BeginStarts(r)
      PROVE  UNCHANGED WlLedger!vars
  BY <1>1, PhasesApart DEF WlStage, RunnerKnown
<1>2. ASSUME wlTold' = wlTold,
             \A i \in WlJobs : WlStage(i)' = WlStage(i)
      PROVE  UNCHANGED WlLedger!vars
  BY <1>2
<1>3. ASSUME NEW j \in WlJobs, wlTold' = wlTold,
             \A i \in WlJobs \ {j} : WlStage(i)' = WlStage(i),
             WlStage(j) = "absent" /\ WlStage(j)' = "live"
      PROVE  WlLedger!Next
  BY <1>3 DEF WlLedger!Register, WlLedger!Next
<1>4. ASSUME NEW j \in WlJobs, wlTold' = wlTold,
             \A i \in WlJobs \ {j} : WlStage(i)' = WlStage(i),
             WlStage(j) = "live" /\ WlStage(j)' = "ending"
      PROVE  WlLedger!Next
  BY <1>4 DEF WlLedger!Retire, WlLedger!Next
<1>5. ASSUME NEW j \in WlJobs, wlTold' = [wlTold EXCEPT ![j] = @ + 1],
             \A i \in WlJobs \ {j} : WlStage(i)' = WlStage(i),
             WlStage(j) = "ending" /\ WlStage(j)' = "ended"
      PROVE  WlLedger!Next
  BY <1>5 DEF WlLedger!Announce, WlLedger!Next
<1>6. ASSUME NEW J \in SUBSET WlJobs, wlTold' = wlTold,
             \A i \in WlJobs \ J : WlStage(i)' = WlStage(i),
             \A i \in J : WlStage(i) = "ending" /\ WlStage(i)' = "lost"
      PROVE  WlLedger!Next
  BY <1>6 DEF WlLedger!Lose, WlLedger!Next
<1> USE DEF WorkloadTypeOK, RunnerKnown, WlStage
<1>7. ASSUME NEW r \in WlRequests,
             (\E m \in WlMachines : SyncDone(r, m)) \/ SyncFails(r)
             \/ AnswerScenario(r)
      PROVE  UNCHANGED WlLedger!vars
  BY <1>7 DEF SyncDone, SyncFails, AnswerScenario
<1>8. ASSUME NEW j \in WlJobs,
             LaunchRunnerFails(j) \/ AnnouncedWorkload(j)
             \/ AnnounceWorkloadRaises(j) \/ PopWorkloadNone(j)
      PROVE  UNCHANGED WlLedger!vars
  <2>1. /\ wlTold' = wlTold /\ wlRegistry' = wlRegistry /\ wlLost' = wlLost
        /\ \A i \in WlJobs : RunnerKnown(i)' <=> RunnerKnown(i)
    BY <1>8 DEF LaunchRunnerFails, AnnouncedWorkload, AnnounceWorkloadRaises,
                PopWorkloadNone
  <2> QED
    BY <1>2, <2>1
<1>9. ASSUME NEW j \in WlJobs, RegisterWorkload(j) PROVE WlLedger!Next
  <2>0. j \notin wlRegistry /\ j \notin wlLost /\ wlTold[j] = 0
    BY <1>9 DEF RegisterWorkload, OwnersInv, Owned, Held
  <2>1. WlStage(j) = "absent" /\ WlStage(j)' = "live" /\ wlTold' = wlTold
    BY <1>9, <2>0 DEF RegisterWorkload
  <2>2. \A i \in WlJobs \ {j} : WlStage(i)' = WlStage(i)
    BY <1>9 DEF RegisterWorkload
  <2> HIDE DEF WlStage
  <2> QED
    BY <1>3, <2>1, <2>2
<1>10. ASSUME NEW j \in WlJobs, ExpireWorkload(j) \/ PopWorkload(j)
       PROVE  [WlLedger!Next]_(WlLedger!vars)
  <2>1. /\ wlTold' = wlTold /\ wlLost' = wlLost /\ wlPhase' = wlPhase
        /\ wlRegistry' = wlRegistry \ {j}
    BY <1>10 DEF ExpireWorkload, PopWorkload
  <2>2. \A i \in WlJobs \ {j} : WlStage(i)' = WlStage(i)
    BY <2>1
  <2>3. CASE j \in wlRegistry
    <3>0. RunnerKnown(j) /\ j \notin wlLost /\ wlTold[j] = 0
      BY <2>3 DEF OwnersInv, Owned, Held
    <3>1. WlStage(j) = "live" /\ WlStage(j)' = "ending"
      BY <2>1, <2>3, <3>0
    <3> HIDE DEF WlStage
    <3> QED
      BY <1>4, <2>1, <2>2, <3>1
  <2>4. CASE j \notin wlRegistry
    <3>1. WlStage(j)' = WlStage(j)
      BY <2>1, <2>4
    <3> HIDE DEF WlStage
    <3> QED
      BY <1>2, <2>1, <2>2, <3>1
  <2> QED
    BY <2>3, <2>4
<1>11. ASSUME NEW j \in WlJobs, ExpireWorkloadTold(j) \/ StopWorkloadTold(j)
       PROVE  WlLedger!Next
  <2>1. /\ wlTold' = [wlTold EXCEPT ![j] = @ + 1]
        /\ wlRegistry' = wlRegistry /\ wlLost' = wlLost /\ wlPhase' = wlPhase
        /\ wlTimer[j] = "announcing" \/ wlStop[j] = "killing"
    BY <1>11 DEF ExpireWorkloadTold, StopWorkloadTold
  <2>0. /\ RunnerKnown(j) /\ j \notin wlRegistry /\ j \notin wlLost
        /\ wlTold[j] = 0
    BY <2>1 DEF OwnersInv, Owned, Held
  <2>2. WlStage(j) = "ending" /\ WlStage(j)' = "ended"
    BY <2>0, <2>1
  <2>3. \A i \in WlJobs \ {j} : WlStage(i)' = WlStage(i)
    BY <2>1
  <2> HIDE DEF WlStage
  <2> QED
    BY <1>5, <2>1, <2>2, <2>3
<1>12. ASSUME NEW J \in SUBSET WlJobs, ResolveWorkloads(J)
       PROVE  UNCHANGED WlLedger!vars
  BY <1>12 DEF ResolveWorkloads
<1>13. ASSUME NEW J \in SUBSET WlJobs, CancelWorkloads(J)
       PROVE  WlLedger!Next
  <2>1. \A i \in J : WlStage(i) = "ending" /\ WlStage(i)' = "lost"
    BY <1>13 DEF CancelWorkloads, OwnersInv, Owned, Held
  <2>2. wlTold' = wlTold /\ \A i \in WlJobs \ J : WlStage(i)' = WlStage(i)
    BY <1>13 DEF CancelWorkloads
  <2> HIDE DEF WlStage
  <2> QED
    BY <1>6, <2>1, <2>2
<1>14. CASE WlTick
  BY <1>14 DEF WlTick
<1>15. CASE UNCHANGED workloadVars
  BY <1>15 DEF workloadVars
<1>16. ASSUME NEW j \in WlJobs, ExpireWorkloadRaises(j) PROVE WlLedger!Next
  <2> DEFINE J == {j}
  <2>0. J \in SUBSET WlJobs
    OBVIOUS
  <2>1. \A i \in J : WlStage(i) = "ending" /\ WlStage(i)' = "lost"
    BY <1>16 DEF ExpireWorkloadRaises, OwnersInv, Owned, Held
  <2>2. wlTold' = wlTold /\ \A i \in WlJobs \ J : WlStage(i)' = WlStage(i)
    BY <1>16 DEF ExpireWorkloadRaises
  <2> HIDE DEF WlStage, J
  <2> QED
    BY <1>6, <2>0, <2>1, <2>2
<1> QED
  BY <1>1, <1>7, <1>8, <1>9, <1>10, <1>11, <1>12, <1>13, <1>14, <1>15, <1>16
     DEF WorkloadNext

(***************************************************************************)
(* The CPU workload controller implements the job ledger, as the burn      *)
(* controller does, whatever broadcast raises.                             *)
(***************************************************************************)
THEOREM WorkloadsImplementLedger == WorkloadSpec => WlLedgerSpec
<1>1. WorkloadInit => WlLedger!Init
  BY DEF WorkloadInit, WlLedger!Init, WlStage
<1>2. WorkloadTypeOK /\ IdsInv /\ OwnersInv /\ [WorkloadNext]_workloadVars
        => [WlLedger!Next]_(WlLedger!vars)
  BY WlLedgerStep
<1>3. WorkloadTypeOK /\ IdsInv /\ RequestInv /\ OwnersInv
        /\ [WorkloadNext]_workloadVars => OwnersInv'
  BY OwnersStep
<1> QED
  BY <1>1, <1>2, <1>3, OwnersInit, WorkloadBasics, WindowsInductive, PTL
     DEF WorkloadSpec, WlLedgerSpec, WlLedger!Spec

\* What the ledger promises, for these jobs
WlFacts == INSTANCE JobLedger_proofs WITH
  Jobs <- WlJobs,
  ledger <- [j \in WlJobs |-> WlStage(j)],
  told <- wlTold

(***************************************************************************)
(* So the ledger's theorems are the controller's: exactly one              *)
(* workload_stopped is broadcast for a CPU job whose end is told, none     *)
(* for one that is registered, being ended or lost, and no job comes back. *)
(***************************************************************************)
THEOREM WorkloadsEndOnce == WorkloadSpec => []WlLedger!ToldOnce /\ WlLedger!NoReturn
<1>1. WlLedger!Spec => WlFacts!Spec
  <2>1. WlLedger!Init => WlFacts!Init
    BY DEF WlLedger!Init, WlFacts!Init
  <2>2. [WlLedger!Next]_(WlLedger!vars) => [WlFacts!Next]_(WlFacts!vars)
    BY Zenon
       DEF WlLedger!Next, WlLedger!vars, WlLedger!Register, WlLedger!Retire,
           WlLedger!Announce, WlLedger!Lose,
           WlFacts!Next, WlFacts!vars, WlFacts!Register, WlFacts!Retire,
           WlFacts!Announce, WlFacts!Lose
  <2> QED
    BY <2>1, <2>2, PTL DEF WlLedger!Spec, WlFacts!Spec
<1>2. WlFacts!ToldOnce => WlLedger!ToldOnce
  BY DEF WlFacts!ToldOnce, WlLedger!ToldOnce
<1>3. WlFacts!NoReturn => WlLedger!NoReturn
  BY PTL DEF WlFacts!NoReturn, WlLedger!NoReturn, WlFacts!vars, WlLedger!vars
<1> QED
  BY <1>1, <1>2, <1>3, WorkloadsImplementLedger, WlFacts!ToldOnceHolds,
     WlFacts!NoReturnHolds, PTL DEF WlLedgerSpec

-----------------------------------------------------------------------------
(* GPU jobs *)

(***************************************************************************)
(* The variables keep their types.                                         *)
(***************************************************************************)
THEOREM GpuTypeCorrect == GpuSpec => []GpuTypeOK
<1>1. GpuInit => GpuTypeOK
  BY DEF GpuInit, GpuTypeOK, GpuPhases
<1>2. GpuTypeOK /\ [GpuNext]_gpuVars => GpuTypeOK'
  <2> SUFFICES ASSUME GpuTypeOK, [GpuNext]_gpuVars PROVE GpuTypeOK'
    OBVIOUS
  <2> USE DEF GpuTypeOK, GpuPhases
  <2>1. ASSUME NEW j \in GpuIds,
               StartGpu(j) \/ StartGpuFails(j) \/ RegisterGpu(j)
               \/ AnnouncedGpu(j) \/ AnnounceGpuRaises(j)
        PROVE  GpuTypeOK'
    BY <2>1 DEF StartGpu, StartGpuFails, RegisterGpu, AnnouncedGpu,
                AnnounceGpuRaises, UnderWay
  <2>2. ASSUME NEW j \in GpuIds,
               CopyScenario(j) \/ BoxUp(j) \/ ScriptRemoves(j)
        PROVE  GpuTypeOK'
    BY <2>2 DEF CopyScenario, BoxUp, ScriptRemoves
  <2>3. ASSUME NEW j \in GpuIds, RunDocker(j) \/ BoxEnds(j) \/ ScriptEndsBox(j)
        PROVE  GpuTypeOK'
    BY <2>3 DEF RunDocker, BoxEnds, ScriptEndsBox
  <2>4. ASSUME NEW j \in GpuIds,
               ExpireGpu(j) \/ ExpireGpuTold(j) \/ ExpireGpuRaises(j)
               \/ PopGpu(j) \/ PopGpuNone(j) \/ StopGpuTold(j) \/ ScriptCut(j)
        PROVE  GpuTypeOK'
    BY <2>4 DEF ExpireGpu, ExpireGpuTold, ExpireGpuRaises, PopGpu, PopGpuNone,
                StopGpuTold, ScriptCut, Looking
  <2>5. ASSUME NEW J \in SUBSET GpuIds, ResolveGpu(J) \/ CancelGpu(J)
        PROVE  GpuTypeOK'
    BY <2>5 DEF ResolveGpu, CancelGpu
  <2>6. CASE UNCHANGED gpuVars
    BY <2>6 DEF gpuVars
  <2> QED
    BY <2>1, <2>2, <2>3, <2>4, <2>5, <2>6 DEF GpuNext
<1> QED
  BY <1>1, <1>2, PTL DEF GpuSpec

-----------------------------------------------------------------------------
(* One job each *)

\* Jobs that hold their machine, or are about to.
Claiming == UnderWay \cup gpuRegistry

\* The strengthening of OneGpuJobEach: it speaks of requests under way too,
\* for these are what a later has_jobs overlooks.
ClaimInv ==
  \A i, j \in Claiming :
    i # j /\ SameMachine(i, j) =>
      <<i, j>> \in together \/ <<j, i>> \in together

\* A step that brings no new claim.
NoClaim ==
  /\ Claiming' \subseteq Claiming
  /\ gpuPlan' = gpuPlan
  /\ together' = together

LEMMA NoClaimStep == ClaimInv /\ NoClaim => ClaimInv'
  BY DEF ClaimInv, NoClaim, SameMachine

LEMMA StartClaims ==
  ASSUME GpuTypeOK, ClaimInv, NEW j \in GpuIds, StartGpu(j)
  PROVE  ClaimInv'
<1>1. /\ Claiming' = Claiming \cup {j}
      /\ gpuPlan' = gpuPlan
      /\ together \subseteq together'
  BY DEF StartGpu, Claiming, UnderWay, GpuTypeOK
<1>2. ASSUME NEW i \in Claiming, i # j, SameMachine(i, j)
      PROVE  <<i, j>> \in together'
  <2>1. i \in UnderWay
    BY <1>2 DEF Claiming, StartGpu, HasNoJob
  <2> QED
    BY <1>2, <2>1 DEF StartGpu
<1>3. \A i, k : SameMachine(i, k) <=> SameMachine(k, i)
  BY DEF SameMachine
<1> QED
  BY <1>1, <1>2, <1>3 DEF ClaimInv, SameMachine

LEMMA ClaimStep == GpuTypeOK /\ ClaimInv /\ [GpuNext]_gpuVars => ClaimInv'
<1> SUFFICES ASSUME GpuTypeOK, ClaimInv, [GpuNext]_gpuVars PROVE ClaimInv'
  OBVIOUS
<1> USE NoClaimStep DEF NoClaim, Claiming, UnderWay, GpuTypeOK
<1>1. ASSUME NEW j \in GpuIds, StartGpu(j) PROVE ClaimInv'
  BY <1>1, StartClaims
<1>2. ASSUME NEW j \in GpuIds,
             StartGpuFails(j) \/ CopyScenario(j) \/ RunDocker(j)
             \/ RegisterGpu(j) \/ AnnouncedGpu(j) \/ AnnounceGpuRaises(j)
      PROVE  ClaimInv'
  BY <1>2 DEF StartGpuFails, CopyScenario, RunDocker, RegisterGpu,
              AnnouncedGpu, AnnounceGpuRaises
<1>3. ASSUME NEW j \in GpuIds,
             BoxUp(j) \/ BoxEnds(j) \/ ScriptEndsBox(j) \/ ScriptRemoves(j)
      PROVE  ClaimInv'
  BY <1>3 DEF BoxUp, BoxEnds, ScriptEndsBox, ScriptRemoves
<1>4. ASSUME NEW j \in GpuIds,
             ExpireGpu(j) \/ ExpireGpuTold(j) \/ ExpireGpuRaises(j)
             \/ PopGpu(j) \/ PopGpuNone(j) \/ StopGpuTold(j) \/ ScriptCut(j)
      PROVE  ClaimInv'
  BY <1>4 DEF ExpireGpu, ExpireGpuTold, ExpireGpuRaises, PopGpu, PopGpuNone,
              StopGpuTold, ScriptCut
<1>5. ASSUME NEW J \in SUBSET GpuIds, ResolveGpu(J) \/ CancelGpu(J)
      PROVE  ClaimInv'
  BY <1>5 DEF ResolveGpu, CancelGpu
<1>6. CASE UNCHANGED gpuVars
  BY <1>6 DEF gpuVars
<1> QED
  BY <1>1, <1>2, <1>3, <1>4, <1>5, <1>6 DEF GpuNext

(***************************************************************************)
(* A machine has two registered jobs only if their requests were under way *)
(* together: has_jobs of the later one must have been asked before the     *)
(* earlier one was registered, whatever the copies and commands took.      *)
(***************************************************************************)
THEOREM OneGpuJobEachHolds == GpuSpec => []OneGpuJobEach
<1>1. GpuInit => ClaimInv
  BY DEF GpuInit, ClaimInv, Claiming, UnderWay
<1>2. ClaimInv => OneGpuJobEach
  BY DEF ClaimInv, OneGpuJobEach, Claiming
<1> QED
  BY <1>1, <1>2, GpuTypeCorrect, ClaimStep, PTL DEF GpuSpec

-----------------------------------------------------------------------------
(* Containers *)

Registered(j) == gpuPhase[j] \in {"announcing", "ok", "untimed"}

\* How the life of a container, its job and its script go together.
BoxInv ==
  \A j \in GpuIds :
    /\ box[j] # "none" => gpuPhase[j] \notin {"idle", "copying"}
    /\ Registered(j) => box[j] # "none"
    /\ j \in gpuRegistry => Registered(j) /\ gpuScript[j] = "none"
    /\ gpuScript[j] # "none" => Registered(j)
    /\ gpuTimer[j] # "none" => gpuPhase[j] = "ok"
    /\ Registered(j) /\ j \notin gpuRegistry =>
         gpuTimer[j] \in {"announcing", "expired"} \/ gpuScript[j] # "none"
    /\ gpuScript[j] \in {"stopping", "removing", "over"} /\ box[j] = "coming"
         => j \in raced
    /\ gpuScript[j] \in {"removing", "over"} /\ box[j] = "up" => j \in raced

LEMMA BoxInit == GpuInit => BoxInv
  BY DEF GpuInit, BoxInv, Registered

LEMMA BoxStep == GpuTypeOK /\ BoxInv /\ [GpuNext]_gpuVars => BoxInv'
<1> SUFFICES ASSUME GpuTypeOK, BoxInv, [GpuNext]_gpuVars,
                    NEW i \in GpuIds
             PROVE  BoxInv!(i)'
  BY DEF BoxInv
<1> USE DEF GpuTypeOK, BoxInv, Registered
<1>1. ASSUME NEW j \in GpuIds, StartGpu(j) \/ StartGpuFails(j)
      PROVE  BoxInv!(i)'
  BY <1>1 DEF StartGpu, StartGpuFails, UnderWay
<1>2. ASSUME NEW j \in GpuIds, CopyScenario(j) \/ RunDocker(j)
      PROVE  BoxInv!(i)'
  BY <1>2 DEF CopyScenario, RunDocker
<1>3. ASSUME NEW j \in GpuIds,
             RegisterGpu(j) \/ AnnouncedGpu(j) \/ AnnounceGpuRaises(j)
      PROVE  BoxInv!(i)'
  BY <1>3 DEF RegisterGpu, AnnouncedGpu, AnnounceGpuRaises
<1>4. ASSUME NEW j \in GpuIds, BoxUp(j) \/ BoxEnds(j)
      PROVE  BoxInv!(i)'
  BY <1>4 DEF BoxUp, BoxEnds
<1>5. ASSUME NEW j \in GpuIds, ScriptEndsBox(j) \/ ScriptRemoves(j)
      PROVE  BoxInv!(i)'
  BY <1>5 DEF ScriptEndsBox, ScriptRemoves
<1>6. ASSUME NEW j \in GpuIds,
             ExpireGpu(j) \/ ExpireGpuTold(j) \/ ExpireGpuRaises(j)
             \/ PopGpuNone(j) \/ StopGpuTold(j) \/ ScriptCut(j)
      PROVE  BoxInv!(i)'
  BY <1>6 DEF ExpireGpu, ExpireGpuTold, ExpireGpuRaises, PopGpuNone,
              StopGpuTold, ScriptCut, ScriptRuns
<1>7. ASSUME NEW j \in GpuIds, PopGpu(j) PROVE BoxInv!(i)'
  BY <1>7 DEF PopGpu, Looking, SameMount
<1>8. ASSUME NEW J \in SUBSET GpuIds, ResolveGpu(J) \/ CancelGpu(J)
      PROVE  BoxInv!(i)'
  BY <1>8 DEF ResolveGpu, CancelGpu
<1>9. CASE UNCHANGED gpuVars
  BY <1>9 DEF gpuVars
<1> QED
  BY <1>1, <1>2, <1>3, <1>4, <1>5, <1>6, <1>7, <1>8, <1>9 DEF GpuNext

(***************************************************************************)
(* A container that runs without a registered job has one of the known     *)
(* reasons; one that was up when its job was stopped is gone when the      *)
(* script gets to its file.                                                *)
(***************************************************************************)
THEOREM BoxesAccountedHolds == GpuSpec => []BoxesAccounted
<1>1. GpuTypeOK /\ BoxInv => BoxesAccounted
  BY DEF GpuTypeOK, GpuPhases, BoxInv, BoxesAccounted, Registered
<1> QED
  BY <1>1, GpuTypeCorrect, BoxInit, BoxStep, PTL DEF GpuSpec

-----------------------------------------------------------------------------
(* Scenario files *)

\* A job whose container may come up without its scenario
Unlucky(j) == j \in raced \/ Misnamed(j)

\* A directory is there since a container came up blind, and a job is why.
DirsAreBlind ==
  \A s \in Spots :
    path[s] = "dir" => \E k \in blind : Mounted(k) = s /\ Unlucky(k)

\* A job that was copied and whose container is still to look for its file
\* finds something, unless a script raced it or it looks elsewhere.
Copied(j) ==
  box[j] = "coming" \/ (gpuPhase[j] = "launching" /\ box[j] = "none")

CopyIsThere ==
  \A j \in GpuIds : Copied(j) => path[Mounted(j)] # "none" \/ Unlucky(j)

\* A script that runs has raced every job that is looking for its file.
ScriptsRace ==
  \A j, k \in GpuIds :
    ScriptRuns(k) /\ SameMount(k, j) /\ j \in Looking => j \in raced

FileInv == DirsAreBlind /\ CopyIsThere /\ ScriptsRace /\ ScenarioInPlace

LEMMA FileInit == GpuInit => FileInv
  BY DEF GpuInit, FileInv, DirsAreBlind, CopyIsThere, ScriptsRace,
         ScenarioInPlace, Copied, Looking, ScriptRuns, Spots

\* Nothing that FileInv is about gets worse in such a step.
FilesCalm ==
  /\ gpuPlan' = gpuPlan
  /\ blind' = blind
  /\ raced \subseteq raced'
  /\ \A s \in Spots : /\ path'[s] = "dir" => path[s] = "dir"
                      /\ path[s] # "none" => path'[s] # "none"
  /\ \A j \in GpuIds : /\ Copied(j)' => Copied(j)
                       /\ (j \in Looking)' => j \in Looking
                       /\ ScriptRuns(j)' => ScriptRuns(j)

\* Paths that are mounted are where files are copied to.
LEMMA MountsAreSpots ==
  ASSUME GpuTypeOK, NEW j \in GpuIds
  PROVE  Mounted(j) \in Spots /\ CopiedTo(j) \in Spots
<1>1. PICK m \in GpuMachines, s \in GpuScenarios : gpuPlan[j] = <<m, s>>
  BY DEF GpuTypeOK, Spots
<1>2. NamedIn[s] \in GpuScenarios
  BY GpuAssumption
<1> QED
  BY <1>1, <1>2 DEF Mounted, CopiedTo, Spots

\* A step that neither brings a container up nor makes a directory
NothingBlind ==
  /\ gpuPlan' = gpuPlan
  /\ blind' = blind
  /\ raced \subseteq raced'
  /\ \A s \in Spots : path'[s] = "dir" => path[s] = "dir"

LEMMA NothingBlindStep ==
  ASSUME GpuTypeOK, FileInv, NothingBlind
  PROVE  DirsAreBlind' /\ ScenarioInPlace'
<1> USE DEF FileInv, NothingBlind, Mounted, CopiedTo, Misnamed, Unlucky
<1>1. DirsAreBlind'
  BY DEF DirsAreBlind, Spots
<1>2. ScenarioInPlace'
  BY DEF ScenarioInPlace, SameMount
<1> QED
  BY <1>1, <1>2

LEMMA FilesCalmStep == GpuTypeOK /\ FileInv /\ FilesCalm => FileInv'
<1> SUFFICES ASSUME GpuTypeOK, FileInv, FilesCalm PROVE FileInv'
  OBVIOUS
<1> USE MountsAreSpots DEF Mounted, CopiedTo, Misnamed, Unlucky
<1>1. DirsAreBlind'
  BY DEF FileInv, FilesCalm, DirsAreBlind, Spots
<1>2. CopyIsThere'
  BY DEF FileInv, FilesCalm, CopyIsThere, GpuTypeOK
<1>3. ScriptsRace'
  BY DEF FileInv, FilesCalm, ScriptsRace, SameMount, ScriptRuns
<1>4. ScenarioInPlace'
  BY DEF FileInv, FilesCalm, ScenarioInPlace, SameMount
<1> QED
  BY <1>1, <1>2, <1>3, <1>4 DEF FileInv

LEMMA FileStep ==
  GpuTypeOK /\ BoxInv /\ FileInv /\ [GpuNext]_gpuVars => FileInv'
<1> SUFFICES ASSUME GpuTypeOK, BoxInv, FileInv, [GpuNext]_gpuVars
             PROVE  FileInv'
  OBVIOUS
<1> USE MountsAreSpots DEF GpuTypeOK, Mounted, CopiedTo, Misnamed, Unlucky
<1>1. ASSUME NEW j \in GpuIds, StartGpu(j) PROVE FileInv'
  <2>1. DirsAreBlind' /\ CopyIsThere' /\ ScenarioInPlace'
    BY <1>1 DEF StartGpu, FileInv, DirsAreBlind, CopyIsThere, ScenarioInPlace,
                Copied, SameMount
  <2>2. ScriptsRace'
    <3> SUFFICES ASSUME NEW i \in GpuIds, NEW k \in GpuIds,
                        (ScriptRuns(k) /\ SameMount(k, i) /\ i \in Looking)'
                 PROVE  i \in raced'
      BY DEF ScriptsRace
    <3>1. ScriptRuns(k) /\ SameMount(k, i)
      BY <1>1 DEF StartGpu, ScriptRuns, SameMount
    <3>2. CASE i = j
      BY <1>1, <3>1, <3>2 DEF StartGpu
    <3>3. CASE i # j
      BY <1>1, <3>1, <3>3 DEF StartGpu, FileInv, ScriptsRace, Looking
    <3> QED
      BY <3>2, <3>3
  <2> QED
    BY <2>1, <2>2 DEF FileInv
<1>2. ASSUME NEW j \in GpuIds, CopyScenario(j) PROVE FileInv'
  <2>1. DirsAreBlind' /\ ScenarioInPlace'
    <3>1. NothingBlind
      BY <1>2 DEF CopyScenario, NothingBlind
    <3> QED
      BY <3>1, NothingBlindStep
  <2>2. CopyIsThere'
    BY <1>2 DEF CopyScenario, FileInv, CopyIsThere, Copied
  <2>3. ScriptsRace'
    BY <1>2 DEF CopyScenario, FileInv, ScriptsRace, ScriptRuns, SameMount,
                Looking
  <2> QED
    BY <2>1, <2>2, <2>3 DEF FileInv
<1>3. ASSUME NEW j \in GpuIds,
             StartGpuFails(j) \/ RunDocker(j) \/ RegisterGpu(j)
             \/ AnnouncedGpu(j) \/ AnnounceGpuRaises(j) \/ BoxEnds(j)
             \/ ScriptEndsBox(j)
      PROVE  FileInv'
  <2>1. FilesCalm
    BY <1>3 DEF StartGpuFails, RunDocker, RegisterGpu, AnnouncedGpu,
                AnnounceGpuRaises, BoxEnds, ScriptEndsBox, FilesCalm, Copied,
                Looking, ScriptRuns, UnderWay
  <2> QED
    BY <2>1, FilesCalmStep
<1>4. ASSUME NEW j \in GpuIds, BoxUp(j) PROVE FileInv'
  <2>1. ScriptsRace'
    BY <1>4 DEF BoxUp, FileInv, ScriptsRace, ScriptRuns, SameMount, Looking
  <2>2. CopyIsThere'
    BY <1>4 DEF BoxUp, FileInv, CopyIsThere, Copied
  <2>3. \/ path[Mounted(j)] = "file"
        \/ path[Mounted(j)] = "dir"
        \/ path[Mounted(j)] = "none" /\ Unlucky(j)
    BY <1>4 DEF BoxUp, FileInv, CopyIsThere, Copied
  <2>4. /\ gpuPlan' = gpuPlan /\ raced' = raced
        /\ blind \subseteq blind' /\ blind' \subseteq blind \cup {j}
        /\ path[Mounted(j)] # "file" \/ Misnamed(j) => j \in blind'
        /\ path[Mounted(j)] = "file" /\ ~Misnamed(j) => blind' = blind
        /\ \A s \in Spots : s # Mounted(j) => path'[s] = path[s]
        /\ path[Mounted(j)] = "file" => path'[Mounted(j)] = "file"
    BY <1>4 DEF BoxUp
  <2>5. path[Mounted(j)] # "file" \/ Misnamed(j) =>
          \E k \in blind' : Mounted(k) = Mounted(j) /\ Unlucky(k)
    <3>1. CASE Unlucky(j)
      BY <2>3, <2>4, <3>1
    <3>2. CASE path[Mounted(j)] = "dir"
      <4> HIDE DEF Mounted, Misnamed, Unlucky
      <4>1. Mounted(j) \in Spots
        BY MountsAreSpots
      <4>2. PICK k \in blind : Mounted(k) = Mounted(j) /\ Unlucky(k)
        BY <3>2, <4>1 DEF FileInv, DirsAreBlind
      <4> QED
        BY <2>4, <4>2
    <3>3. CASE path[Mounted(j)] = "file" /\ ~Misnamed(j)
      BY <3>3
    <3> HIDE DEF Mounted, Misnamed
    <3> QED
      BY <2>3, <3>1, <3>2, <3>3
  <2>6. DirsAreBlind'
    <3> HIDE DEF Mounted, Misnamed, Unlucky
    <3> SUFFICES ASSUME NEW s \in Spots, path'[s] = "dir"
                 PROVE  \E k \in blind' : Mounted(k)' = s /\ Unlucky(k)'
      BY DEF DirsAreBlind
    <3>1. \A k : Mounted(k)' = Mounted(k) /\ (Unlucky(k)' <=> Unlucky(k))
      BY <2>4 DEF Mounted, Unlucky, Misnamed, CopiedTo
    <3>2. CASE s = Mounted(j)
      BY <2>4, <2>5, <3>1, <3>2
    <3>3. CASE s # Mounted(j)
      <4>1. PICK k \in blind : Mounted(k) = s /\ Unlucky(k)
        BY <2>4, <3>3 DEF FileInv, DirsAreBlind
      <4> QED
        BY <2>4, <3>1, <4>1
    <3> QED
      BY <3>2, <3>3
  <2>7. ScenarioInPlace'
    <3> HIDE DEF Mounted, Misnamed, Unlucky
    <3>1. \A k : Mounted(k)' = Mounted(k) /\ (Unlucky(k)' <=> Unlucky(k))
      BY <2>4 DEF Mounted, Unlucky, Misnamed, CopiedTo
    <3>2. \A i \in blind : \E k \in blind : Mounted(i) = Mounted(k) /\ Unlucky(k)
      BY DEF FileInv, ScenarioInPlace, SameMount, Unlucky
    <3>3. \A i \in blind' : \E k \in blind' : Mounted(i) = Mounted(k) /\ Unlucky(k)
      BY <2>4, <2>5, <3>2
    <3> QED
      BY <3>1, <3>3 DEF ScenarioInPlace, SameMount, Unlucky
  <2> QED
    BY <2>1, <2>2, <2>6, <2>7 DEF FileInv
<1>5. ASSUME NEW j \in GpuIds, ScriptRemoves(j) PROVE FileInv'
  <2>1. DirsAreBlind' /\ ScenarioInPlace'
    <3>1. NothingBlind
      BY <1>5 DEF ScriptRemoves, NothingBlind
    <3> QED
      BY <3>1, NothingBlindStep
  <2>2. ScriptsRace'
    BY <1>5 DEF ScriptRemoves, FileInv, ScriptsRace, ScriptRuns, SameMount,
                Looking
  <2>3. CopyIsThere'
    <3> SUFFICES ASSUME NEW i \in GpuIds, Copied(i)', ~Unlucky(i)'
                 PROVE  path'[Mounted(i)'] # "none"
      BY DEF CopyIsThere
    <3>1. Copied(i) /\ ~Unlucky(i) /\ gpuPlan' = gpuPlan
      BY <1>5 DEF ScriptRemoves, Copied
    <3>2. i \in Looking
      BY <3>1 DEF Copied, Looking, BoxInv
    <3>3. ~SameMount(j, i)
      BY <1>5, <3>1, <3>2 DEF FileInv, ScriptsRace, ScriptRuns, ScriptRemoves
    <3> QED
      BY <1>5, <3>1, <3>3 DEF ScriptRemoves, SameMount, FileInv, CopyIsThere
  <2> QED
    BY <2>1, <2>2, <2>3 DEF FileInv
<1>6. ASSUME NEW j \in GpuIds, PopGpu(j) PROVE FileInv'
  <2>0. NothingBlind
    BY <1>6 DEF PopGpu, NothingBlind
  <2>1. DirsAreBlind' /\ ScenarioInPlace'
    BY <2>0, NothingBlindStep
  <2>3. CopyIsThere'
    BY <1>6 DEF PopGpu, FileInv, CopyIsThere, Copied
  <2>2. ScriptsRace'
    BY <1>6 DEF PopGpu, FileInv, ScriptsRace, ScriptRuns, SameMount, Looking
  <2> QED
    BY <2>1, <2>2, <2>3 DEF FileInv
<1>7. ASSUME NEW j \in GpuIds,
             ExpireGpu(j) \/ ExpireGpuTold(j) \/ ExpireGpuRaises(j)
             \/ PopGpuNone(j) \/ StopGpuTold(j) \/ ScriptCut(j)
      PROVE  FileInv'
  <2>1. FilesCalm
    BY <1>7 DEF ExpireGpu, ExpireGpuTold, ExpireGpuRaises, PopGpuNone,
                StopGpuTold, ScriptCut, FilesCalm, Copied, Looking, ScriptRuns
  <2> QED
    BY <2>1, FilesCalmStep
<1>8. ASSUME NEW J \in SUBSET GpuIds, ResolveGpu(J) \/ CancelGpu(J)
      PROVE  FileInv'
  <2>1. FilesCalm
    BY <1>8 DEF ResolveGpu, CancelGpu, FilesCalm, Copied, Looking, ScriptRuns
  <2> QED
    BY <2>1, FilesCalmStep
<1>9. CASE UNCHANGED gpuVars
  <2>1. FilesCalm
    BY <1>9 DEF gpuVars, FilesCalm, Copied, Looking, ScriptRuns
  <2> QED
    BY <2>1, FilesCalmStep
<1> QED
  BY <1>1, <1>2, <1>3, <1>4, <1>5, <1>6, <1>7, <1>8, <1>9 DEF GpuNext

(***************************************************************************)
(* A container comes up without the scenario asked for only where a stop   *)
(* script raced a job that was being started, or a file has another name   *)
(* inside than its own: with any number of jobs and files, whatever the    *)
(* names in them, no other order of steps takes a scenario away.           *)
(***************************************************************************)
THEOREM ScenarioInPlaceHolds == GpuSpec => []ScenarioInPlace
<1>1. FileInv => ScenarioInPlace
  BY DEF FileInv
<1> QED
  BY <1>1, FileInit, FileStep, BoxInit, BoxStep, GpuTypeCorrect, PTL DEF GpuSpec

-----------------------------------------------------------------------------
(* Owners of ends *)

\* Somebody is to announce the end of this job, or will be.
GpuHeld(j) ==
  j \in gpuRegistry \/ gpuTimer[j] = "announcing" \/ gpuStop[j] = "popped"

\* Whoever took a job out of the registry is alone with it, and nobody has
\* told its end before; a job whose end was told or lost is nobody's.
GpuOwned(j) ==
  /\ gpuTold[j] \in {0, 1}
  /\ GpuHeld(j) \/ j \in gpuLost \/ gpuTold[j] = 1 => Registered(j)
  /\ j \in gpuRegistry => gpuTimer[j] # "announcing" /\ gpuStop[j] # "popped"
  /\ gpuTimer[j] = "announcing" => gpuStop[j] # "popped"
  /\ GpuHeld(j) => j \notin gpuLost /\ gpuTold[j] = 0
  /\ j \in gpuLost => gpuTold[j] = 0

GpuOwnersInv == \A j \in GpuIds : GpuOwned(j)

LEMMA GpuOwnersInit == GpuInit => GpuOwnersInv
  BY DEF GpuInit, GpuOwnersInv, GpuOwned, GpuHeld, Registered

LEMMA GpuOwnersStep ==
  GpuTypeOK /\ BoxInv /\ GpuOwnersInv /\ [GpuNext]_gpuVars => GpuOwnersInv'
<1> SUFFICES ASSUME GpuTypeOK, BoxInv, GpuOwnersInv, [GpuNext]_gpuVars,
                    NEW i \in GpuIds
             PROVE  GpuOwned(i)'
  BY DEF GpuOwnersInv
<1>0. GpuOwned(i)
  BY DEF GpuOwnersInv
<1> USE <1>0 DEF GpuTypeOK, GpuOwned, GpuHeld, Registered
<1>1. ASSUME NEW j \in GpuIds,
             StartGpu(j) \/ StartGpuFails(j) \/ CopyScenario(j) \/ RunDocker(j)
      PROVE  GpuOwned(i)'
  BY <1>1 DEF StartGpu, StartGpuFails, CopyScenario, RunDocker, UnderWay
<1>2. ASSUME NEW j \in GpuIds, RegisterGpu(j) PROVE GpuOwned(i)'
  BY <1>2 DEF RegisterGpu
<1>3. ASSUME NEW j \in GpuIds, AnnouncedGpu(j) \/ AnnounceGpuRaises(j)
      PROVE  GpuOwned(i)'
  BY <1>3 DEF AnnouncedGpu, AnnounceGpuRaises
<1>4. ASSUME NEW j \in GpuIds,
             BoxUp(j) \/ BoxEnds(j) \/ ScriptEndsBox(j) \/ ScriptRemoves(j)
             \/ ScriptCut(j)
      PROVE  GpuOwned(i)'
  BY <1>4 DEF BoxUp, BoxEnds, ScriptEndsBox, ScriptRemoves, ScriptCut
<1>5. ASSUME NEW j \in GpuIds, ExpireGpu(j) PROVE GpuOwned(i)'
  BY <1>5 DEF ExpireGpu
<1>6. ASSUME NEW j \in GpuIds, ExpireGpuTold(j) \/ ExpireGpuRaises(j)
      PROVE  GpuOwned(i)'
  BY <1>6 DEF ExpireGpuTold, ExpireGpuRaises
<1>7. ASSUME NEW j \in GpuIds, PopGpu(j) \/ PopGpuNone(j) PROVE GpuOwned(i)'
  BY <1>7 DEF PopGpu, PopGpuNone
<1>8. ASSUME NEW j \in GpuIds, StopGpuTold(j) PROVE GpuOwned(i)'
  BY <1>8 DEF StopGpuTold
<1>9. ASSUME NEW J \in SUBSET GpuIds, ResolveGpu(J) \/ CancelGpu(J)
      PROVE  GpuOwned(i)'
  BY <1>9 DEF ResolveGpu, CancelGpu
<1>10. CASE UNCHANGED gpuVars
  BY <1>10 DEF gpuVars
<1> QED
  BY <1>1, <1>2, <1>3, <1>4, <1>5, <1>6, <1>7, <1>8, <1>9, <1>10 DEF GpuNext

\* Every step of the controller is a step of the ledger, or invisible there.
LEMMA GpuLedgerStep ==
  ASSUME GpuTypeOK, BoxInv, GpuOwnersInv, [GpuNext]_gpuVars
  PROVE  [GpuLedger!Next]_(GpuLedger!vars)
<1> USE DEF GpuLedger!vars
<1>1. ASSUME gpuTold' = gpuTold, \A i \in GpuIds : GpuStage(i)' = GpuStage(i)
      PROVE  UNCHANGED GpuLedger!vars
  BY <1>1
<1>2. ASSUME NEW j \in GpuIds, gpuTold' = gpuTold,
             \A i \in GpuIds \ {j} : GpuStage(i)' = GpuStage(i),
             GpuStage(j) = "absent" /\ GpuStage(j)' = "live"
      PROVE  GpuLedger!Next
  BY <1>2 DEF GpuLedger!Register, GpuLedger!Next
<1>3. ASSUME NEW j \in GpuIds, gpuTold' = gpuTold,
             \A i \in GpuIds \ {j} : GpuStage(i)' = GpuStage(i),
             GpuStage(j) = "live" /\ GpuStage(j)' = "ending"
      PROVE  GpuLedger!Next
  BY <1>3 DEF GpuLedger!Retire, GpuLedger!Next
<1>4. ASSUME NEW j \in GpuIds, gpuTold' = [gpuTold EXCEPT ![j] = @ + 1],
             \A i \in GpuIds \ {j} : GpuStage(i)' = GpuStage(i),
             GpuStage(j) = "ending" /\ GpuStage(j)' = "ended"
      PROVE  GpuLedger!Next
  BY <1>4 DEF GpuLedger!Announce, GpuLedger!Next
<1>5. ASSUME NEW J \in SUBSET GpuIds, gpuTold' = gpuTold,
             \A i \in GpuIds \ J : GpuStage(i)' = GpuStage(i),
             \A i \in J : GpuStage(i) = "ending" /\ GpuStage(i)' = "lost"
      PROVE  GpuLedger!Next
  BY <1>5 DEF GpuLedger!Lose, GpuLedger!Next
<1> USE DEF GpuTypeOK, Registered, GpuStage
<1>6. ASSUME UNCHANGED <<gpuTold, gpuRegistry, gpuLost>>,
             \A i \in GpuIds : Registered(i)' <=> Registered(i)
      PROVE  UNCHANGED GpuLedger!vars
  BY <1>1, <1>6
<1>7. ASSUME NEW j \in GpuIds,
             StartGpu(j) \/ StartGpuFails(j) \/ CopyScenario(j) \/ RunDocker(j)
             \/ AnnouncedGpu(j) \/ AnnounceGpuRaises(j)
      PROVE  UNCHANGED GpuLedger!vars
  <2>1. /\ UNCHANGED <<gpuTold, gpuRegistry, gpuLost>>
        /\ \A i \in GpuIds : Registered(i)' <=> Registered(i)
    BY <1>7 DEF StartGpu, StartGpuFails, CopyScenario, RunDocker, AnnouncedGpu,
                AnnounceGpuRaises, UnderWay
  <2> QED
    BY <1>6, <2>1
<1>8. ASSUME NEW j \in GpuIds,
             \/ BoxUp(j) \/ BoxEnds(j) \/ ScriptEndsBox(j) \/ ScriptRemoves(j)
             \/ ScriptCut(j) \/ PopGpuNone(j)
      PROVE  UNCHANGED GpuLedger!vars
  BY <1>6, <1>8 DEF BoxUp, BoxEnds, ScriptEndsBox, ScriptRemoves, ScriptCut,
                    PopGpuNone
<1>9. ASSUME NEW j \in GpuIds, RegisterGpu(j) PROVE GpuLedger!Next
  <2>0. j \notin gpuRegistry /\ j \notin gpuLost /\ gpuTold[j] = 0
    BY <1>9 DEF RegisterGpu, GpuOwnersInv, GpuOwned, GpuHeld
  <2>1. GpuStage(j) = "absent" /\ GpuStage(j)' = "live" /\ gpuTold' = gpuTold
    BY <1>9, <2>0 DEF RegisterGpu
  <2>2. \A i \in GpuIds \ {j} : GpuStage(i)' = GpuStage(i)
    BY <1>9 DEF RegisterGpu
  <2> HIDE DEF GpuStage
  <2> QED
    BY <1>2, <2>1, <2>2
<1>10. ASSUME NEW j \in GpuIds, ExpireGpu(j) \/ PopGpu(j)
       PROVE  [GpuLedger!Next]_(GpuLedger!vars)
  <2>1. /\ UNCHANGED <<gpuTold, gpuLost, gpuPhase>>
        /\ gpuRegistry' = gpuRegistry \ {j}
    BY <1>10 DEF ExpireGpu, PopGpu
  <2>2. \A i \in GpuIds \ {j} : GpuStage(i)' = GpuStage(i)
    BY <2>1
  <2>3. CASE j \in gpuRegistry
    <3>0. Registered(j) /\ j \notin gpuLost /\ gpuTold[j] = 0
      BY <2>3 DEF GpuOwnersInv, GpuOwned, GpuHeld
    <3>1. GpuStage(j) = "live" /\ GpuStage(j)' = "ending"
      BY <2>1, <2>3, <3>0
    <3> HIDE DEF GpuStage
    <3> QED
      BY <1>3, <2>1, <2>2, <3>1
  <2>4. CASE j \notin gpuRegistry
    <3>1. GpuStage(j)' = GpuStage(j)
      BY <2>1, <2>4
    <3> HIDE DEF GpuStage
    <3> QED
      BY <1>1, <2>1, <2>2, <3>1
  <2> QED
    BY <2>3, <2>4
<1>11. ASSUME NEW j \in GpuIds, ExpireGpuTold(j) \/ StopGpuTold(j)
       PROVE  GpuLedger!Next
  <2>1. /\ gpuTold' = [gpuTold EXCEPT ![j] = @ + 1]
        /\ UNCHANGED <<gpuRegistry, gpuLost, gpuPhase>>
        /\ gpuTimer[j] = "announcing" \/ gpuStop[j] = "popped"
    BY <1>11 DEF ExpireGpuTold, StopGpuTold
  <2>0. /\ Registered(j) /\ j \notin gpuRegistry /\ j \notin gpuLost
        /\ gpuTold[j] = 0
    BY <2>1 DEF GpuOwnersInv, GpuOwned, GpuHeld
  <2>2. GpuStage(j) = "ending" /\ GpuStage(j)' = "ended"
    BY <2>0, <2>1
  <2>3. \A i \in GpuIds \ {j} : GpuStage(i)' = GpuStage(i)
    BY <2>1
  <2> HIDE DEF GpuStage
  <2> QED
    BY <1>4, <2>1, <2>2, <2>3
<1>12. ASSUME NEW J \in SUBSET gpuRegistry, ResolveGpu(J)
       PROVE  UNCHANGED GpuLedger!vars
  BY <1>6, <1>12 DEF ResolveGpu
<1>13. ASSUME NEW J \in SUBSET GpuIds, CancelGpu(J) PROVE GpuLedger!Next
  <2>1. \A i \in J : GpuStage(i) = "ending" /\ GpuStage(i)' = "lost"
    BY <1>13 DEF CancelGpu, GpuOwnersInv, GpuOwned, GpuHeld
  <2>2. gpuTold' = gpuTold /\ \A i \in GpuIds \ J : GpuStage(i)' = GpuStage(i)
    BY <1>13 DEF CancelGpu
  <2> HIDE DEF GpuStage
  <2> QED
    BY <1>5, <2>1, <2>2
<1>14. ASSUME NEW j \in GpuIds, ExpireGpuRaises(j) PROVE GpuLedger!Next
  <2> DEFINE J == {j}
  <2>0. J \in SUBSET GpuIds
    OBVIOUS
  <2>1. \A i \in J : GpuStage(i) = "ending" /\ GpuStage(i)' = "lost"
    BY <1>14 DEF ExpireGpuRaises, GpuOwnersInv, GpuOwned, GpuHeld
  <2>2. /\ gpuTold' = gpuTold
        /\ \A i \in GpuIds \ J : GpuStage(i)' = GpuStage(i)
    BY <1>14 DEF ExpireGpuRaises
  <2> HIDE DEF GpuStage, J
  <2> QED
    BY <1>5, <2>0, <2>1, <2>2
<1>15. CASE UNCHANGED gpuVars
  BY <1>15 DEF gpuVars
<1> QED
  BY <1>7, <1>8, <1>9, <1>10, <1>11, <1>12, <1>13, <1>14, <1>15 DEF GpuNext

(***************************************************************************)
(* The GPU workload controller implements the job ledger too: with a timer *)
(* that may wake up at any time, or is never made because a broadcast      *)
(* raised, stops that cross it and stops that are cancelled, a job ends    *)
(* once and is announced at most once.                                     *)
(***************************************************************************)
THEOREM GpuImplementsLedger == GpuSpec => GpuLedgerSpec
<1>1. GpuInit => GpuLedger!Init
  BY DEF GpuInit, GpuLedger!Init, GpuStage
<1>2. GpuTypeOK /\ BoxInv /\ GpuOwnersInv /\ [GpuNext]_gpuVars
        => [GpuLedger!Next]_(GpuLedger!vars)
  BY GpuLedgerStep
<1> QED
  BY <1>1, <1>2, GpuOwnersInit, GpuOwnersStep, BoxInit, BoxStep,
     GpuTypeCorrect, PTL DEF GpuSpec, GpuLedgerSpec, GpuLedger!Spec

\* What the ledger promises, for these jobs
GpuFacts == INSTANCE JobLedger_proofs WITH
  Jobs <- GpuIds,
  ledger <- [j \in GpuIds |-> GpuStage(j)],
  told <- gpuTold

(***************************************************************************)
(* So a GPU job, too, has its end told once or never, and does not come    *)
(* back to the registry.                                                   *)
(***************************************************************************)
THEOREM GpuJobsEndOnce == GpuSpec => []GpuLedger!ToldOnce /\ GpuLedger!NoReturn
<1>1. GpuLedger!Spec => GpuFacts!Spec
  <2>1. GpuLedger!Init => GpuFacts!Init
    BY DEF GpuLedger!Init, GpuFacts!Init
  <2>2. [GpuLedger!Next]_(GpuLedger!vars) => [GpuFacts!Next]_(GpuFacts!vars)
    BY Zenon
       DEF GpuLedger!Next, GpuLedger!vars, GpuLedger!Register, GpuLedger!Retire,
           GpuLedger!Announce, GpuLedger!Lose,
           GpuFacts!Next, GpuFacts!vars, GpuFacts!Register, GpuFacts!Retire,
           GpuFacts!Announce, GpuFacts!Lose
  <2> QED
    BY <2>1, <2>2, PTL DEF GpuLedger!Spec, GpuFacts!Spec
<1>2. GpuFacts!ToldOnce => GpuLedger!ToldOnce
  BY DEF GpuFacts!ToldOnce, GpuLedger!ToldOnce
<1>3. GpuFacts!NoReturn => GpuLedger!NoReturn
  BY PTL DEF GpuFacts!NoReturn, GpuLedger!NoReturn, GpuFacts!vars, GpuLedger!vars
<1> QED
  BY <1>1, <1>2, <1>3, GpuImplementsLedger, GpuFacts!ToldOnceHolds,
     GpuFacts!NoReturnHolds, PTL DEF GpuLedgerSpec
=============================================================================
