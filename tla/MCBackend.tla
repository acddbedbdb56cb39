------------------------------ MODULE MCBackend ------------------------------
(***************************************************************************)
(* The parts of the UI backend that BurnJobs and Interlocks leave to       *)
(* modules of their own, one of them per behaviour.  What they share, the  *)
(* job registries and the running flags as the endpoints see them, is in   *)
(* Interlocks; here each part meets its machines and its browser alone.    *)
(***************************************************************************)
EXTENDS WorkloadJobs, GpuJobs, FleetTask, ClientView, SshManager, TLC

CONSTANTS m1, m2, r1, r2, s1, s2, j1, j2, v1, v2, v3

VARIABLE part     \* which of them this behaviour is about

backendVars == <<workloadVars, gpuVars, fleetVars, viewVars, sshVars, part>>

WlJob(m, delay) == [machine |-> m, delay |-> delay, duration |-> 1]

\* A job, and behind it a later one or one with a job on another machine.
MCScenarios ==
  (r1 :> {<<WlJob(m1, 0)>>}) @@
  (r2 :> {<<WlJob(m1, 1)>>, <<WlJob(m1, 0), WlJob(m2, 0)>>})

\* The second scenario file was copied from the first one, name included.
MCNamedIn == (s1 :> s1) @@ (s2 :> s1)

\* Two jobs of a machine: both of the first file, or one of each.
MCPlans == {(j1 :> <<m1, f[1]>>) @@ (j2 :> <<m1, f[2]>>) :
              f \in {<<s1, s1>>, <<s1, s2>>, <<s2, s1>>}}

\* The first two jobs are of one machine.
MCViewMachine == (v1 :> m1) @@ (v2 :> m1) @@ (v3 :> m2)

\* A page that opens on two jobs, and its load() fails; or on one, and load()
\* is under way, or over and the page asks for a job.
MCPage ==
  \/ /\ viewSlots = <<v1, v2>> /\ viewLife[v3] = "absent"
     /\ viewLoad = "over" /\ viewLeft = 0
  \/ /\ viewSlots = <<v1>>
     /\ viewLife[v2] = "absent" /\ viewLife[v3] = "gone"
     /\ viewLeft = IF viewLoad = "over" THEN 1 ELSE 0

\* A part that is not looked at is in one state.
BackendInit ==
  /\ part \in {"workloads", "gpu", "fleet", "view", "ssh"}
  /\ WorkloadInit /\ GpuInit /\ FleetInit /\ ViewInit /\ SshInit
  /\ gpuPlan \in MCPlans
  /\ fleetGpu = IF fleetKind = "sampling" THEN {m1} ELSE {}
  /\ MCPage
  /\ part # "gpu" => gpuPlan[j1] = gpuPlan[j2]
  /\ part # "fleet" => fleetKind = "cpu"
  /\ part # "view" => viewSlots = <<v1, v2>>

\* The job is over, in the backend and on its machine.
GpuOver(j) ==
  /\ gpuPhase[j] \in {"ok", "untimed", "error"}
  /\ gpuTimer[j] \notin {"sleeping", "announcing"}
  /\ gpuStop[j] # "popped"
  /\ box[j] = "gone"
  /\ ~ScriptRuns(j)

\* Jobs of one file race each other; a job of the other file comes when the
\* first is over, and meets what it left at the path they share.
GpuInOrder ==
  gpuPhase[j2] = "idle" /\ gpuPhase'[j2] # "idle" =>
    IF gpuPlan[j1] = gpuPlan[j2] THEN gpuPhase[j1] # "idle" ELSE GpuOver(j1)

BackendNext ==
  /\ \/ /\ part = "workloads" /\ WorkloadNext
        /\ UNCHANGED <<gpuVars, fleetVars, viewVars, sshVars>>
     \/ /\ part = "gpu" /\ GpuNext /\ GpuInOrder
        /\ UNCHANGED <<workloadVars, fleetVars, viewVars, sshVars>>
     \/ /\ part = "fleet" /\ FleetNext
        /\ UNCHANGED <<workloadVars, gpuVars, viewVars, sshVars>>
     \/ /\ part = "view" /\ ViewNext
        /\ UNCHANGED <<workloadVars, gpuVars, fleetVars, sshVars>>
     \/ /\ part = "ssh" /\ SshNext
        /\ UNCHANGED <<workloadVars, gpuVars, fleetVars, viewVars>>
  /\ UNCHANGED part

\* A task that is not looked at has nothing enabled that is fair.
BackendSpec == BackendInit /\ [][BackendNext]_backendVars /\ FleetFairness

-----------------------------------------------------------------------------

(***************************************************************************)
(* The types of the state of every part.                                   *)
(***************************************************************************)
BackendTypes ==
  WorkloadTypeOK /\ GpuTypeOK /\ FleetTypeOK /\ ViewTypeOK /\ SshTypeOK

(***************************************************************************)
(* Both workload controllers keep the promises of JobLedger: a job is      *)
(* registered once, leaves the registry for good, and whoever took it out, *)
(* its timer or one stop, tells its end once or is cancelled before it     *)
(* does.                                                                   *)
(***************************************************************************)
LedgersKept == WlLedgerSpec /\ GpuLedgerSpec
=============================================================================
