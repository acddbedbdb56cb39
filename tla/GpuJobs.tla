------------------------------- MODULE GpuJobs -------------------------------
(***************************************************************************)
(* UI/backend/gpu_workload_controller.py: the life of a GPU workload job.  *)
(* A start request copies its scenario file to the machine, under the      *)
(* file's name, and runs docker in the background there, which mounts the  *)
(* file of the name that is inside, whenever the container comes up; the   *)
(* script that stops a job ends its container and removes what is mounted. *)
(* A file belongs to a scenario, not to a job, and docker makes a          *)
(* directory of a path it is to mount and does not find.                   *)
(*                                                                         *)
(* A broadcast may raise: main.py's hub forgives RuntimeError only.        *)
(* The code between two awaits is one step.  There is no clock here: a     *)
(* completion timer may wake up at any time.                               *)
(***************************************************************************)
EXTENDS Naturals

CONSTANTS
  GpuMachines,
  GpuScenarios, \* names of scenario files
  NamedIn,      \* the "name" inside each file, which nothing ties to its own
  GpuIds,       \* job ids, each of one POST /api/gpu-workloads/start
  GpuRaises     \* bound: jobs whose start or timely end a broadcast may lose

ASSUME GpuAssumption ==
  /\ NamedIn \in [GpuScenarios -> GpuScenarios]
  /\ GpuRaises \subseteq GpuIds

VARIABLES
  gpuPlan,      \* machine and scenario file of each request
  gpuPhase,     \* how far the request is
  gpuRegistry,  \* job_registry
  gpuTimer,     \* _auto_complete of each job
  gpuStop,      \* _stop_single of each job
  gpuScript,    \* the stop script on the machine
  box,          \* the container of each job
  path,         \* what is where a scenario file should be
  blind,        \* containers that came up without the scenario asked for
  raced,        \* jobs started while a stop script was at their file
  together,     \* pairs of jobs whose requests were under way together
  gpuTold,      \* gpu_workload_stopped events of each job
  gpuLost       \* jobs whose stop was cancelled, or their end not told

gpuVars == <<gpuPlan, gpuPhase, gpuRegistry, gpuTimer, gpuStop, gpuScript,
             box, path, blind, raced, together, gpuTold, gpuLost>>

Spots == GpuMachines \X GpuScenarios

GpuPhases == {"idle", "copying", "launching", "announcing", "ok", "untimed",
              "error"}

GpuTypeOK ==
  /\ gpuPlan \in [GpuIds -> Spots]
  /\ gpuPhase \in [GpuIds -> GpuPhases]
  /\ gpuRegistry \subseteq GpuIds
  /\ gpuTimer \in [GpuIds -> {"none", "sleeping", "announcing", "expired",
                              "cancelled"}]
  /\ gpuStop \in [GpuIds -> {"idle", "resolved", "popped", "over"}]
  /\ gpuScript \in [GpuIds -> {"none", "stopping", "removing", "over", "cut"}]
  /\ box \in [GpuIds -> {"none", "coming", "up", "gone"}]
  /\ path \in [Spots -> {"none", "file", "dir"}]
  /\ blind \subseteq GpuIds
  /\ raced \subseteq GpuIds
  /\ together \subseteq GpuIds \X GpuIds
  /\ gpuTold \in [GpuIds -> Nat]
  /\ gpuLost \subseteq GpuIds

GpuInit ==
  /\ gpuPlan \in [GpuIds -> Spots]
  /\ gpuPhase = [j \in GpuIds |-> "idle"]
  /\ gpuRegistry = {}
  /\ gpuTimer = [j \in GpuIds |-> "none"]
  /\ gpuStop = [j \in GpuIds |-> "idle"]
  /\ gpuScript = [j \in GpuIds |-> "none"]
  /\ box = [j \in GpuIds |-> "none"]
  /\ path = [s \in Spots |-> "none"]
  /\ blind = {}
  /\ raced = {}
  /\ together = {}
  /\ gpuTold = [j \in GpuIds |-> 0]
  /\ gpuLost = {}

-----------------------------------------------------------------------------

SameMachine(i, j) == gpuPlan[i][1] = gpuPlan[j][1]

\* Where the scenario of a job is copied to, and what its container mounts
CopiedTo(j) == gpuPlan[j]
Mounted(j) == <<gpuPlan[j][1], NamedIn[gpuPlan[j][2]]>>

Misnamed(j) == Mounted(j) # CopiedTo(j)
SameMount(i, j) == Mounted(i) = Mounted(j)

\* Requests that have been let in and have not registered their job.
UnderWay == {j \in GpuIds : gpuPhase[j] \in {"copying", "launching"}}

\* Jobs whose container is still to look for its file.
Looking ==
  {j \in GpuIds : gpuPhase[j] # "idle" /\ box[j] \in {"none", "coming"}}

ScriptRuns(j) == gpuScript[j] \in {"stopping", "removing"}

-----------------------------------------------------------------------------
(* Starting *)

\* Mutant: has_jobs looks for a job of the same scenario.
HasNoJob_mutant(j) == \A i \in gpuRegistry : gpuPlan[i] # gpuPlan[j]

\* has_jobs
HasNoJob(j) == \A i \in gpuRegistry : ~SameMachine(i, j)

\* start, to its first await
StartGpu(j) ==
  /\ gpuPhase[j] = "idle"
  /\ HasNoJob(j)
  /\ gpuPhase' = [gpuPhase EXCEPT ![j] = "copying"]
  /\ together' = together \cup
                   {<<i, j>> : i \in {k \in UnderWay : SameMachine(k, j)}}
  /\ raced' = IF \E k \in GpuIds : SameMount(k, j) /\ ScriptRuns(k)
              THEN raced \cup {j} ELSE raced
  /\ UNCHANGED <<gpuPlan, gpuRegistry, gpuTimer, gpuStop, gpuScript, box,
                 path, blind, gpuTold, gpuLost>>

\* The mkdir, the copy or the start command raises; docker may have been
\* started all the same.
StartGpuFails(j) ==
  /\ j \in UnderWay
  /\ gpuPhase' = [gpuPhase EXCEPT ![j] = "error"]
  /\ UNCHANGED <<gpuPlan, gpuRegistry, gpuTimer, gpuStop, gpuScript, box,
                 path, blind, raced, together, gpuTold, gpuLost>>

\* _copy_scenario; into a directory of that name, if there is one
CopyScenario(j) ==
  /\ gpuPhase[j] = "copying"
  /\ gpuPhase' = [gpuPhase EXCEPT ![j] = "launching"]
  /\ path' = [path EXCEPT ![CopiedTo(j)] =
                IF @ = "dir" THEN "dir" ELSE "file"]
  /\ UNCHANGED <<gpuPlan, gpuRegistry, gpuTimer, gpuStop, gpuScript, box,
                 blind, raced, together, gpuTold, gpuLost>>

\* The start command is on the machine: nohup ... & echo $!
RunDocker(j) ==
  /\ gpuPhase[j] = "launching"
  /\ box[j] = "none"
  /\ box' = [box EXCEPT ![j] = "coming"]
  /\ UNCHANGED <<gpuPlan, gpuPhase, gpuRegistry, gpuTimer, gpuStop, gpuScript,
                 path, blind, raced, together, gpuTold, gpuLost>>

\* Its pid comes back: the job is registered, gpu_workload_started goes out.
RegisterGpu(j) ==
  /\ gpuPhase[j] = "launching"
  /\ box[j] # "none"
  /\ gpuPhase' = [gpuPhase EXCEPT ![j] = "announcing"]
  /\ gpuRegistry' = gpuRegistry \cup {j}
  /\ UNCHANGED <<gpuPlan, gpuTimer, gpuStop, gpuScript, box, path, blind,
                 raced, together, gpuTold, gpuLost>>

\* The completion task is created, whether the job is still there or not.
AnnouncedGpu(j) ==
  /\ gpuPhase[j] = "announcing"
  /\ gpuPhase' = [gpuPhase EXCEPT ![j] = "ok"]
  /\ gpuTimer' = [gpuTimer EXCEPT ![j] = "sleeping"]
  /\ UNCHANGED <<gpuPlan, gpuRegistry, gpuStop, gpuScript, box, path, blind,
                 raced, together, gpuTold, gpuLost>>

\* The broadcast raises, which the request answers: the job is registered and
\* has no completion task.
AnnounceGpuRaises(j) ==
  /\ j \in GpuRaises
  /\ gpuPhase[j] = "announcing"
  /\ gpuPhase' = [gpuPhase EXCEPT ![j] = "untimed"]
  /\ UNCHANGED <<gpuPlan, gpuRegistry, gpuTimer, gpuStop, gpuScript, box, path,
                 blind, raced, together, gpuTold, gpuLost>>

-----------------------------------------------------------------------------
(* The machine *)

\* docker mounts what is there: the scenario asked for only if it was copied
\* to that path.
BoxUp(j) ==
  /\ box[j] = "coming"
  /\ box' = [box EXCEPT ![j] = "up"]
  /\ blind' = IF path[Mounted(j)] = "file" /\ ~Misnamed(j)
              THEN blind ELSE blind \cup {j}
  /\ path' = [path EXCEPT ![Mounted(j)] = IF @ = "none" THEN "dir" ELSE @]
  /\ UNCHANGED <<gpuPlan, gpuPhase, gpuRegistry, gpuTimer, gpuStop, gpuScript,
                 raced, together, gpuTold, gpuLost>>

\* The container ends, or docker cannot start it.
BoxEnds(j) ==
  /\ box[j] \in {"coming", "up"}
  /\ box' = [box EXCEPT ![j] = "gone"]
  /\ UNCHANGED <<gpuPlan, gpuPhase, gpuRegistry, gpuTimer, gpuStop, gpuScript,
                 path, blind, raced, together, gpuTold, gpuLost>>

\* Mutant: the script kills docker run only, which leaves a container alone.
ScriptEndsBox_mutant(j) ==
  /\ gpuScript[j] = "stopping"
  /\ gpuScript' = [gpuScript EXCEPT ![j] = "removing"]
  /\ box' = [box EXCEPT ![j] = IF @ = "coming" THEN "gone" ELSE @]
  /\ UNCHANGED <<gpuPlan, gpuPhase, gpuRegistry, gpuTimer, gpuStop, path,
                 blind, raced, together, gpuTold, gpuLost>>

\* docker stop, docker kill and kill: a container that is coming up may slip
\* through.
ScriptEndsBox(j) ==
  /\ gpuScript[j] = "stopping"
  /\ gpuScript' = [gpuScript EXCEPT ![j] = "removing"]
  /\ \E end \in {"gone"} \cup ({box[j]} \cap {"coming"}) :
       box' = [box EXCEPT ![j] = end]
  /\ UNCHANGED <<gpuPlan, gpuPhase, gpuRegistry, gpuTimer, gpuStop, path,
                 blind, raced, together, gpuTold, gpuLost>>

\* rm -f, which does not remove directories
ScriptRemoves(j) ==
  /\ gpuScript[j] = "removing"
  /\ gpuScript' = [gpuScript EXCEPT ![j] = "over"]
  /\ path' = [path EXCEPT ![Mounted(j)] = IF @ = "dir" THEN "dir" ELSE "none"]
  /\ UNCHANGED <<gpuPlan, gpuPhase, gpuRegistry, gpuTimer, gpuStop, box,
                 blind, raced, together, gpuTold, gpuLost>>

-----------------------------------------------------------------------------
(* Ending *)

\* Mutant: a job that is over has its file removed.
ExpireGpu_mutant(j) ==
  /\ gpuTimer[j] = "sleeping"
  /\ gpuTimer' = [gpuTimer EXCEPT ![j] =
                    IF j \in gpuRegistry THEN "announcing" ELSE "expired"]
  /\ gpuRegistry' = gpuRegistry \ {j}
  /\ path' = [path EXCEPT ![Mounted(j)] = IF @ = "dir" THEN "dir" ELSE "none"]
  /\ UNCHANGED <<gpuPlan, gpuPhase, gpuStop, gpuScript, box, blind, raced,
                 together, gpuTold, gpuLost>>

\* _auto_complete pops the job if it is still there, whatever its container
\* does.
ExpireGpu(j) ==
  /\ gpuTimer[j] = "sleeping"
  /\ gpuTimer' = [gpuTimer EXCEPT ![j] =
                    IF j \in gpuRegistry THEN "announcing" ELSE "expired"]
  /\ gpuRegistry' = gpuRegistry \ {j}
  /\ UNCHANGED <<gpuPlan, gpuPhase, gpuStop, gpuScript, box, path, blind,
                 raced, together, gpuTold, gpuLost>>

\* It tells its end.
ExpireGpuTold(j) ==
  /\ gpuTimer[j] = "announcing"
  /\ gpuTimer' = [gpuTimer EXCEPT ![j] = "expired"]
  /\ gpuTold' = [gpuTold EXCEPT ![j] = @ + 1]
  /\ UNCHANGED <<gpuPlan, gpuPhase, gpuRegistry, gpuStop, gpuScript, box, path,
                 blind, raced, together, gpuLost>>

\* Or the broadcast raises.
ExpireGpuRaises(j) ==
  /\ j \in GpuRaises
  /\ gpuTimer[j] = "announcing"
  /\ gpuTimer' = [gpuTimer EXCEPT ![j] = "expired"]
  /\ gpuLost' = gpuLost \cup {j}
  /\ UNCHANGED <<gpuPlan, gpuPhase, gpuRegistry, gpuStop, gpuScript, box, path,
                 blind, raced, together, gpuTold>>

\* _resolve_stop_job_ids
ResolveGpu(J) ==
  /\ J # {}
  /\ \A j \in J : gpuStop[j] = "idle"
  /\ gpuStop' = [j \in GpuIds |-> IF j \in J THEN "resolved" ELSE gpuStop[j]]
  /\ UNCHANGED <<gpuPlan, gpuPhase, gpuRegistry, gpuTimer, gpuScript, box,
                 path, blind, raced, together, gpuTold, gpuLost>>

\* _stop_single pops the job, cancels its timer and sends the script,
PopGpu(j) ==
  /\ gpuStop[j] = "resolved"
  /\ j \in gpuRegistry
  /\ gpuStop' = [gpuStop EXCEPT ![j] = "popped"]
  /\ gpuRegistry' = gpuRegistry \ {j}
  /\ gpuTimer' =
       [gpuTimer EXCEPT ![j] = IF @ = "sleeping" THEN "cancelled" ELSE @]
  /\ gpuScript' = [gpuScript EXCEPT ![j] = "stopping"]
  /\ raced' = raced \cup {k \in Looking : SameMount(j, k)}
  /\ UNCHANGED <<gpuPlan, gpuPhase, box, path, blind, together, gpuTold,
                 gpuLost>>

\* or finds that somebody else has.
PopGpuNone(j) ==
  /\ gpuStop[j] = "resolved"
  /\ j \notin gpuRegistry
  /\ gpuStop' = [gpuStop EXCEPT ![j] = "over"]
  /\ UNCHANGED <<gpuPlan, gpuPhase, gpuRegistry, gpuTimer, gpuScript, box,
                 path, blind, raced, together, gpuTold, gpuLost>>

\* The script returns, or its connection is lost: the end is told.
StopGpuTold(j) ==
  /\ gpuStop[j] = "popped"
  /\ gpuStop' = [gpuStop EXCEPT ![j] = "over"]
  /\ gpuTold' = [gpuTold EXCEPT ![j] = @ + 1]
  /\ UNCHANGED <<gpuPlan, gpuPhase, gpuRegistry, gpuTimer, gpuScript, box,
                 path, blind, raced, together, gpuLost>>

\* A client connects and cancels the grace stop these belong to; or it is one
\* job, and its broadcast raises.
CancelGpu(J) ==
  /\ J # {}
  /\ \A j \in J : gpuStop[j] = "popped"
  /\ gpuStop' = [j \in GpuIds |-> IF j \in J THEN "over" ELSE gpuStop[j]]
  /\ gpuLost' = gpuLost \cup J
  /\ UNCHANGED <<gpuPlan, gpuPhase, gpuRegistry, gpuTimer, gpuScript, box,
                 path, blind, raced, together, gpuTold>>

\* The script is cut off, as it may be when its connection is lost or its
\* stop is cancelled.
ScriptCut(j) ==
  /\ ScriptRuns(j)
  /\ gpuScript' = [gpuScript EXCEPT ![j] = "cut"]
  /\ UNCHANGED <<gpuPlan, gpuPhase, gpuRegistry, gpuTimer, gpuStop, box, path,
                 blind, raced, together, gpuTold, gpuLost>>

-----------------------------------------------------------------------------

GpuNext ==
  \/ \E j \in GpuIds :
       \/ StartGpu(j) \/ StartGpuFails(j) \/ CopyScenario(j) \/ RunDocker(j)
       \/ RegisterGpu(j) \/ AnnouncedGpu(j) \/ AnnounceGpuRaises(j)
       \/ BoxUp(j) \/ BoxEnds(j) \/ ScriptEndsBox(j) \/ ScriptRemoves(j)
       \/ ExpireGpu(j) \/ ExpireGpuTold(j) \/ ExpireGpuRaises(j)
       \/ PopGpu(j) \/ PopGpuNone(j) \/ StopGpuTold(j) \/ ScriptCut(j)
  \/ \E J \in SUBSET gpuRegistry : ResolveGpu(J)
  \/ \E J \in SUBSET GpuIds : CancelGpu(J)

GpuSpec == GpuInit /\ [][GpuNext]_gpuVars

-----------------------------------------------------------------------------
(* Properties *)

(***************************************************************************)
(* docs/gpu_workloads.md: a machine runs one GPU workload at a time.  It   *)
(* has two registered jobs only if both requests were under way together:  *)
(* has_jobs is asked before the copy and the start command are awaited.    *)
(***************************************************************************)
OneGpuJobEach ==
  \A i, j \in gpuRegistry :
    i # j /\ SameMachine(i, j) =>
      <<i, j>> \in together \/ <<j, i>> \in together

(***************************************************************************)
(* A container comes up without the scenario asked for only where one that *)
(* mounts the same path was raced by a stop script while its job was being *)
(* started, or has another name inside its file than the file's own (its   *)
(* copy is elsewhere).  All that come after it may be without theirs: the  *)
(* path can be a directory from then on, which neither a copy nor a stop   *)
(* removes.                                                                *)
(***************************************************************************)
ScenarioInPlace ==
  \A j \in blind :
    \E k \in blind : SameMount(j, k) /\ (k \in raced \/ Misnamed(k))

(***************************************************************************)
(* A container is up without a registered job only while its request is    *)
(* under way or after it failed, after its time was over, while its script *)
(* is at work or after it was cut off, or when it came up after the script *)
(* had looked for it.  A container that was up when its job was stopped is *)
(* gone when the script gets to its file.                                  *)
(***************************************************************************)
BoxesAccounted ==
  \A j \in GpuIds :
    box[j] = "up" /\ j \notin gpuRegistry =>
      \/ gpuPhase[j] \in {"launching", "error"}
      \/ gpuTimer[j] \in {"announcing", "expired"}
      \/ gpuScript[j] \in {"stopping", "cut"}
      \/ gpuScript[j] \in {"removing", "over"} /\ j \in raced

-----------------------------------------------------------------------------
(* Refinement *)

GpuStage(j) ==
  IF j \in gpuRegistry THEN "live"
  ELSE IF j \in gpuLost THEN "lost"
  ELSE IF gpuTold[j] > 0 THEN "ended"
  ELSE IF gpuPhase[j] \in {"announcing", "ok", "untimed"} THEN "ending"
  ELSE "absent"

GpuLedger == INSTANCE JobLedger WITH
               Jobs <- GpuIds,
               ledger <- [j \in GpuIds |-> GpuStage(j)],
               told <- gpuTold

\* The GPU workload controller keeps the promises of a job controller.
GpuLedgerSpec == GpuLedger!Spec
=============================================================================
