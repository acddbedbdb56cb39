---------------------------- MODULE WorkloadJobs ----------------------------
(***************************************************************************)
(* UI/backend/workload_controller.py: the life of CPU workload jobs.  A    *)
(* start request runs a scenario, a list of jobs with delays: it compares  *)
(* them with job_registry, copies the sources to every machine and starts  *)
(* every job.  Unlike in BurnJobs the jobs' windows are reckoned anew      *)
(* after the copies, and a job begins its delay then.                      *)
(*                                                                         *)
(* A broadcast may raise: main.py's hub forgives RuntimeError only.        *)
(* The code between two awaits is one step; a unit of time is five seconds.*)
(***************************************************************************)
EXTENDS Integers, Sequences, FiniteSets

CONSTANTS
  WlMachines,
  WlRequests,     \* POST /api/workloads/start calls
  Scenarios,      \* the scenarios, lists of jobs, that each may be for
  WlGrace,        \* the gap of _windows_overlap: 5 s
  MaxWlJobs,      \* bound: jobs there are in all
  LastRequest,    \* bound: requests come up to this time
  NoJob           \* the plan of an id that is not in use

ScenarioJobs == [machine : WlMachines, delay : Nat, duration : Nat]

ASSUME WorkloadAssumption ==
  /\ {WlGrace, MaxWlJobs, LastRequest} \subseteq Nat
  /\ Scenarios \in [WlRequests -> SUBSET Seq(ScenarioJobs)]

WlJobs == 1..MaxWlJobs      \* job ids, in the order they are handed out

VARIABLES
  clock,
  wlRequest,    \* how far each request is
  wlUnsynced,   \* machines it has not copied the sources to
  wlPlan,       \* the scenario job of each id
  wlPhase,      \* how far _start_single is
  wlRegistry,   \* job_registry
  wlStart,      \* started_at
  wlTimer,      \* _auto_complete
  wlStop,       \* _stop_single
  wlTold,       \* workload_stopped events
  wlLost        \* ids whose _stop_single was cancelled, or end not told

workloadVars == <<clock, wlRequest, wlUnsynced, wlPlan, wlPhase, wlRegistry,
                  wlStart, wlTimer, wlStop, wlTold, wlLost>>

\* A scenario's job, its request, the start time that was checked, and the
\* jobs it was checked against.
WlPlans ==
  [job : ScenarioJobs, request : WlRequests, checked : Nat,
   over : SUBSET WlJobs]

WlMachine(j) == wlPlan[j].job.machine

WorkloadTypeOK ==
  /\ clock \in Nat
  /\ wlRequest \in [WlRequests -> {"idle", "syncing", "starting", "ok",
                                   "error"}]
  /\ wlUnsynced \in [WlRequests -> SUBSET WlMachines]
  /\ wlPlan \in [WlJobs -> WlPlans \cup {NoJob}]
  /\ wlPhase \in [WlJobs -> {"none", "waiting", "launching", "failed",
                             "announcing", "tracked", "untimed"}]
  /\ wlRegistry \subseteq WlJobs
  /\ wlStart \in [WlJobs -> Nat]
  /\ wlTimer \in [WlJobs -> {"none", "sleeping", "announcing", "done"}]
  /\ wlStop \in [WlJobs -> {"idle", "resolved", "killing", "over"}]
  /\ wlTold \in [WlJobs -> Nat]
  /\ wlLost \subseteq WlJobs

WorkloadInit ==
  /\ clock = 0
  /\ wlRequest = [r \in WlRequests |-> "idle"]
  /\ wlUnsynced = [r \in WlRequests |-> {}]
  /\ wlPlan = [j \in WlJobs |-> NoJob]
  /\ wlPhase = [j \in WlJobs |-> "none"]
  /\ wlRegistry = {}
  /\ wlStart = [j \in WlJobs |-> 0]
  /\ wlTimer = [j \in WlJobs |-> "none"]
  /\ wlStop = [j \in WlJobs |-> "idle"]
  /\ wlTold = [j \in WlJobs |-> 0]
  /\ wlLost = {}

-----------------------------------------------------------------------------

\* _windows_overlap
WindowsOverlap(start1, end1, start2, end2) ==
  start1 < end2 + WlGrace /\ start2 < end1 + WlGrace

WlEnd(j) == wlStart[j] + wlPlan[j].job.duration

WlJobsOf(r) == {j \in WlJobs : wlPhase[j] # "none" /\ wlPlan[j].request = r}

-----------------------------------------------------------------------------
(* Starting *)

\* Mutant: the gap between two jobs is forgotten.
KeepsClear_mutant(job) ==
  LET start == clock + job.delay
  IN  \A k \in wlRegistry :
        WlMachine(k) = job.machine =>
          start >= WlEnd(k) \/ wlStart[k] >= start + job.duration

\* _check_overlaps: the jobs of a scenario are not compared with each other.
KeepsClear(job) ==
  LET start == clock + job.delay
  IN  \A k \in wlRegistry :
        WlMachine(k) = job.machine =>
          ~WindowsOverlap(start, start + job.duration, wlStart[k], WlEnd(k))

\* Ids that have been handed out.
Used == {j \in WlJobs : wlPhase[j] # "none"}

\* start_scenario to its first await
StartScenario(r, scenario) ==
  LET used == Cardinality(Used)
      ids == (used + 1)..(used + Len(scenario))
      plan(j) == [job |-> scenario[j - used], request |-> r,
                  checked |-> clock + scenario[j - used].delay,
                  over |-> wlRegistry]
  IN  /\ wlRequest[r] = "idle"
      /\ clock <= LastRequest
      /\ used + Len(scenario) <= MaxWlJobs
      /\ \A i \in DOMAIN scenario : KeepsClear(scenario[i])
      /\ wlRequest' = [wlRequest EXCEPT ![r] = "syncing"]
      /\ wlUnsynced' = [wlUnsynced EXCEPT ![r] =
                          {scenario[i].machine : i \in DOMAIN scenario}]
      /\ wlPlan' = [j \in WlJobs |-> IF j \in ids THEN plan(j) ELSE wlPlan[j]]
      /\ wlPhase' = [j \in WlJobs |->
                       IF j \in ids THEN "waiting" ELSE wlPhase[j]]
      /\ UNCHANGED <<clock, wlRegistry, wlStart, wlTimer, wlStop, wlTold,
                     wlLost>>

\* _sync_sources of one machine returns,
SyncDone(r, m) ==
  /\ wlRequest[r] = "syncing"
  /\ m \in wlUnsynced[r]
  /\ wlUnsynced' = [wlUnsynced EXCEPT ![r] = @ \ {m}]
  /\ UNCHANGED <<clock, wlRequest, wlPlan, wlPhase, wlRegistry, wlStart,
                 wlTimer, wlStop, wlTold, wlLost>>

\* or raises, and the request is over.
SyncFails(r) ==
  /\ wlRequest[r] = "syncing"
  /\ wlUnsynced[r] # {}
  /\ wlRequest' = [wlRequest EXCEPT ![r] = "error"]
  /\ UNCHANGED <<clock, wlUnsynced, wlPlan, wlPhase, wlRegistry, wlStart,
                 wlTimer, wlStop, wlTold, wlLost>>

\* Mutant: a machine that has the sources does not wait for the others.
Synced_mutant(r) ==
  {j \in WlJobsOf(r) : WlMachine(j) \notin wlUnsynced[r]}

\* The jobs that can go on: all of them, when the gather has returned.
Synced(r) == IF wlUnsynced[r] = {} THEN WlJobsOf(r) ELSE {}

BeginStarts(r) ==
  /\ wlRequest[r] = "syncing"
  /\ Synced(r) # {}
  /\ wlRequest' = [wlRequest EXCEPT ![r] =
                     IF wlUnsynced[r] = {} THEN "starting" ELSE @]
  /\ wlPhase' = [j \in WlJobs |-> IF j \in Synced(r) /\ wlPhase[j] = "waiting"
                                  THEN "launching" ELSE wlPhase[j]]
  /\ wlStart' = [j \in WlJobs |-> IF j \in Synced(r)
                                  THEN clock + wlPlan[j].job.delay
                                  ELSE wlStart[j]]
  /\ UNCHANGED <<clock, wlUnsynced, wlPlan, wlRegistry, wlTimer, wlStop,
                 wlTold, wlLost>>

\* The start command returns the runner's pid: the job is registered, and
\* workload_started goes out.
RegisterWorkload(j) ==
  /\ wlPhase[j] = "launching"
  /\ wlPhase' = [wlPhase EXCEPT ![j] = "announcing"]
  /\ wlRegistry' = wlRegistry \cup {j}
  /\ UNCHANGED <<clock, wlRequest, wlUnsynced, wlPlan, wlStart, wlTimer,
                 wlStop, wlTold, wlLost>>

\* The command fails or its reply is lost; the request answers an error.
LaunchRunnerFails(j) ==
  /\ wlPhase[j] = "launching"
  /\ wlPhase' = [wlPhase EXCEPT ![j] = "failed"]
  /\ wlRequest' = [wlRequest EXCEPT ![wlPlan[j].request] = "error"]
  /\ UNCHANGED <<clock, wlUnsynced, wlPlan, wlRegistry, wlStart, wlTimer,
                 wlStop, wlTold, wlLost>>

\* The completion task is created, whether the job is still there or not.
AnnouncedWorkload(j) ==
  /\ wlPhase[j] = "announcing"
  /\ wlPhase' = [wlPhase EXCEPT ![j] = "tracked"]
  /\ wlTimer' = [wlTimer EXCEPT ![j] = "sleeping"]
  /\ UNCHANGED <<clock, wlRequest, wlUnsynced, wlPlan, wlRegistry, wlStart,
                 wlStop, wlTold, wlLost>>

\* The broadcast raises, which the request answers: the job is registered and
\* has no completion task.
AnnounceWorkloadRaises(j) ==
  /\ wlPhase[j] = "announcing"
  /\ wlPhase' = [wlPhase EXCEPT ![j] = "untimed"]
  /\ wlRequest' = [wlRequest EXCEPT ![wlPlan[j].request] = "error"]
  /\ UNCHANGED <<clock, wlUnsynced, wlPlan, wlRegistry, wlStart, wlTimer,
                 wlStop, wlTold, wlLost>>

\* All jobs of the scenario have started.
AnswerScenario(r) ==
  /\ wlRequest[r] = "starting"
  /\ \A j \in WlJobsOf(r) : wlPhase[j] = "tracked"
  /\ wlRequest' = [wlRequest EXCEPT ![r] = "ok"]
  /\ UNCHANGED <<clock, wlUnsynced, wlPlan, wlPhase, wlRegistry, wlStart,
                 wlTimer, wlStop, wlTold, wlLost>>

-----------------------------------------------------------------------------
(* Ending *)

\* _auto_complete wakes up and pops the job if it is still there.
ExpireWorkload(j) ==
  /\ wlTimer[j] = "sleeping"
  /\ clock >= WlEnd(j)
  /\ wlTimer' = [wlTimer EXCEPT ![j] =
                   IF j \in wlRegistry THEN "announcing" ELSE "done"]
  /\ wlRegistry' = wlRegistry \ {j}
  /\ UNCHANGED <<clock, wlRequest, wlUnsynced, wlPlan, wlPhase, wlStart,
                 wlStop, wlTold, wlLost>>

ExpireWorkloadTold(j) ==
  /\ wlTimer[j] = "announcing"
  /\ wlTimer' = [wlTimer EXCEPT ![j] = "done"]
  /\ wlTold' = [wlTold EXCEPT ![j] = @ + 1]
  /\ UNCHANGED <<clock, wlRequest, wlUnsynced, wlPlan, wlPhase, wlRegistry,
                 wlStart, wlStop, wlLost>>

\* Or the broadcast raises.
ExpireWorkloadRaises(j) ==
  /\ wlTimer[j] = "announcing"
  /\ wlTimer' = [wlTimer EXCEPT ![j] = "done"]
  /\ wlLost' = wlLost \cup {j}
  /\ UNCHANGED <<clock, wlRequest, wlUnsynced, wlPlan, wlPhase, wlRegistry,
                 wlStart, wlStop, wlTold>>

\* _resolve_stop_job_ids, and a _stop_single for each
ResolveWorkloads(J) ==
  /\ J # {}
  /\ \A j \in J : wlStop[j] = "idle"
  /\ wlStop' = [j \in WlJobs |-> IF j \in J THEN "resolved" ELSE wlStop[j]]
  /\ UNCHANGED <<clock, wlRequest, wlUnsynced, wlPlan, wlPhase, wlRegistry,
                 wlStart, wlTimer, wlTold, wlLost>>

\* Mutant: the job is popped blindly.
PopWorkload_mutant(j) ==
  /\ wlStop[j] = "resolved"
  /\ wlStop' = [wlStop EXCEPT ![j] = "killing"]
  /\ wlRegistry' = wlRegistry \ {j}
  /\ wlTimer' = [wlTimer EXCEPT ![j] = IF @ = "sleeping" THEN "done" ELSE @]
  /\ UNCHANGED <<clock, wlRequest, wlUnsynced, wlPlan, wlPhase, wlStart,
                 wlTold, wlLost>>

\* _stop_single pops the job and cancels its timer,
PopWorkload(j) ==
  /\ wlStop[j] = "resolved"
  /\ j \in wlRegistry
  /\ wlStop' = [wlStop EXCEPT ![j] = "killing"]
  /\ wlRegistry' = wlRegistry \ {j}
  /\ wlTimer' = [wlTimer EXCEPT ![j] = IF @ = "sleeping" THEN "done" ELSE @]
  /\ UNCHANGED <<clock, wlRequest, wlUnsynced, wlPlan, wlPhase, wlStart,
                 wlTold, wlLost>>

\* or finds that somebody else has.
PopWorkloadNone(j) ==
  /\ wlStop[j] = "resolved"
  /\ j \notin wlRegistry
  /\ wlStop' = [wlStop EXCEPT ![j] = "over"]
  /\ UNCHANGED <<clock, wlRequest, wlUnsynced, wlPlan, wlPhase, wlRegistry,
                 wlStart, wlTimer, wlTold, wlLost>>

\* The stop command returns or raises (WorkloadRunner says what it does), and
\* workload_stopped has gone out.
StopWorkloadTold(j) ==
  /\ wlStop[j] = "killing"
  /\ wlStop' = [wlStop EXCEPT ![j] = "over"]
  /\ wlTold' = [wlTold EXCEPT ![j] = @ + 1]
  /\ UNCHANGED <<clock, wlRequest, wlUnsynced, wlPlan, wlPhase, wlRegistry,
                 wlStart, wlTimer, wlLost>>

\* A client connects and cancels the grace stop these belong to; or it is one
\* job, and its broadcast raises.
CancelWorkloads(J) ==
  /\ J # {}
  /\ \A j \in J : wlStop[j] = "killing"
  /\ wlStop' = [j \in WlJobs |-> IF j \in J THEN "over" ELSE wlStop[j]]
  /\ wlLost' = wlLost \cup J
  /\ UNCHANGED <<clock, wlRequest, wlUnsynced, wlPlan, wlPhase, wlRegistry,
                 wlStart, wlTimer, wlTold>>

\* Bound: after LastRequest the clock goes on for timers only.
WlTick ==
  /\ \/ clock < LastRequest
     \/ \E j \in WlJobs : wlTimer[j] = "sleeping" /\ clock < WlEnd(j)
  /\ clock' = clock + 1
  /\ UNCHANGED <<wlRequest, wlUnsynced, wlPlan, wlPhase, wlRegistry, wlStart,
                 wlTimer, wlStop, wlTold, wlLost>>

-----------------------------------------------------------------------------

WorkloadNext ==
  \/ \E r \in WlRequests :
       \/ \E scenario \in Scenarios[r] : StartScenario(r, scenario)
       \/ \E m \in WlMachines : SyncDone(r, m)
       \/ SyncFails(r) \/ BeginStarts(r) \/ AnswerScenario(r)
  \/ \E j \in WlJobs :
       \/ RegisterWorkload(j) \/ LaunchRunnerFails(j)
       \/ AnnouncedWorkload(j) \/ AnnounceWorkloadRaises(j)
       \/ ExpireWorkload(j) \/ ExpireWorkloadTold(j) \/ ExpireWorkloadRaises(j)
       \/ PopWorkload(j) \/ PopWorkloadNone(j) \/ StopWorkloadTold(j)
  \/ \E J \in SUBSET wlRegistry : ResolveWorkloads(J)
  \/ \E J \in SUBSET WlJobs : CancelWorkloads(J)
  \/ WlTick

WorkloadSpec == WorkloadInit /\ [][WorkloadNext]_workloadVars

-----------------------------------------------------------------------------
(* Properties *)

(***************************************************************************)
(* docs/workloads.md: overlapping jobs of a machine are refused.  A job    *)
(* that was let in behind a registered one keeps behind it, however long   *)
(* its sources took: its window moves with them, and only later.  (One     *)
(* that was let in before a job with a long delay may move into it.)       *)
(***************************************************************************)
KeepsBehind ==
  \A j, k \in wlRegistry :
    /\ k \in wlPlan[j].over
    /\ WlMachine(j) = WlMachine(k)
    /\ wlPlan[j].checked >= WlEnd(k)
    => wlStart[j] >= WlEnd(k) + WlGrace

(***************************************************************************)
(* A scenario one of whose machines does not get the sources starts no     *)
(* runner on any machine, and none of its jobs is ever registered.         *)
(***************************************************************************)
SyncFailureStartsNothing ==
  \A j \in WlJobs :
    wlPhase[j] # "none" /\ wlUnsynced[wlPlan[j].request] # {} =>
      wlPhase[j] = "waiting" /\ j \notin wlRegistry

-----------------------------------------------------------------------------
(* Refinement *)

WlStage(j) ==
  IF j \in wlRegistry THEN "live"
  ELSE IF j \in wlLost THEN "lost"
  ELSE IF wlTold[j] > 0 THEN "ended"
  ELSE IF wlPhase[j] \in {"announcing", "tracked", "untimed"} THEN "ending"
  ELSE "absent"

WlLedger == INSTANCE JobLedger WITH
              Jobs <- WlJobs,
              ledger <- [j \in WlJobs |-> WlStage(j)],
              told <- wlTold

\* The CPU workload controller keeps the promises of a job controller.
WlLedgerSpec == WlLedger!Spec
=============================================================================
