---------------------------- MODULE GpuContainer ----------------------------
(***************************************************************************)
(* One container of a GPU workload: the docker command that starts it, the *)
(* runner in it (gpu_workloads/runner.py) with the ffmpeg of its video     *)
(* tasks, and the script that stops it, _stop_command of the controller or *)
(* stop_local of gpu_workloads/cli.py.                                     *)
(*                                                                         *)
(* The runner is process 1 of its container: a SIGTERM before StopFlag is  *)
(* installed is ignored, and when it ends nothing in the container runs on.*)
(***************************************************************************)
EXTENDS Naturals, Sequences

CONSTANT Tasks    \* the kinds of the scenario's tasks: "gpu" or "video"

ASSUME TasksAssumption == Tasks \in Seq({"gpu", "video"}) /\ Tasks # << >>

VARIABLES
  cli,        \* docker run: none, starting, attached or gone
  runner,     \* where the runner in the container is
  task,       \* the task it is at
  requested,  \* StopFlag.requested
  belated,    \* tasks begun since that was set
  overdue,    \* is the task's deadline over?
  ffmpeg,     \* does a child run?
  script,     \* how far the stop script is
  local,      \* gpu_workloads.cli's run-task, or the controller's?
  slipped     \* did the container come up after docker kill had looked?

containerVars == <<cli, runner, task, requested, belated, overdue, ffmpeg,
                   script, local, slipped>>

RunnerSteps == {"none", "booting", "choosing", "chosen", "loading", "looping",
                "polling", "terminating", "gone"}

ContainerTypeOK ==
  /\ cli \in {"starting", "attached", "gone"}
  /\ runner \in RunnerSteps
  /\ task \in 0..Len(Tasks)
  /\ belated \in Nat
  /\ script \in {"idle", "waiting", "kill", "pid", "done"}
  /\ requested \in BOOLEAN /\ overdue \in BOOLEAN /\ ffmpeg \in BOOLEAN
  /\ local \in BOOLEAN /\ slipped \in BOOLEAN

ContainerInit ==
  /\ cli = "starting"
  /\ runner = "none"
  /\ task = 0
  /\ requested = FALSE
  /\ belated = 0
  /\ overdue = FALSE
  /\ ffmpeg = FALSE
  /\ script = "idle"
  /\ local \in BOOLEAN
  /\ slipped = FALSE

Alive == runner \notin {"none", "gone"}

-----------------------------------------------------------------------------
(* docker run *)

\* The container and its process come up.
ComeUp ==
  /\ cli = "starting"
  /\ cli' = "attached"
  /\ runner' = "booting"
  /\ slipped' = (script \in {"pid", "done"})
  /\ UNCHANGED <<task, requested, belated, overdue, ffmpeg, script, local>>

\* docker run returns with its container.
CliReturns ==
  /\ cli = "attached"
  /\ runner = "gone"
  /\ cli' = "gone"
  /\ UNCHANGED <<runner, task, requested, belated, overdue, ffmpeg, script,
                 local, slipped>>

-----------------------------------------------------------------------------
(* run_sequence *)

\* load_scenario raises for a file that is missing or wrong; so may loading a
\* model, and any iteration.
Raise ==
  /\ runner \in {"booting", "loading", "looping"}
  /\ runner' = "gone"
  /\ UNCHANGED <<cli, task, requested, belated, overdue, ffmpeg, script,
                 local, slipped>>

InstallFlag ==
  /\ runner = "booting"
  /\ runner' = "choosing"
  /\ UNCHANGED <<cli, task, requested, belated, overdue, ffmpeg, script,
                 local, slipped>>

\* Mutant: the flag is looked at only by the loops of the tasks.
ChooseTask_mutant ==
  /\ runner = "choosing"
  /\ task < Len(Tasks)
  /\ runner' = "chosen"
  /\ UNCHANGED <<cli, task, requested, belated, overdue, ffmpeg, script,
                 local, slipped>>

\* run_sequence looks at the flag and says which task is next.
ChooseTask ==
  /\ runner = "choosing"
  /\ ~requested
  /\ task < Len(Tasks)
  /\ runner' = "chosen"
  /\ UNCHANGED <<cli, task, requested, belated, overdue, ffmpeg, script,
                 local, slipped>>

\* Its clock starts and it begins, whatever became of the flag meanwhile.
BeginTask ==
  /\ runner = "chosen"
  /\ task' = task + 1
  /\ belated' = IF requested THEN belated + 1 ELSE belated
  /\ overdue' = FALSE
  /\ runner' = IF Tasks[task'] = "gpu" THEN "loading" ELSE "looping"
  /\ UNCHANGED <<cli, requested, ffmpeg, script, local, slipped>>

SequenceOver ==
  /\ runner = "choosing"
  /\ requested \/ task = Len(Tasks)
  /\ runner' = "gone"
  /\ UNCHANGED <<cli, task, requested, belated, overdue, ffmpeg, script,
                 local, slipped>>

\* Imports, models and buffers; nobody looks at the flag or the clock.
Loaded ==
  /\ runner = "loading"
  /\ runner' = "looping"
  /\ UNCHANGED <<cli, task, requested, belated, overdue, ffmpeg, script,
                 local, slipped>>

TaskDeadline ==
  /\ runner \in {"loading", "looping", "polling"}
  /\ ~overdue
  /\ overdue' = TRUE
  /\ UNCHANGED <<cli, runner, task, requested, belated, ffmpeg, script, local,
                 slipped>>

\* _running: iterations that go on change nothing here, except for a video.
Running == ~requested /\ ~overdue

TaskOver ==
  /\ runner = "looping"
  /\ ~Running
  /\ runner' = "choosing"
  /\ UNCHANGED <<cli, task, requested, belated, overdue, ffmpeg, script,
                 local, slipped>>

Transcode ==
  /\ runner = "looping"
  /\ Running
  /\ Tasks[task] = "video"
  /\ ffmpeg' = TRUE
  /\ runner' = "polling"
  /\ UNCHANGED <<cli, task, requested, belated, overdue, script, local,
                 slipped>>

FfmpegEnds ==
  /\ ffmpeg
  /\ ffmpeg' = FALSE
  /\ UNCHANGED <<cli, runner, task, requested, belated, overdue, script, local,
                 slipped>>

\* Mutant: a child that runs when the flag is set is left to itself.
PollEnds_mutant ==
  /\ runner = "polling"
  /\ ~ffmpeg \/ requested
  /\ runner' = "looping"
  /\ UNCHANGED <<cli, task, requested, belated, overdue, ffmpeg, script,
                 local, slipped>>

\* The loop of _run_subprocess ends with its child or with the flag.
PollEnds ==
  /\ runner = "polling"
  /\ ~ffmpeg \/ requested
  /\ runner' = IF ffmpeg THEN "terminating" ELSE "looping"
  /\ UNCHANGED <<cli, task, requested, belated, overdue, ffmpeg, script,
                 local, slipped>>

\* It ends within five seconds of its SIGTERM, or is killed.
FfmpegStopped ==
  /\ runner = "terminating"
  /\ runner' = "looping"
  /\ ffmpeg' = FALSE
  /\ UNCHANGED <<cli, task, requested, belated, overdue, script, local,
                 slipped>>

-----------------------------------------------------------------------------
(* The stop script *)

\* What a SIGTERM to the container does.
Terminated == requested \/ runner \notin {"none", "booting", "gone"}

\* docker stop -t 5
DockerStop ==
  /\ script = "idle"
  /\ script' = IF Alive THEN "waiting" ELSE "kill"
  /\ requested' = Terminated
  /\ UNCHANGED <<cli, runner, task, belated, overdue, ffmpeg, local, slipped>>

\* Mutant: docker stop waits for as long as it takes.
DockerStopped_mutant ==
  /\ script = "waiting"
  /\ ~Alive
  /\ script' = "kill"
  /\ runner' = "gone"
  /\ ffmpeg' = FALSE
  /\ UNCHANGED <<cli, task, requested, belated, overdue, local, slipped>>

\* The container has ended, or the five seconds are over and it is killed.
DockerStopped ==
  /\ script = "waiting"
  /\ script' = "kill"
  /\ runner' = "gone"
  /\ ffmpeg' = FALSE
  /\ UNCHANGED <<cli, task, requested, belated, overdue, local, slipped>>

\* Mutant: docker stop is thought to be enough.
DockerKill_mutant ==
  /\ script = "kill"
  /\ script' = IF local THEN "done" ELSE "pid"
  /\ UNCHANGED <<cli, runner, task, requested, belated, overdue, ffmpeg, local,
                 slipped>>

DockerKill ==
  /\ script = "kill"
  /\ script' = IF local THEN "done" ELSE "pid"
  /\ runner' = IF Alive THEN "gone" ELSE runner
  /\ ffmpeg' = (ffmpeg /\ ~Alive)
  /\ UNCHANGED <<cli, task, requested, belated, overdue, local, slipped>>

\* kill pid: docker run has that pid.  It dies if it has no container yet, and
\* passes the signal on if it has one.
KillPid ==
  /\ script = "pid"
  /\ script' = "done"
  /\ cli' = IF cli = "starting" THEN "gone" ELSE cli
  /\ requested' = Terminated
  /\ UNCHANGED <<runner, task, belated, overdue, ffmpeg, local, slipped>>

-----------------------------------------------------------------------------

StopScript == DockerStop \/ DockerStopped \/ DockerKill \/ KillPid

ContainerNext ==
  \/ ComeUp \/ CliReturns
  \/ Raise \/ InstallFlag \/ ChooseTask \/ BeginTask \/ SequenceOver
  \/ Loaded \/ TaskDeadline \/ TaskOver \/ Transcode \/ FfmpegEnds
  \/ PollEnds \/ FfmpegStopped
  \/ StopScript

ContainerSpec == ContainerInit /\ [][ContainerNext]_containerVars

\* A script that has begun goes on.  Nothing is assumed of the runner: its
\* models may load for ever.
ContainerFairness ==
  WF_containerVars(DockerStopped \/ DockerKill \/ KillPid)

ContainerFairSpec == ContainerSpec /\ ContainerFairness

-----------------------------------------------------------------------------
(* Properties *)

(***************************************************************************)
(* docs/gpu_workloads.md: a job is ended by docker stop, then docker kill  *)
(* if needed.  When the script is over the container is gone, whatever its *)
(* runner was doing, deaf to signals while booting or loading; one that    *)
(* came up late is missed only if it did so after docker kill.             *)
(***************************************************************************)
StopEndsContainer == script = "done" /\ ~slipped => ~Alive

(***************************************************************************)
(* What is left of a scenario is not run between a SIGTERM and the end:    *)
(* once the flag is set at most one more task is begun, the one that had   *)
(* been chosen, which loads its model but has no ffmpeg.                   *)
(***************************************************************************)
StopCutsScenario == belated <= 1 /\ (belated = 1 => ~ffmpeg)

(***************************************************************************)
(* No ffmpeg is left over when its task is left, though a SIGTERM comes    *)
(* while it runs, so that nobody else has the GPU; and none is left when   *)
(* the container has gone.  A deadline waits for the ffmpeg there is.      *)
(***************************************************************************)
TaskLeavesNoChild == ffmpeg => runner \in {"polling", "terminating"}

(***************************************************************************)
(* A stop script always returns, with no help from a runner that loads a   *)
(* model for ever or ignores signals.                                      *)
(***************************************************************************)
StopReturns == script # "idle" ~> script = "done"
=============================================================================
