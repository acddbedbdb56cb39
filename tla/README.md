# Burner: a TLA+ verification of its control logic

Burner drives CPU and GPU load on a fleet of machines. A FastAPI backend
(`UI/backend`) talks to a browser over REST and a WebSocket and to the machines
over SSH; on the machines run the burner and the watcher (`warpper`), the choker
daemon (`choker`) and the workload runners (`workloads`, `gpu_workloads`).

This directory holds TLA+ modules that model the parts of the system whose
correctness depends on the order in which things happen, the TLC configurations
that check them on small instances, and TLAPS proofs of the main results for
every instance. `PROJECT.json` maps each definition to the source lines it
stands for and lists the runs, their mutants, the hazards, the findings and the
theorems.

    tlc -workers 2 -config BurnJobs_lifecycle.cfg MCBurnJobs.tla
    tlc -workers 2 -config Backend_parts.cfg MCBackend.tla
    tlapm BurnJobs_proofs.tla

## 1. The system

### 1.1 The UI backend

One process, one asyncio event loop. The code between two `await`s is atomic;
at an `await` anything else may run. All state is in memory.

| Component | State | Operations | What is hard |
| --- | --- | --- | --- |
| Burn controller (`burn_controller.py`) | `job_registry`, one completion task per job | `start_burn`, `stop_burn`, `_auto_complete` | the registry is checked before two rounds of remote calls and filled after them; stops, timers and cancelled stops race for a job; copies and launches fail one by one |
| CPU workload controller (`workload_controller.py`) | its own `job_registry`, `_setup_running` | `start_scenario`, `stop_workloads`, `reserve_setup`, `run_reserved_setup`, scenario generation | as above, but windows are reckoned anew after the copies; a setup flag the other endpoints read must be let go whatever fails |
| GPU workload controller (`gpu_workload_controller.py`) | as above | `start`, `stop`, setup | as above; jobs of one scenario share a remote scenario file that a stop removes |
| Sampling controller (`sampling_controller.py`) | `_running`, status per machine | `reserve_apply`, `run_reserved_apply` | a rebuild resets the tree the other programs run from; several machines fail one by one, and one exit code speaks for all |
| Update controller (`update_controller.py`) | `_running` set | `run_update` as a background task | what was checked when it was queued is old when it runs |
| Endpoints, WebSocket hub and snapshot (`main.py`) | connections, the grace task, `hw_cache` | every REST handler, `connect`, `disconnect`, `broadcast`, `_send_snapshot` | a grace stop is cancelled in the middle; a snapshot is read across awaits |
| SSH manager (`ssh_manager.py`) | connection, status, lock per machine | `connect`, `disconnect`, `run_command` | `disconnect` takes no lock; a broadcast in the middle of either may raise |
| Config, waveform store, machine info, remote shell, file transfer | files | parsing, validation, command lines | nothing concurrent |

The controllers know each other through `has_jobs` and `is_running` only. Each
endpoint asks them, answers 409 on a conflict, and goes on to `await`. Clients
learn everything through broadcasts and the snapshot sent when they connect.

What makes these correct: a job ends once and its end is told once; every
registered job ends; a request is answered; a failed copy starts nothing;
activities that exclude each other do not meet on a machine; a client's picture
agrees with the registries in the end.

### 1.2 The frontend

`state/AppState.tsx` folds the events of the WebSocket and the answers of REST
calls into the state that the components draw. A machine list answer and the
events cross each other, and an event missed while disconnected is never made
up for.

### 1.3 The programs on the machines

| Component | State | Operations | What is hard |
| --- | --- | --- | --- |
| Choker daemon (`choker/daemon.py`, `burn.py`, `monitor.py`) | last intensity, a lookbusy process and its control file | `run`: sample, set intensity; `shutdown` | believed and actual intensity, a lookbusy that dies, what a clean exit leaves behind |
| Choker process management (`choker/runtime.py`, `cli.py`) | the pid file | `start`, `stop`, `status`, `run` | commands and daemons use the file without a lock |
| Burner (`warpper/burner_*.py`, `curve.py`) | backends, prewarmed or not | prewarm, schedule, stop; curve interpolation | a signal raises an exception anywhere, the loops that stop backends included |
| Watcher (`warpper/watcher_*.py`) | last energy counter, next sample time | sample, draw, write | the counter wraps; a slow sample against the schedule |
| Workload runners (`workloads/runner.py`, `gpu_workloads/runner.py`) | worker processes, a stop flag | run, stop | workers inherit signal handlers; children of killed workers |

## 2. The modules

| Module | Models | Checked by | Proofs |
| --- | --- | --- | --- |
| `JobLedger` | abstract: the life of a job id in any of the three controllers | `burn_liveness` (as `LedgerSpec`), `backend_parts` (as `LedgersKept`) | `JobLedger_proofs` |
| `BurnJobs` | `burn_controller.py`, with the grace stop of `main.py` and the machine status of `ssh_manager.py` | `burn_*` with `MCBurnJobs` | `BurnJobs_proofs` |
| `Interlocks` | the checks between the seven kinds of activity, from `main.py` and the five controllers | `interlocks*` with `MCInterlocks` | `Interlocks_proofs` |
| `WorkloadJobs` | `workload_controller.py`: a scenario from its request to the end of its jobs | `backend_parts` with `MCBackend` | `Workloads_proofs` |
| `GpuJobs` | `gpu_workload_controller.py`: jobs, containers, scenario files, stop scripts | `backend_parts` | `Workloads_proofs` |
| `FleetTask` | the background tasks that prepare machines: the rebuild of `sampling_controller.py` and the two setups | `backend_parts` | `Backend_proofs` |
| `SshManager` | `ssh_manager.py`: one machine's connection | `backend_parts` | `Backend_proofs` |
| `ClientView` | the hub and the snapshot of `main.py`, `App.tsx` and the reducer of `AppState.tsx` | `backend_parts` | `Backend_proofs` |
| `ChokerPidFile` | `choker/runtime.py`, `choker/cli.py` | through `Choker` | `Choker_proofs` |
| `ChokerLoop` | `choker/daemon.py`, `choker/burn.py`, `LookbusyCpuBackend` | through `Choker` | `Choker_proofs` |
| `Choker` | `choker run` processes: both of the above composed | `choker*` | `Choker_proofs` |
| `WorkloadRunner` | `workloads/runner.py` and the stop command of `workload_controller.py` | `machine_programs` with `MCMachine` | `WorkloadRunner_proofs` |
| `BurnerRun` | `warpper/burner_cli.py`, `burner_core.py`, `burner_backends.py` | `machine_programs` | `Machine_proofs` |
| `LoadCurve` | `warpper/curve.py`, pure operators used by `BurnerRun` | `machine_programs` | `Machine_proofs` |
| `GpuContainer` | `gpu_workloads/runner.py`, the stop script and `gpu_workloads/cli.py` | `machine_programs` | `Machine_proofs` |
| `PowerWatch` | `warpper/watcher_core.py`, `watcher_cli.py` | `machine_programs` | `Machine_proofs` |

`ChokerProcesses` declares what the two halves of `Choker` share. `MCBackend`
and `MCMachine` put the parts of one side into one run: a behaviour is about
one of them, the others rest in their initial state (`BackendHasParts` and
`MachineHasPrograms` prove that each part is what its own module says). They share no state that
the modules have: what the controllers ask each other is in `Interlocks`, and
the processes on a machine do not know of each other.

### 2.1 BurnJobs and JobLedger

One step is the code between two awaits. `req` is how far the coroutine of each
`POST /api/burn/start` is, `phase` how far the copy and launch coroutines of
each job are, `registry` is `job_registry`, `timer` the `_auto_complete` tasks,
`stop` the `_stop_single` tasks of a user's stop and of the grace stop, `remote`
the burner on the machine. `notices` counts `burn_stopped` events.

- `Admit` is `start_burn` down to its first await: validation, planning and the
  overlap check. A refused request changes nothing and is no step.
- `CopyDone`/`CopyFails`, `BeginLaunch`, `Launch`, `Registered`/`LaunchFails`,
  `Announced`, `Answer` follow one gather of copies, the launches, the pid
  coming back (registration), and `burn_started` having gone out (the timer is
  created only then).
- `Expire`, `ExpireTold` are `_auto_complete`; `UserStop`, `GraceStop`, `Pop`,
  `Kill`/`KillFails`, `StopTold` are `stop_burn` and `_stop_single`;
  `GraceCancelled` is a client that connects during a grace stop.
- `AnnounceRaises`, `ExpireRaises` and `StopRaises` are broadcasts that raise:
  `broadcast` catches `RuntimeError` only. A `burn_started` that raises answers
  the request with an error and leaves the job registered without a timer
  (`"untimed"`); a `burn_stopped` that raises is not made up for (`lost`).
  `SendErrors` says which of them may: the start, the timer, a user's stop.
- `Unlink`, `Link`, `RemoteExit` and `Tick` are the machines and the clock.

A command that fails may have taken effect or not. Waveforms, command lines and pids are data that
no property needs. Time is in units of five seconds, the grace between two
windows.

`JobLedger` says what a controller promises of an id: registered once, retired
once, announced at most once, possibly lost, never back. It does not promise
that a registered job is retired, since a `burn_started` that raises leaves one
for good; one that was retired is announced or lost. `BurnJobs` maps to it
with `StageOf`; TLC checks the refinement with fairness, TLAPS the safety part.

### 2.2 Interlocks

An activity is one accepted request: a burn, CPU or GPU workload, update,
rebuild or one of the two setups. Its `pending` hosts are those its coroutines
have not reached; its `listed` hosts are those on which `has_jobs` or a flag
shows it. The guard of an admission is the conjunction of the checks of the
endpoint and of the controller, evaluated in one step since no await lies
between them. `raced` is a history variable: who was pending where when somebody
else was admitted.

Left out: connection status (it only refuses more) and failures of single
requests (`GiveUp` stands for all of them). Some pairs of kinds are checked in
one direction only, such as burn and update, or CPU setup and burn: no property
is claimed for them.

### 2.3 Choker

`ChokerPidFile` has one variable for the path and one text per inode: opening a
file for writing truncates it, closing it delivers the pid, and a file that was
unlinked keeps its writer. A command's status is one observation (`exists`, the
read and the look at the process are not separated); what it does about it comes
in later steps. Pids are not reused.

`ChokerLoop` has the beliefs of the daemon (`last`) and of the controller
(`intensity`) beside the control file (`control`) and the process (`lookbusy`).
`Yield`, `YieldRaises`, `StayIdle`, `Keep`, `Adjust`, `StartFails`,
`AdjustRaises` and `StartedUntold` are the ways through `_apply_intensity`.
Every setting asks whether lookbusy's binary exists (`built`), with a lookbusy
that runs as well: without it a yield is swallowed and lookbusy burns on
(`YieldRaises`), a setting fails and so may the `stop` that is to clean up
(`AdjustRaises`), and a lookbusy just started may not be told its intensity
(`StartedUntold`). `BinaryMoves` is a build that takes the binary away and puts
it back. Loads and intensities are levels; two
intensities less than 1 % apart are one level.

`Choker` composes them: the loop runs while the process is `up`; `Finish` is
`shutdown` in the `finally` clause followed by the release of the pid file;
`Crash` leaves lookbusy, which has a session of its own, burning. The hidden
`--max-iterations` is left out, and the monitor's accounting is represented by
its result, the external load.

`Serial` says that a command is given only when the previous one has returned
and the daemon it started is past its acquire. With `Serial = FALSE` anything
may overlap.

### 2.4 WorkloadJobs and GpuJobs

Both follow the conventions of `BurnJobs`; what is told here is what differs.
Broadcasts raise here too (`AnnounceWorkloadRaises`, `ExpireWorkloadRaises`,
`AnnounceGpuRaises`, `ExpireGpuRaises`; of a stop, in `CancelWorkloads` and
`CancelGpu`).

A CPU workload request is for a scenario, a list of jobs on any machines.
`StartScenario` compares each of them with `job_registry` (`KeepsClear`, not
with one another), `SyncDone` and `SyncFails` are the copies of the sources,
and `BeginStarts` is the second `gather`: it reckons all start times from the
clock it finds (`wlStart`). `RegisterWorkload` to `AnswerScenario` are
`_start_single` and the answer, the rest are the timer and the stops, as in
`BurnJobs`. What the stop command does on the machine is in `WorkloadRunner`.
`wlPlan` remembers the start that was checked and the jobs it was checked
against. The module maps to `JobLedger` with `WlStage`.

`GpuJobs` maps to `JobLedger` with `GpuStage`. It has no clock: its check, `has_jobs`, is about now, and a timer may
wake up at any time. It has what is on the machine instead: for each job the
container (`box`: `docker run` begun, up, gone) and the stop script, and for
each scenario what is at its path. A scenario is copied under the name of its
local file (`CopiedTo`), but mounted and removed under the name inside the file
(`Mounted`); nothing ties the two together, and `NamedIn` is what each file has.
Where they differ (`Misnamed`) a job's copy is not where its container looks.
`BoxUp` mounts the path, and docker makes a directory of one that is missing; `rm -f` (`ScriptRemoves`) removes the file
and not a directory. `raced` has the jobs that were being started while a stop
script was at the path they mount, `together` the pairs of requests that
were under way at the same time: they are what the properties except. `CancelGpu` is
a grace stop that is cut short, or one stop whose broadcast raises: the jobs were
popped and their ends are never told (`gpuLost`).

### 2.5 FleetTask

One module for three tasks of the same shape (`fleetKind`): the machines of
`fleetTargets` go through their steps side by side (`StepsOf`), and each step
or ending may fail or have its broadcast raise, in the `except` clause too
(`ExceptRaises`). `Gathered` is the end of the gather with its `finally`: the
flag is let go, then `..._complete` is broadcast (`CompleteTold`,
`CompleteRaises`), which the wrapper in `main.py` makes up for (`WrapTold`). The
GPU setup has one machine and no gather: when that machine's coroutine raises,
the exit code is still 0 in the `finally`. A new task may be reserved while the
one before is still announcing its end.

### 2.6 SshManager and ClientView

`SshManager` has one machine. `connect` holds its lock from `ConnectBegins` to
`ConnectEnds`; `disconnect` has none and awaits the end of the connection it
popped between `DisconnectBegins` and `DisconnectCloses`. A broadcast that
raises ends either early: `ConnectEnds` may come instead of the handshake. `Dies`
is a connection that is lost: nobody tells the manager.

`ClientView` has one registry, one browser, and the events between them.
`viewSlots` is the dict with the entries that were removed, because the
snapshot's iterator counts them: a job that is removed and one that is added
while it is suspended leave the size as it was, and the iteration goes on over
a table that may have been made anew. A browser that lost its connection keeps
what it shows. `load()` asks for the machines and for the burn jobs
(`MachinesSent`, `StatusSent`), which are answered in any order, and uses both
(`Loaded`) or none (`LoadFails`): `setMachines` puts the first job of each
machine (`FirstJobs`) under the machine's id (`viewPinned`), where no
`burn_stopped` with a job id finds it, and the jobs go under their own ids
(`viewShown`). `AnswerSent` and `Answered` are the answers to `POST
/api/burn/start`. All answers cross the events. `viewMissed` and `viewUnseen`
say what was lost and why. The two workload registries are shown by job ids
only, as `viewShown` is.

### 2.7 The programs on the machines

`WorkloadRunner` is one CPU workload job: the runner, its workers, their tools,
and a stop command. The workers are forked after the runner installed its
SIGTERM handler and inherit it. The Event they share is modelled with its lock
(`Acquire`, `Release`), because the handler sets the Event: a process that is
signalled inside the lock waits for itself (`GetStuck`) and keeps the lock from
all others. `Terminate` and `Kill` are the timeouts of the joins, `SignalGroup`,
`SeesExit` and `KillGroup` the stop command. Time is kept by one rule: a timeout
of seconds runs out only when no process has a quick step left (`Settled`). A
stop that comes while there are quick steps (`early`) is over before joins that
follow it. Left out: SIGINT, which nobody sends to a job in a session of its
own, and what a worker does before its loop.

`BurnerRun` is `main` with its loops over the backends; `at` is the place of
control and `next` the backend a loop is at. A signal raises `KeyboardInterrupt`
anywhere (`Interrupt`): between the fork and the assignment of a `Popen`
(`Spawn`, `Store`), in `_prepare_backends`, which catches `Exception` only, and
in the clean-up loops. `Unwind` is where the `finally` clauses take it. The
intensity of a tick is `ValueAtElapsed` of `LoadCurve`, whose curves are
accepted rows with clamped values; division is `\div`, so values are rounded
down to one of `Full` levels.

`GpuContainer` is a container with the runner in it. The runner is process 1, so
a SIGTERM before `InstallFlag` does nothing. `ChooseTask` is `run_sequence`
looking at the flag; `BeginTask` comes after the flushed print, whatever became
of the flag meanwhile, and `belated` counts the tasks begun with it set. A scenario's tasks are `"gpu"` ones,
which load a model with nobody looking at the flag, and `"video"` ones, which
run ffmpeg as a child. The stop script is `docker stop -t 5`, `docker kill` and,
from the controller, `kill` of the `docker run` process, which may be about to
bring the container up.

`PowerWatch` is the watcher: counters that wrap at `Turn`, zones that can or
cannot be read at each sample, the rows, the TUI, Ctrl-C and SIGTERM. Powers
are represented by the energies they are quotients of.

## 3. The runs

| Run | Bounds | What it shows |
| --- | --- | --- |
| `burn_lifecycle` (pass) | 1 machine, 2 jobs, 2 requests, user and grace stops; immediate and delayed burns of one duration; broadcasts of timers and of user stops may raise; 2.3M states | ends are announced once, a failed copy launches nothing. Two jobs are one to be stopped and one racing with it, in one request or two; a third would repeat the second's part, since jobs interact only through their request and the registry |
| `burn_admission` (pass) | 1 machine, 2 jobs, 2 requests, all sync modes, durations 1-2, delays 0-1, clock to 4; 0.5M states | the window check: all orders of two windows, overlapping, touching within the grace, apart |
| `burn_liveness` (pass) | 1 machine, 2 jobs, 1 request, the grace stop; broadcasts of starts and timers may raise; 36 654 states | jobs end but for those left without a timer, requests are answered, the ledger is implemented with its fairness |
| `burn_overlap` (violation) | 1 machine, 2 jobs, 2 requests | finding 1 |
| `burn_lost` (violation) | 1 machine, 2 jobs, 2 requests | finding 2 |
| `interlocks` (pass) | 3 requests, 2 machines; 0.1M states | the interlock, a third request being enough for one to be in flight while two others meet |
| `interlocks_rebuild` (violation) | 2 requests, 1 machine | finding 3 |
| `choker` (pass) | 2 daemons, one per strategy, 2 commands, 3 load levels, a lookbusy that may die, a binary that comes and goes; 0.33M states | pid file and lookbusy are what the daemons believe; they follow the load while the binary is there |
| `choker_status` (violation) | 2 daemons, 1 command, `Serial = FALSE` | finding 4 |
| `choker_resume` (violation) | 1 daemon | finding 5 |
| `machine_programs` (pass) | each program for itself, 58 598 states. Workload: 2 workers, 1 stop. Burner: 2 backends, 3 ticks of 3 units, 2 signals, 3 curves with a period of 8 units and 4 levels, any backend without a binary. Container: a GPU and a video task, both stop scripts. Watcher: 2 counters that wrap at 3, 3 samples | one worker to be stuck with the lock and one to be waiting for it, or in its tool; one signal to end the schedule and one to cut off the clean-up; a tick before, between and after the points of a curve; a task to be left and one to be next; a reading that fails between two good ones |
| `backend_parts` (pass) | each part for itself, 649 589 states. CPU workloads: 2 requests, 2 machines, 2 jobs, requests until time 1, any broadcast may raise. GPU: 2 jobs of one machine, of one scenario file, where they race each other, or of two, one with the name of the other inside, where the second comes when the first is over (`GpuInOrder`); broadcasts may raise for the first. Tasks: 2 machines, one with a GPU, 2 tasks in all. Page: 3 jobs, 2 connections; opened on two jobs of one machine with a third to come and `load()` over; or on one with another to come and one over, and `load()` under way, or over and an answer to a start. Connection: 3 connects, 2 disconnects | a job behind another and a scenario on two machines; a stop that races a start; a task that is reserved while the one before announces its end; a file whose name inside is that of another; a job that is added, one that is removed and one that stays while a snapshot is sent; a machine's job that ends between the answers of `load()`; a connect that crosses a disconnect and one that follows |

The bounds that are part of the modules are `LastAdmission` and `LastBase` (no
request is admitted, no burn is scheduled after them) and `LastRequest` of
`WorkloadJobs`, the guards of `Tick` and `WlTick` (the clock stops when no timer
needs it), `SendErrors` and `GpuRaises` (which broadcasts may raise), `MaxSignals`,
`MaxSamples` and `MaxUse`, `MaxRounds`, `MaxWlJobs`, `MaxConnections` and
`MaxAnswers`, which the table gives. Job ids are used once, as uuid4 suffixes are. Deadlock is
checked in the burn runs, where a link can always go down or up again; the
other runs switch the check off because a system with all its requests, all
its daemons, or its program, spent stops.

Symmetry is used in the safety runs only.

### Properties

Burns, interlocks and choker:

- `StoppedAtMostOnce`: a completion timer, two kinds of stop, a late reply and a
  cancelled grace stop never announce a job twice, nor one still registered.
- `CopyFailureLaunchesNothing`: a failed copy keeps all burners of its request
  from starting, even those whose copies are done.
- `TimedKeepsClear`: what the overlap check does guarantee. It covers delayed
  and scheduled burns and jobs that were registered when they were admitted;
  immediate burns get the time of their reply and escape it.
- `RivalsMeetOnlyByRacing`, `FlagsAreExclusive`: the interlock.
- `StatusFindsDaemon`, `CleanExitLeavesNothing`, `BelievedIntensityIsSet`: the
  pid file names the running daemon; an exit leaves no lookbusy and no pid; the
  iteration that leaves the control file alone may do so.
- `EveryJobEnds`: a registered job is told or lost, unless its `burn_started`
  raised, which leaves it without a timer; a stop of it ends it all the same.
- `EveryRequestAnswered`, `YieldsToLoad`, `ResumesUnlessDied`: a request is
  answered; a daemon comes down to nothing while the machine stays busy, and
  fills it while it stays idle, whatever failed before, if lookbusy's binary
  stays.

The rest of the backend (`backend_parts`):

- `KeepsBehind`: a CPU workload job that was let in behind a registered one
  starts behind it however long its sources took. The other order is not kept:
  a window in front of a delayed job may move into it.
- `SyncFailureStartsNothing`: a scenario starts nowhere unless every machine has
  the sources.
- `LedgersKept`: both workload controllers implement `JobLedger`.
- `OneGpuJobEach`: a machine has two GPU jobs only if both requests were under
  way together.
- `ScenarioInPlace`, `BoxesAccounted`: why a container can be without its
  scenario, and why one can run that no registered job has.
- `AppliedMeansBuilt`, `QuietWhenClear`, `FleetEnds`: exit code 0 means that
  every machine went through every step; a flag that is down means that nothing
  works any more; and it goes down whatever fails.
- `ConnectionsAccounted`: status, stored connection and open connections agree.
- `ViewIsRegistry`: under the job ids a page at rest shows the registry, with
  the exceptions that a lost or overtaken event makes; besides, it shows one job
  of a machine, the one `load()` found, for ever.

The programs on the machines (`machine_programs`):

- `StopLeavesNothing`, `ExitCleans`, `RunnerEnds`: what is left of a CPU
  workload job after a stop, and after a natural end, deadlocked workers and
  tools started after the SIGTERM included; and that it ends.
- `ExitStopsBackends`: a burner that is gone has told its processes to end,
  unless a signal cut off a loop that nobody takes up again.
- `LevelWithinCurve`: interpolation, its wrap included, stays within the curve.
- `StopEndsContainer`, `StopCutsScenario`, `TaskLeavesNoChild`, `StopReturns`: a
  stop script ends the container and returns, at most one task begins once the
  flag is set and it starts no ffmpeg, and no ffmpeg outlives its task.
- `EnergyIsTrue`, `TerminalRestored`: a value the watcher writes is energy that
  was used, whatever wrapped or could not be read; the terminal is given back.

### Fairness

- Burn controller: the event loop runs every ready task. A remote call returns
  or raises, because SSH keepalives give up (`keepalive_interval=30`,
  `keepalive_count_max=3`); whether it succeeds is not assumed. So does a send
  to a client. A sleep ends.
  Nothing is assumed of users, clients, links and burners.
- Tasks (`FleetFairness`): a machine's step ends, and the task goes on after the
  last one. The code has no timeout for a build: it ends or its connection does,
  which is the network's promise and not the code's.
- Choker: a daemon's thread keeps running: its acquire, its iterations, its
  shutdown and its release. Nothing is assumed of commands, of the load of
  others, of lookbusy and of kills.
- Workload runner (`Fairness`): processes run and a stop command, once given,
  goes on. Strong fairness of taking the lock and of the handler: a process holds
  the lock for microseconds between iterations that do not need it, and waiters
  are served. Nothing is assumed of tools, nor that anybody stops the job.
- Container (`ContainerFairness`): a stop script that has begun goes on, since
  `docker stop` has a time limit. Nothing is assumed of the runner.

## 4. What is proved

All theorems hold for every value of the constants that satisfies the named
assumptions (`JobsAssumption`, `GpuAssumption`, `PidFileAssumption`, `LoopAssumption`,
`WorkloadAssumption`, `FleetAssumption`, `SshAssumption`, `ProcsAssumption`,
`TasksAssumption`, `CurveAssumption`, `BurnerAssumption`, `ViewAssumption`,
`WatchAssumption`), which TLC evaluates in the runs. They say that constants
which count are numbers, that a turn, a period and a scale are not 0, that the
sets of zones and of a page's jobs are finite, and that the names of nobody are
nobody's. Every invariant that a passing run checks is proved. Most of the
inductive invariants behind them were checked by TLC before they were proved.

| Theorems | Argument |
| --- | --- |
| `ToldOnceHolds`, `NoReturnHolds` | inductive as they stand, with the ledger's types |
| `TypeCorrect`, `InterlocksTypeCorrect`, `ChokerTypeCorrect`, `GpuTypeCorrect`, `RunnerTypeCorrect`, `BackendTypesHold`, `MachineTypesHold` | one step per action. Two need more: that a burner's `tick` stays in its schedule is `TicksInv` (a tick comes only before the end of it), and that a watcher takes no more than `MaxSamples` samples is `SamplesLeft` |
| `BackendHasParts`, `MachineHasPrograms` | initial states and steps of the composed specification are initial states and steps or stutters of each part, its fairness included for the programs |
| `StoppedAtMostOnceHolds` | `ClaimInv`: for each job, whoever popped it (the timer, one stop, or a cancelled one) is alone, and is the only one who may still announce it; a broadcast that raises ends its claim as a cancellation does. `StoppedAtMostOnce` is not inductive: nothing in it says that two claimants cannot both be about to announce |
| `CopyFailureLaunchesNothingHolds` | `CopyInv`: while one job of a request is being copied, or once its copy has failed, none of the request's jobs is past its copy, and a job not past its copy has no burner and is not registered |
| `TimedKeepsClearHolds` | `AdmissionInv`: the planned window of a timed job is clear of all jobs registered when it was planned, whose start no longer changes, and a timed job is registered with the planned start |
| `ImplementsLedger` | every step of `BurnJobs` maps to one of the ledger or a stutter, under `ClaimInv` |
| `RivalsMeetOnlyByRacingHolds` | `MeetInv`: two rivals that share a host, whether listed on it or still on their way to it, have raced. The property speaks of listed activities only and is not inductive: the pending ones are what a later check overlooks |
| `FlagsAreExclusiveHolds` | `FlagInv`: besides, an activity with a flag is never pending: it is listed from its admission on |
| `BelievedIntensityHolds`, `CleanExitHolds` | `LookbusyInv`: lookbusy exists only for a daemon in its loop, or outlives a killed one, and burns as the daemon believes; `GoneInv`: the file never holds the pid of a daemon that released it |
| `SerialStatusFindsDaemon` | assumes `Serial`. `OneAtATime`: only one command or acquiring daemon is under way; `HeldInv`: the file names whoever is between its acquire and its release, and who is about to remove or replace the file has seen that there is nobody, or has waited for the only one to go |
| `KeepsBehindHolds`, `SyncFailureStartsNothingHolds` | `IdsInv`: ids are handed out in order, each with a plan. `RequestInv`: a job leaves its waiting with all sources in place, together with its request. `WindowInv`: a window only moves later, and the ones it was compared with do not move. The property speaks of registered jobs; it has to hold from the check on |
| `WorkloadsImplementLedger` | `OwnersInv`: whoever took a job out of the registry is alone with it and is to tell its end; then one step of `WorkloadJobs` is one of the ledger or a stutter |
| `GpuImplementsLedger`, `BackendKeepsLedgers` | `GpuOwnersInv`: the same for GPU jobs, whose timers may wake up at any time: a timer that took the job is to announce it, and no stop is |
| `BurnsEndOnce`, `WorkloadsEndOnce`, `GpuJobsEndOnce` | what `JobLedger_proofs` says of the ledger (`ToldOnce`, `NoReturn`), carried over to each controller by its refinement |
| `OneGpuJobEachHolds` | `ClaimInv` of `Workloads_proofs`: as the property, but of the requests under way, too |
| `BoxesAccountedHolds` | `BoxInv`: how the lives of a container, its job and its script go together |
| `ScenarioInPlaceHolds` | `FileInv`, with a job called unlucky if a script raced it or its file has another name inside: a directory is there since an unlucky container with that mount came up without its scenario (`DirsAreBlind`), a copied job that is not unlucky finds something (`CopyIsThere`), and a script that runs has raced every job with its mount that is still to look (`ScriptsRace`) |
| `ConnectionsAccountedHolds` | `LockInv`: one connect at a time is past the lock, and only where the machine does not count as connected. `StoredInv`: what is open is stored or being waited for |
| `QuietWhenClearHolds`, `AppliedMeansBuiltHolds` | `MachinesInv`: only the targets of the latest task move, only while the flag is up, and one that has finished has no steps left. `CodesInv`: a task about to announce 0 may do so |
| `ViewIsRegistryHolds` | `ShownInv`: a job is shown only from its start on, and whatever shows or is about to show one that is over (the page, an answer, a start on its way) has its `burn_stopped` on its way too, or that was lost or handled too early. `SeenInv`: a registered job is shown, or is before the snapshot's iterator, or its start is on the way, or it was passed over. The property is about pages at rest: the invariants say what is still to come. `PinInv`: what is under machine ids, or in an answer that will be, came from one listing, which has one job for a machine (`FirstOnePerMachine`) |
| `ExitCleansHolds` | `ExitInv`: there are workers only between the forks and the joins (`WorkersInRun`); a tool without its worker comes of a kill (`OrphansAreKnown`) |
| `StopLeavesNothingHolds` | `StopInv`: a stop that waits found the group with nothing quick left to do, so it is and stays `Quieted`: no tool begins any more, since the event is set, or all who are there wait for a lock that is lost (`LostLock`: for good), or the workers see the signal first. `SignalQuiets` and `StaysQuiet` are the two halves |
| `StopEndsContainerHolds`, `TaskLeavesNoChildHolds` | `ContainerInv`: a container is not there before `docker run` brought it up, a script that waits has found it, and one past `docker kill` has left none that did not slip through |
| `StopCutsScenarioHolds` | `ChosenInv`: a task that was chosen is there. `LateInv`: no task has begun late while the flag is down or while one is chosen, so at most one ever does; once one has, no ffmpeg is started, since a video task looks at the flag before each |
| `ExitStopsBackendsHolds` | `BurnerInv`: a process that is not stored was forked by the step before (`ForkedIsNext`), a loop that stops leaves none running behind it (`LoopStops`), and what runs while `main` is armed was prepared (`PreparedIsKnown`). It needs no fact about the curve |
| `ValueIsWithin` | `FromCsvIsCurve`: what `from_csv` accepts is ascending and clamped. `LeftOfIsLeft`, `RightOfIsRight`: the neighbours exist, lie on the curve or one period beside it, and enclose the time (the last point not right of it is the greatest number in a bounded set: `GreatestNumber`, by a least counterexample). `ShareIsBounded`: what `\div` makes of a share of a difference is within it |
| `LevelWithinCurveHolds` | `LevelInv`: the curve is an accepted one, and every control file holds a value of it |
| `EnergyIsTrueHolds` | `EnergyInv`: the counters of the zones that were read last have moved on from that reading by what was used since, but for whole turns. `Total` is a fold over a set: `TotalStep` gives its recursion by comparing all partial sums (`SumsExist`, `SumsAgree`, by a least counterexample), `TotalMoves` how it follows one counter, `WrapIsTurns` what is left of the turns |
| `TerminalRestoredHolds` | inductive with the types |

Only model-checked: liveness under fairness (`EveryJobEnds`,
`EveryRequestAnswered`, `YieldsToLoad`, `ResumesUnlessDied`, `RunnerEnds`,
`StopReturns`, `FleetEnds`), and the refinement of the ledger's fairness by
`BurnJobs` (`LedgerSpec`, whose safety part is `ImplementsLedger`).

The theorems about data do not use the library's induction theorems: they go
by a least counterexample on the natural numbers, or by the least set, in steps
a first-order prover can follow.

The five violations are single behaviours.

## 5. Findings

1. `burn_overlap`: two burns on one machine overlap when the second request is
   admitted before the first one's job is registered
   (`burn_controller.py:141`, `UI/REQUIREMENTS.md:433`).
2. `burn_lost`: a client that reconnects during a grace stop cancels it after a
   job was popped: nobody is told, and its burner may run on (`main.py:123`,
   `UI/REQUIREMENTS.md:431`).
3. `interlocks_rebuild`: a burn or an update in flight goes to work on a machine
   being rebuilt (`main.py:316`, `UI/README.md:65`).
4. `choker_status`: `choker start` reads the pid file between its truncation and
   the write of the pid, takes it for invalid and removes it under the running
   daemon (`cli.py:61`, `docs/choker.md:29`).
5. `choker_resume`: once lookbusy has died the daemon never burns again
   (`burner_backends.py:94`, `docs/choker.md:85`).

The passing properties have exceptions where the code does less than its
documents say. They are part of the properties, which tell exactly when they
apply, and have no run of their own:

- A signal during `_prepare_backends`, between a fork and the assignment of its
  `Popen`, or in the last clean-up loop leaves backends burning (`cut` in
  `ExitStopsBackends`; `docs/requirements.md:119`).
- SIGTERM ends the watcher as it is (`cutOff` in `TerminalRestored`;
  `docs/requirements.md:220`).
- A burn or workload whose `..._started` broadcast raises stays registered until
  somebody stops it (`"untimed"` in `EveryJobEnds`; `burn_controller.py:274-289`).
- A yield fails while lookbusy's binary is away, and the daemon burns on under
  load (`built` in `YieldsToLoad`; `docs/choker.md:83`).
- A SIGTERM between the look at the stop flag and the task begins one more task,
  which loads its model before it looks again (`belated` in `StopCutsScenario`).
- Two GPU starts in flight both pass `has_jobs` (`together` in `OneGpuJobEach`).
- A stop script removes the scenario file under a job of the same scenario that
  is being started; its container gets a directory, and so does every later one
  (`raced` in `ScenarioInPlace`). So does a scenario whose name inside is not its
  file's, or it gets the other scenario of that name (`Misnamed`).
- A GPU setup whose machine raises announces 0, then 1 (`fleetRaised` in
  `AppliedMeansBuilt`).
- A connect that crosses a disconnect, after a second disconnect made way for
  it, is stored and then told to be disconnected (`sshCrossed` in
  `ConnectionsAccounted`). A connection that died counts as connected.
- A page shows a job that is over, for ever, when its `burn_stopped` was lost or
  overtaken (`viewMissed` in `ViewIsRegistry`), and, however well the events
  come, the job that a machine had when the page was loaded, which it has under
  the machine's id (`viewPinned`); while that job is registered the page has it
  twice.
- A machine without an entry in `hw_cache` does not get its GPU binary rebuilt
  although the sampling time counts as applied (`fleetGpu` is what the cache
  says, not what the machine has; `UI/README.md:65`).

## 6. Not modelled

- Config, waveform store, machine info, remote shell and file transfer: files,
  parsing and command lines, with no state of their own that others race for.
- The generator of random scenarios and the scenario files of the two workload
  controllers: they make data that the requests of the models choose freely.
- The update controller's output, and the monitor's accounting of a process tree
  over `/proc`: the models take the result, a failed build or an external load.
- The frontend beyond the jobs a page shows: settings, logs, progress and forms.
- What the workloads compute, the first seconds of a worker, the GPU kernels,
  the mock backend, build scripts.
- A crash of the backend: nothing is persisted, so there is no recovery to state
  a property of. What it started runs on.
- A remote call that never returns, which the fairness of the controllers
  excludes, and a control file of lookbusy that cannot be written.

What could be added: the controllers composed with `Interlocks` through
`has_jobs`; the accounting of the monitor as operators with a reference
definition.
