----------------------------- MODULE BurnerRun ------------------------------
(***************************************************************************)
(* The burner: burner_cli.main, run_schedule and the two process backends, *)
(* lookbusy on the CPU and gpu_burn on the GPU.  SIGINT and SIGTERM raise  *)
(* KeyboardInterrupt wherever the program is, the loops that start and     *)
(* stop the backends and their finally clauses included.  The backends are *)
(* in sessions of their own: what the burner does not stop goes on.        *)
(***************************************************************************)
EXTENDS LoadCurve, FiniteSets

CONSTANTS
  NBackends,    \* --cpu, --gpu or both; they are started in this order
  Ticks,        \* how often the intensity is set: every Step units of time
  Step,
  MaxSignals,   \* bound: signals a burner gets
  Curves        \* curve files

ASSUME BurnerAssumption ==
  /\ NBackends \in Nat \ {0}
  /\ {Ticks, Step, MaxSignals} \subseteq Nat
  /\ \A rows \in Curves : Accepted(rows)

VARIABLES
  at,         \* where main is
  next,       \* the backend its loop is at
  tick,       \* ticks that are over
  prepared,   \* main's local variable: did _prepare_backends return?
  slot,       \* backends whose _process is set
  proc,       \* what has become of each backend's process
  level,      \* what the control file of each backend says
  curve,      \* the curve
  missing,    \* backends without a binary
  signals,    \* signals so far
  cut         \* did a signal cut off a loop that nobody takes up again?

burnerVars == <<at, next, tick, prepared, slot, proc, level, curve, missing,
                signals, cut>>

Backends == 1..NBackends

StopLoops == {"stopping", "undoing", "final"}
Places == {"waiting", "preparing", "armed", "sleeping", "setting", "gone"}
            \cup StopLoops

BurnerTypeOK ==
  /\ at \in Places
  /\ next \in 1..(NBackends + 1)
  /\ tick \in 0..Ticks
  /\ prepared \in BOOLEAN
  /\ slot \subseteq Backends
  /\ proc \in [Backends -> {"none", "running", "told", "dead"}]
  /\ level \in [Backends -> Int]
  /\ missing \subseteq Backends
  /\ signals \in 0..MaxSignals
  /\ cut \in BOOLEAN

\* A burn with a start time is prepared before it; others start at once.
BurnerInit ==
  /\ at \in {"waiting", "sleeping"}
  /\ next = 1
  /\ tick = 0
  /\ prepared = FALSE
  /\ slot = {}
  /\ proc = [b \in Backends |-> "none"]
  /\ level = [b \in Backends |-> 0]
  /\ curve \in {FromCsv(rows) : rows \in Curves}
  /\ missing \in SUBSET Backends
  /\ signals = 0
  /\ cut = FALSE

-----------------------------------------------------------------------------
(* Starting and setting *)

Intensity == ValueAtElapsed(curve, tick * Step)

Enter(place) == at' = place /\ next' = 1

\* _ensure_started raises for a binary that is missing and for a process that
\* has ended.
CannotStart(b) == b \in missing \/ (b \in slot /\ proc[b] = "dead")

\* Popen has forked, and its value has not been assigned.
Unstored == {b \in Backends \ slot : proc[b] = "running"}

Spawn ==
  /\ at \in {"preparing", "setting"}
  /\ next \in Backends \ slot
  /\ ~CannotStart(next)
  /\ proc[next] = "none"
  /\ proc' = [proc EXCEPT ![next] = "running"]
  /\ level' = [level EXCEPT ![next] = IF at = "setting" THEN Intensity ELSE 0]
  /\ UNCHANGED <<at, next, tick, prepared, slot, curve, missing, signals, cut>>

Store ==
  /\ at \in {"preparing", "setting"}
  /\ next \in Backends \ slot
  /\ proc[next] # "none"
  /\ slot' = slot \cup {next}
  /\ next' = next + 1
  /\ UNCHANGED <<at, tick, prepared, proc, level, curve, missing, signals,
                 cut>>

\* set_intensity of a backend that runs
Set ==
  /\ at = "setting"
  /\ next \in slot
  /\ ~CannotStart(next)
  /\ level' = [level EXCEPT ![next] = Intensity]
  /\ next' = next + 1
  /\ UNCHANGED <<at, tick, prepared, slot, proc, curve, missing, signals, cut>>

StartFails ==
  /\ at \in {"preparing", "setting"}
  /\ next \in Backends
  /\ CannotStart(next)
  /\ Enter(IF at = "preparing" THEN "undoing" ELSE "stopping")
  /\ UNCHANGED <<tick, prepared, slot, proc, level, curve, missing, signals,
                 cut>>

-----------------------------------------------------------------------------
(* Stopping: BurnBackend.stop and _terminate_process_group *)

Tell ==
  /\ at \in StopLoops
  /\ next \in slot
  /\ proc[next] = "running"
  /\ proc' = [proc EXCEPT ![next] = "told"]
  /\ UNCHANGED <<at, next, tick, prepared, slot, level, curve, missing,
                 signals, cut>>

\* wait timed out: SIGKILL
KillBackend ==
  /\ at \in StopLoops
  /\ next \in slot
  /\ proc[next] = "told"
  /\ proc' = [proc EXCEPT ![next] = "dead"]
  /\ UNCHANGED <<at, next, tick, prepared, slot, level, curve, missing,
                 signals, cut>>

\* The process has ended or there never was one: forget it, and its control
\* file.
Stopped ==
  /\ at \in StopLoops
  /\ next \in Backends
  /\ next \in slot => proc[next] = "dead"
  /\ slot' = slot \ {next}
  /\ next' = next + 1
  /\ UNCHANGED <<at, tick, prepared, proc, level, curve, missing, signals,
                 cut>>

-----------------------------------------------------------------------------
(* main *)

\* It is two seconds before the start time.
BeginPrepare ==
  /\ at = "waiting"
  /\ Enter("preparing")
  /\ UNCHANGED <<tick, prepared, slot, proc, level, curve, missing, signals,
                 cut>>

Prepared ==
  /\ at = "preparing"
  /\ next > NBackends
  /\ Enter("armed")
  /\ prepared' = TRUE
  /\ UNCHANGED <<tick, slot, proc, level, curve, missing, signals, cut>>

StartTime ==
  /\ at = "armed"
  /\ Enter("sleeping")
  /\ UNCHANGED <<tick, prepared, slot, proc, level, curve, missing, signals,
                 cut>>

TickDue ==
  /\ at = "sleeping"
  /\ tick < Ticks
  /\ Enter("setting")
  /\ UNCHANGED <<tick, prepared, slot, proc, level, curve, missing, signals,
                 cut>>

TickDone ==
  /\ at = "setting"
  /\ next > NBackends
  /\ tick' = tick + 1
  /\ Enter("sleeping")
  /\ UNCHANGED <<prepared, slot, proc, level, curve, missing, signals, cut>>

\* The schedule is over: the finally clause of run_schedule.
ScheduleOver ==
  /\ at = "sleeping"
  /\ tick = Ticks
  /\ Enter("stopping")
  /\ UNCHANGED <<tick, prepared, slot, proc, level, curve, missing, signals,
                 cut>>

\* Mutant: main stops the backends only if they were not prepared.
Unwind_mutant ==
  IF at = "armed" \/ (at = "stopping" /\ ~prepared) THEN "final" ELSE "gone"

\* Where main's finally clause takes it.
Unwind ==
  IF at \in {"armed", "stopping"} /\ prepared THEN "final" ELSE "gone"

\* Loops over the backends that nobody takes up again when they are cut off
TakenUpByNobody ==
  at \in {"preparing", "undoing", "final"} \/ (at = "stopping" /\ ~prepared)

LoopOver ==
  /\ at \in StopLoops
  /\ next > NBackends
  /\ Enter(Unwind)
  /\ UNCHANGED <<tick, prepared, slot, proc, level, curve, missing, signals,
                 cut>>

\* KeyboardInterrupt: run_schedule goes to its finally clause, everything else
\* to main's.  _prepare_backends catches Exception, which this is not.
Interrupt ==
  /\ at # "gone"
  /\ signals < MaxSignals
  /\ signals' = signals + 1
  /\ Enter(IF at \in {"sleeping", "setting"} THEN "stopping" ELSE Unwind)
  /\ cut' = (cut \/ Unstored # {}
                 \/ (TakenUpByNobody /\ \E b \in Backends : proc[b] = "running"))
  /\ UNCHANGED <<tick, prepared, slot, proc, level, curve, missing>>

\* lookbusy or gpu_burn ends: told to, or not.
BackendEnds(b) ==
  /\ proc[b] \in {"running", "told"}
  /\ proc' = [proc EXCEPT ![b] = "dead"]
  /\ UNCHANGED <<at, next, tick, prepared, slot, level, curve, missing,
                 signals, cut>>

BurnerMain ==
  \/ Spawn \/ Store \/ Set \/ StartFails \/ Tell \/ KillBackend \/ Stopped
  \/ BeginPrepare \/ Prepared \/ StartTime \/ TickDue \/ TickDone
  \/ ScheduleOver \/ LoopOver

BurnerNext == BurnerMain \/ Interrupt \/ \E b \in Backends : BackendEnds(b)

BurnerSpec == BurnerInit /\ [][BurnerNext]_burnerVars

-----------------------------------------------------------------------------
(* Properties *)

(***************************************************************************)
(* docs/requirements.md, 3.3: on SIGINT and SIGTERM all child processes    *)
(* are stopped.  A burner that is gone, after its schedule, an error or    *)
(* signals, has told every process it started to end, unless a signal cut  *)
(* off preparing, the assignment of a Popen, or the last loop that stops   *)
(* backends.  A signal in run_schedule's own clean-up is made up for by    *)
(* main's when the backends were prepared.                                 *)
(***************************************************************************)
ExitStopsBackends ==
  at = "gone" /\ ~cut => \A b \in Backends : proc[b] # "running"

(***************************************************************************)
(* The intensity the control files ask for, between any two points of the  *)
(* curve and across the wrap of its period, is never below its lowest or   *)
(* above its highest point.  0, which it is before the first tick, is let  *)
(* pass at any time.                                                       *)
(***************************************************************************)
LevelWithinCurve ==
  \A b \in Backends :
    \/ level[b] = 0
    \/ \E i, j \in DOMAIN curve :
         curve[i].y <= level[b] /\ level[b] <= curve[j].y
=============================================================================
