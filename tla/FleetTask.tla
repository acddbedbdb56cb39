----------------------------- MODULE FleetTask -----------------------------
(***************************************************************************)
(* The background tasks of the UI backend that prepare machines:           *)
(* sampling_controller.py rebuilds the burners of a fleet,                 *)
(* workload_controller.py sets workloads up on one, and                    *)
(* gpu_workload_controller.py on a single machine.  A task holds its       *)
(* controller's running flag, takes each machine through its steps side by *)
(* side, and announces one exit code at the end.                           *)
(*                                                                         *)
(* Every step, and every ending, broadcasts to the browsers, and a         *)
(* broadcast may raise: it forgives a client's socket RuntimeErrors only.  *)
(* Interlocks models what a flag keeps out; this module, that it is let go *)
(* and what the exit code says.                                            *)
(***************************************************************************)
EXTENDS Naturals

CONSTANTS
  FleetMachines,
  MaxRounds       \* bound: tasks there are in all

ASSUME FleetAssumption == MaxRounds \in Nat

VARIABLES
  fleetKind,      \* which of the three tasks this is
  fleetGpu,       \* machines hw_cache says have a GPU
  fleetRound,     \* the number of the latest task
  fleetFlag,      \* _running, _setup_running
  fleetTargets,   \* its machines
  fleetAt,        \* _run_machine, _run_setup_machine of each of them
  fleetSteps,     \* the steps each has behind it
  fleetMain,      \* run_reserved_... of each round, and the task around it
  fleetBuilt,     \* rounds that took every machine through every step
  fleetRaised,    \* rounds that had a machine's coroutine raise
  fleetSaid       \* the exit codes announced for each round

fleetVars == <<fleetKind, fleetGpu, fleetRound, fleetFlag, fleetTargets,
               fleetAt, fleetSteps, fleetMain,
               fleetBuilt, fleetRaised, fleetSaid>>

Rounds == 1..MaxRounds

\* What the coroutine of a machine returns; or it raises.
Results == {"zero", "one", "raised"}

\* reset, pull, submodules, sync, build_cpu and perhaps build_gpu; or the copy
\* of the sources and the setup command
StepsOf(m) ==
  IF fleetKind # "sampling" THEN 2
  ELSE IF m \in fleetGpu THEN 6 ELSE 5

FleetTypeOK ==
  /\ fleetKind \in {"sampling", "cpu", "gpu"}
  /\ fleetGpu \subseteq FleetMachines
  /\ fleetRound \in 0..MaxRounds
  /\ fleetFlag \in BOOLEAN
  /\ fleetTargets \subseteq FleetMachines
  /\ fleetAt \in [FleetMachines -> {"off", "step", "finishing", "excepting",
                                    "failing"} \cup Results]
  /\ \A m \in FleetMachines : fleetSteps[m] \in 0..StepsOf(m)
  /\ fleetMain \in [Rounds -> {"none", "gathering", "ok", "failed", "wrapping",
                               "over"}]
  /\ fleetBuilt \subseteq Rounds
  /\ fleetRaised \subseteq Rounds
  /\ fleetSaid \in [Rounds -> SUBSET {0, 1}]

FleetInit ==
  /\ fleetKind \in {"sampling", "cpu", "gpu"}
  /\ fleetGpu \in SUBSET FleetMachines
  /\ fleetKind # "sampling" => fleetGpu = {}
  /\ fleetRound = 0
  /\ fleetFlag = FALSE
  /\ fleetTargets = {}
  /\ fleetAt = [m \in FleetMachines |-> "off"]
  /\ fleetSteps = [m \in FleetMachines |-> 0]
  /\ fleetMain = [r \in Rounds |-> "none"]
  /\ fleetBuilt = {}
  /\ fleetRaised = {}
  /\ fleetSaid = [r \in Rounds |-> {}]

-----------------------------------------------------------------------------

\* reserve_apply or reserve_setup lets the request in, and its task starts.
\* The flag is all that keeps a request out here; the task before may still
\* be announcing its end.
ReserveFleet(targets) ==
  /\ ~fleetFlag
  /\ fleetRound < MaxRounds
  /\ fleetKind = "gpu" => \E m \in FleetMachines : targets = {m}
  /\ fleetRound' = fleetRound + 1
  /\ fleetFlag' = TRUE
  /\ fleetTargets' = targets
  /\ fleetAt' = [m \in FleetMachines |->
                   IF m \in targets THEN "step" ELSE "off"]
  /\ fleetSteps' = [m \in FleetMachines |-> 0]
  /\ fleetMain' = [fleetMain EXCEPT ![fleetRound + 1] = "gathering"]
  /\ UNCHANGED <<fleetKind, fleetGpu, fleetBuilt, fleetRaised, fleetSaid>>

-----------------------------------------------------------------------------
(* A machine *)

Move(m, at) ==
  /\ fleetAt' = [fleetAt EXCEPT ![m] = at]
  /\ UNCHANGED <<fleetKind, fleetGpu, fleetRound, fleetFlag, fleetTargets,
                 fleetMain, fleetBuilt, fleetRaised, fleetSaid>>

\* Mutant: the machine finishes a step late.
StepDone_mutant(m) ==
  /\ fleetAt[m] = "step"
  /\ fleetSteps' = [fleetSteps EXCEPT ![m] = @ + 1]
  /\ Move(m, IF fleetSteps[m] = StepsOf(m) THEN "finishing" ELSE "step")

\* A step is done; the last one lets the machine finish.
StepDone(m) ==
  /\ fleetAt[m] = "step"
  /\ fleetSteps' = [fleetSteps EXCEPT ![m] = @ + 1]
  /\ Move(m, IF fleetSteps[m] + 1 = StepsOf(m) THEN "finishing" ELSE "step")

\* A command fails, the connection is gone, or a broadcast about it raises.
StepFails(m) ==
  /\ fleetAt[m] = "step"
  /\ Move(m, "excepting")
  /\ UNCHANGED fleetSteps

\* _finish_machine: the machine is a success, and ..._done has gone out,
FinishTold(m) ==
  /\ fleetAt[m] = "finishing"
  /\ Move(m, "zero")
  /\ UNCHANGED fleetSteps

\* or it raised, and the success is off.
FinishRaises(m) ==
  /\ fleetAt[m] = "finishing"
  /\ Move(m, "excepting")
  /\ UNCHANGED fleetSteps

\* except Exception: the log line, then the failure; either may raise.
LogTold(m) ==
  /\ fleetAt[m] = "excepting"
  /\ Move(m, "failing")
  /\ UNCHANGED fleetSteps

FailTold(m) ==
  /\ fleetAt[m] = "failing"
  /\ Move(m, "one")
  /\ UNCHANGED fleetSteps

ExceptRaises(m) ==
  /\ fleetAt[m] \in {"excepting", "failing"}
  /\ Move(m, "raised")
  /\ UNCHANGED fleetSteps

-----------------------------------------------------------------------------
(* The task *)

\* Mutant: the first coroutine that raises ends the gather (return_exceptions
\* is left out).
AllOver_mutant ==
  \/ \A m \in fleetTargets : fleetAt[m] \in Results
  \/ \E m \in fleetTargets : fleetAt[m] = "raised"

\* gather returns
AllOver == \A m \in fleetTargets : fleetAt[m] \in Results

Raised == \E m \in fleetTargets : fleetAt[m] = "raised"

\* Mutant: a coroutine that raised does not count.
ExitCode_mutant ==
  IF \E m \in fleetTargets : fleetAt[m] = "one" THEN 1 ELSE 0

\* The exit code of the finally: the GPU setup, which gathers nothing, has not
\* set it when its one machine's coroutine raises.
ExitCode ==
  IF fleetKind = "gpu" /\ Raised THEN 0
  ELSE IF \E m \in fleetTargets : fleetAt[m] # "zero" THEN 1 ELSE 0

\* Mutant: the flag is let go after the loop over the results, not in a
\* finally, and a GPU setup that raises keeps it.
LetGo_mutant == fleetFlag' = (fleetKind = "gpu" /\ Raised)

\* finally: _running = False
LetGo == fleetFlag' = FALSE

\* The flag is let go, then the broadcast of ..._complete begins.
Gathered ==
  /\ fleetRound > 0
  /\ fleetMain[fleetRound] = "gathering"
  /\ AllOver
  /\ LetGo
  /\ fleetMain' = [fleetMain EXCEPT ![fleetRound] =
                     IF ExitCode = 0 THEN "ok" ELSE "failed"]
  /\ fleetBuilt' =
       IF \A m \in fleetTargets : fleetSteps[m] = StepsOf(m)
       THEN fleetBuilt \cup {fleetRound} ELSE fleetBuilt
  /\ fleetRaised' =
       IF Raised THEN fleetRaised \cup {fleetRound} ELSE fleetRaised
  /\ UNCHANGED <<fleetKind, fleetGpu, fleetRound, fleetTargets, fleetAt,
                 fleetSteps, fleetSaid>>

Say(r, code, next) ==
  /\ fleetMain' = [fleetMain EXCEPT ![r] = next]
  /\ fleetSaid' = [fleetSaid EXCEPT ![r] = @ \cup code]
  /\ UNCHANGED <<fleetKind, fleetGpu, fleetRound, fleetFlag, fleetTargets,
                 fleetAt, fleetSteps, fleetBuilt, fleetRaised>>

\* ..._complete has gone out.  The finally of a GPU setup then goes on raising;
\* so does a broadcast that raises, when some clients have the event.
CompleteTold(r) ==
  /\ fleetMain[r] \in {"ok", "failed"}
  /\ Say(r, {IF fleetMain[r] = "ok" THEN 0 ELSE 1},
         IF fleetKind = "gpu" /\ r \in fleetRaised THEN "wrapping" ELSE "over")

CompleteRaises(r) ==
  /\ fleetMain[r] \in {"ok", "failed"}
  /\ \E code \in {{}, {IF fleetMain[r] = "ok" THEN 0 ELSE 1}} :
       Say(r, code, "wrapping")

\* main.py's _run_..._task announces exit code 1, unless that raises too.
WrapTold(r) == fleetMain[r] = "wrapping" /\ Say(r, {1}, "over")

WrapRaises(r) ==
  /\ fleetMain[r] = "wrapping"
  /\ \E code \in {{}, {1}} : Say(r, code, "over")

-----------------------------------------------------------------------------

MachineEnds(m) ==
  \/ StepDone(m) \/ StepFails(m) \/ FinishTold(m) \/ FinishRaises(m)
  \/ LogTold(m) \/ FailTold(m) \/ ExceptRaises(m)

FleetNext ==
  \/ \E targets \in (SUBSET FleetMachines) \ {{}} : ReserveFleet(targets)
  \/ \E m \in FleetMachines :
       \/ StepDone(m) \/ StepFails(m) \/ FinishTold(m) \/ FinishRaises(m)
       \/ LogTold(m) \/ FailTold(m) \/ ExceptRaises(m)
  \/ Gathered
  \/ \E r \in Rounds : CompleteTold(r) \/ CompleteRaises(r) \/ WrapTold(r)
                         \/ WrapRaises(r)

\* A remote command ends or its connection does (there is no timeout in the
\* code, so this is the network's promise), and the event loop runs its tasks.
FleetFairness ==
  /\ \A m \in FleetMachines : WF_fleetVars(MachineEnds(m))
  /\ WF_fleetVars(Gathered)

FleetSpec == FleetInit /\ [][FleetNext]_fleetVars /\ FleetFairness

-----------------------------------------------------------------------------
(* Properties *)

(***************************************************************************)
(* UI/README.md: a sampling time is considered applied only after every    *)
(* target machine rebuilds successfully.  A task announces 0 only if every *)
(* machine went through every step, however its broadcasts fared, except   *)
(* a GPU setup whose machine's coroutine raised: it announces 0 on its way *)
(* out, and the task around it may then announce 1.                        *)
(***************************************************************************)
AppliedMeansBuilt ==
  \A r \in Rounds :
    0 \in fleetSaid[r] =>
      r \in fleetBuilt \/ (fleetKind = "gpu" /\ r \in fleetRaised)

(***************************************************************************)
(* The flag that keeps the other endpoints out is let go in the end,       *)
(* whatever step failed and whatever broadcast raised.                     *)
(***************************************************************************)
FleetEnds == fleetFlag ~> ~fleetFlag

(***************************************************************************)
(* A task whose flag is down has no machine in a step any more, so a       *)
(* rebuild is never let in over another one, and no job over a rebuild.    *)
(***************************************************************************)
QuietWhenClear ==
  ~fleetFlag => \A m \in FleetMachines : fleetAt[m] \in {"off"} \cup Results
=============================================================================
