----------------------------- MODULE ChokerLoop -----------------------------
(***************************************************************************)
(* choker/daemon.py, choker/burn.py and the LookbusyCpuBackend of          *)
(* warpper/burner_backends.py: the control loop of a choker daemon.        *)
(*                                                                         *)
(* A step of the loop measures the CPU load of everybody else over a       *)
(* window and then sets the intensity of a lookbusy process through its    *)
(* control file.  Loads and intensities are levels from 0 to Full (100 %); *)
(* two intensities less than 1 % apart are one level.  A sample is the     *)
(* external load at the end of its window, and a lookbusy that dies does   *)
(* so between a sample and what follows from it.  The binary of lookbusy,  *)
(* which every setting asks for, may go and come back at any time; writes  *)
(* to the control file succeed.                                            *)
(***************************************************************************)
EXTENDS ChokerProcesses, Integers

CONSTANTS
  Full,        \* 100 % of the CPUs
  Target,      \* --target
  Threshold,   \* --threshold
  IdleDaemons, \* those run with --strategy idle; the others complement
  Faults       \* what may go wrong: "death", "binary"

ASSUME LoopAssumption ==
  /\ Full \in Nat
  /\ Target \in 0 .. Full
  /\ Threshold \in 0 .. Full
  /\ IdleDaemons \subseteq Daemons
  /\ Faults \subseteq {"death", "binary"}
  /\ None \notin 0 .. Full

VARIABLES
  external,    \* the CPU load of everything that is not choker's
  sampled,     \* the sample a daemon is about to act on
  lookbusy,    \* LookbusyCpuBackend._process: no object, running, or exited
  control,     \* what the control file says
  intensity,   \* CpuBurnController._intensity
  last,        \* ChokerDaemon._last_intensity
  built        \* is lookbusy's binary in its place?

loopVars == <<external, sampled, lookbusy, control, intensity, last, built>>

Levels == 0 .. Full

LoopTypeOK ==
  /\ external \in Levels
  /\ sampled \in [Daemons -> Levels \cup {None}]
  /\ lookbusy \in [Daemons -> {"none", "alive", "died"}]
  /\ control \in [Daemons -> Levels]
  /\ intensity \in [Daemons -> Levels]
  /\ last \in [Daemons -> Levels \cup {None}]
  /\ built \in BOOLEAN

LoopInit ==
  /\ external \in Levels
  /\ sampled = [d \in Daemons |-> None]
  /\ lookbusy = [d \in Daemons |-> "none"]
  /\ control = [d \in Daemons |-> 0]
  /\ intensity = [d \in Daemons |-> 0]
  /\ last = [d \in Daemons |-> None]
  /\ built = TRUE

\* Mutant: the others' load is added to the target instead of subtracted.
Desired_mutant(d, load) ==
  IF d \in IdleDaemons
  THEN IF load < Threshold THEN Full ELSE 0
  ELSE Target + load

\* _desired_intensity
Desired(d, load) ==
  IF d \in IdleDaemons
  THEN IF load < Threshold THEN Full ELSE 0
  ELSE IF load < Target THEN Target - load ELSE 0

\* CpuBurnController.is_running
IsRunning(d) == intensity[d] > 0 /\ lookbusy[d] = "alive"

\* The load a daemon puts on the machine.
Burning(d) == lookbusy[d] = "alive" /\ control[d] > 0

-----------------------------------------------------------------------------

\* The first half of step: owned_pid and monitor.sample.
Sample(d) ==
  /\ sampled[d] = None
  /\ sampled' = [sampled EXCEPT ![d] = external]
  /\ UNCHANGED <<external, lookbusy, control, intensity, last, built>>

\* _apply_intensity acts on the sample, which is then used up.
Act(d) ==
  /\ sampled[d] # None
  /\ sampled' = [sampled EXCEPT ![d] = None]

Wanted(d) == Desired(d, sampled[d])

\* Mutant: the controller forgets its intensity and leaves the file alone.
Yield_mutant(d) ==
  /\ Act(d)
  /\ Wanted(d) <= 0
  /\ IsRunning(d) /\ built
  /\ intensity' = [intensity EXCEPT ![d] = 0]
  /\ last' = [last EXCEPT ![d] = 0]
  /\ UNCHANGED <<external, lookbusy, control, built>>

\* Nothing wanted while burning: _stop_burn leaves lookbusy running at 0 %.
Yield(d) ==
  /\ Act(d)
  /\ Wanted(d) <= 0
  /\ IsRunning(d) /\ built
  /\ control' = [control EXCEPT ![d] = 0]
  /\ intensity' = [intensity EXCEPT ![d] = 0]
  /\ last' = [last EXCEPT ![d] = 0]
  /\ UNCHANGED <<external, lookbusy, built>>

\* Without the binary even 0 % cannot be set: _stop_burn swallows the error,
\* nothing is changed and lookbusy burns on.
YieldRaises(d) ==
  /\ Act(d)
  /\ Wanted(d) <= 0
  /\ IsRunning(d) /\ ~built
  /\ UNCHANGED <<external, lookbusy, control, intensity, last, built>>

\* Nothing wanted and nothing burning.
StayIdle(d) ==
  /\ Act(d)
  /\ Wanted(d) <= 0
  /\ ~IsRunning(d)
  /\ last' = [last EXCEPT ![d] = 0]
  /\ UNCHANGED <<external, lookbusy, control, intensity, built>>

\* Mutant: any intensity that was ever set will do.
Keep_mutant(d) ==
  /\ Act(d)
  /\ Wanted(d) > 0
  /\ last[d] # None
  /\ UNCHANGED <<external, lookbusy, control, intensity, last, built>>

\* The wanted intensity was the last one set.
Keep(d) ==
  /\ Act(d)
  /\ Wanted(d) > 0
  /\ IsRunning(d) /\ last[d] = Wanted(d)
  /\ UNCHANGED <<external, lookbusy, control, intensity, last, built>>

\* Something is wanted that is not the intensity set last.
NewLevel(d) ==
  /\ Act(d)
  /\ Wanted(d) > 0
  /\ ~(IsRunning(d) /\ last[d] = Wanted(d))

\* Mutant: the control file is written only when lookbusy is started.
Adjust_mutant(d) ==
  /\ NewLevel(d)
  /\ built /\ lookbusy[d] # "died"
  /\ lookbusy' = [lookbusy EXCEPT ![d] = "alive"]
  /\ control' = [control EXCEPT ![d] =
                   IF lookbusy[d] = "alive" THEN @ ELSE Wanted(d)]
  /\ intensity' = [intensity EXCEPT ![d] = Wanted(d)]
  /\ last' = [last EXCEPT ![d] = Wanted(d)]
  /\ UNCHANGED <<external, built>>

\* set_intensity: lookbusy is started if there is none, and told.
Adjust(d) ==
  /\ NewLevel(d)
  /\ built /\ lookbusy[d] # "died"
  /\ lookbusy' = [lookbusy EXCEPT ![d] = "alive"]
  /\ control' = [control EXCEPT ![d] = Wanted(d)]
  /\ intensity' = [intensity EXCEPT ![d] = Wanted(d)]
  /\ last' = [last EXCEPT ![d] = Wanted(d)]
  /\ UNCHANGED <<external, built>>

\* set_intensity raised: the daemon takes it that nothing burns.
Raises(d) ==
  /\ NewLevel(d)
  /\ last' = [last EXCEPT ![d] = 0]
  /\ UNCHANGED external

\* _ensure_started finds no binary and no lookbusy, or an exited one, whose
\* slot CpuBurnController.stop leaves as it is.  A Popen that fails is taken
\* for a binary that is missing.
StartFails(d) ==
  /\ Raises(d)
  /\ lookbusy[d] = "died" \/ (lookbusy[d] = "none" /\ ~built)
  /\ intensity' = [intensity EXCEPT ![d] = 0]
  /\ UNCHANGED <<lookbusy, control, built>>

\* It finds no binary while lookbusy runs.  CpuBurnController.stop, meant to
\* clean up, asks for the binary as well: it raises and leaves file and
\* controller alone, or the binary is back by then and it sets 0 %.
AdjustRaises(d) ==
  /\ Raises(d)
  /\ lookbusy[d] = "alive" /\ ~built
  /\ UNCHANGED lookbusy
  /\ \/ UNCHANGED <<control, intensity, built>>
     \/ /\ built' = TRUE
        /\ control' = [control EXCEPT ![d] = 0]
        /\ intensity' = [intensity EXCEPT ![d] = 0]

\* The binary goes between prepare, which started lookbusy at 0 %, and the
\* setting.
StartedUntold(d) ==
  /\ "binary" \in Faults
  /\ Raises(d)
  /\ lookbusy[d] = "none" /\ built
  /\ built' = FALSE
  /\ lookbusy' = [lookbusy EXCEPT ![d] = "alive"]
  /\ control' = [control EXCEPT ![d] = 0]
  /\ UNCHANGED intensity

\* One iteration of run, after the sample.
Apply(d) ==
  \/ Yield(d)
  \/ YieldRaises(d)
  \/ StayIdle(d)
  \/ Keep(d)
  \/ Adjust(d)
  \/ StartFails(d)
  \/ AdjustRaises(d)
  \/ StartedUntold(d)

\* What goes with the process: its beliefs, and nothing outside it.
Forget(d) ==
  /\ sampled' = [sampled EXCEPT ![d] = None]
  /\ intensity' = [intensity EXCEPT ![d] = 0]
  /\ last' = [last EXCEPT ![d] = None]
  /\ UNCHANGED <<external, built>>

\* Mutant: only a burning lookbusy is terminated, a prewarmed one stays.
Shutdown_mutant(d) ==
  /\ sampled[d] = None
  /\ lookbusy' = [lookbusy EXCEPT ![d] = IF IsRunning(d) THEN "none" ELSE @]
  /\ control' = [control EXCEPT ![d] = 0]
  /\ Forget(d)

\* shutdown, in the finally clause of run: lookbusy's process group is killed
\* and the control file goes with its directory.  The daemon is about to end.
Shutdown(d) ==
  /\ sampled[d] = None
  /\ lookbusy' = [lookbusy EXCEPT ![d] = "none"]
  /\ control' = [control EXCEPT ![d] = 0]
  /\ Forget(d)

\* The daemon is killed: lookbusy, in a session of its own, burns on.
Orphan(d) == Forget(d) /\ UNCHANGED <<lookbusy, control>>

\* lookbusy exits unexpectedly.
Dies(d) ==
  /\ "death" \in Faults
  /\ lookbusy[d] = "alive"
  /\ lookbusy' = [lookbusy EXCEPT ![d] = "died"]
  /\ UNCHANGED <<external, sampled, control, intensity, last, built>>

\* A build of lookbusy takes its binary away, or ends and puts it back.
BinaryMoves ==
  /\ "binary" \in Faults
  /\ built' = ~built
  /\ UNCHANGED <<external, sampled, lookbusy, control, intensity, last>>

\* The other programs of the machine need more or less CPU.
ExternalLoad ==
  /\ external' \in Levels
  /\ UNCHANGED <<sampled, lookbusy, control, intensity, last, built>>
=============================================================================
