------------------------------- MODULE Choker -------------------------------
(***************************************************************************)
(* The choker daemon: `choker run` processes that acquire the pid file     *)
(* (ChokerPidFile), run the control loop (ChokerLoop) until they are asked *)
(* to stop, terminate lookbusy and release the pid file.                   *)
(***************************************************************************)
EXTENDS ChokerPidFile, ChokerLoop

vars == <<pidVars, loopVars>>

TypeOK == PidTypeOK /\ LoopTypeOK

Init == PidInit /\ LoopInit

\* ChokerDaemon.run, up to the end of its while loop: the stop request is
\* looked at before each iteration.
BeginStep(d) ==
  proc[d] = "up" /\ ~asked[d] /\ Sample(d) /\ UNCHANGED pidVars

EndStep(d) ==
  proc[d] = "up" /\ Apply(d) /\ UNCHANGED pidVars

\* The finally clause, and the way out of `with PidFile`.  SIGINT from a
\* terminal asks as SIGTERM does.
Finish(d) ==
  asked[d] /\ Shutdown(d) /\ LeaveLoop(d)

Crash(d) == KillDaemon(d) /\ Orphan(d)

\* What becomes of an orphaned lookbusy is of no consequence here.
LookbusyDies(d) == proc[d] = "up" /\ Dies(d) /\ UNCHANGED pidVars

\* The signal handler of run_command.
Interrupt(d) ==
  /\ proc[d] = "up"
  /\ ~asked[d]
  /\ asked' = [asked EXCEPT ![d] = TRUE]
  /\ UNCHANGED <<path, text, handle, proc, cmd, target, loopVars>>

Next ==
  \/ \E c \in Commands : CommandStep(c) /\ UNCHANGED loopVars
  \/ \E d \in Daemons :
       \/ (Run(d) \/ AcquireStep(d) \/ ReleaseStep(d)) /\ UNCHANGED loopVars
       \/ BeginStep(d)
       \/ EndStep(d)
       \/ Finish(d)
       \/ Interrupt(d)
       \/ Crash(d)
       \/ LookbusyDies(d)
  \/ (ExternalLoad \/ BinaryMoves) /\ UNCHANGED pidVars

Spec == Init /\ [][Next]_vars

\* A daemon's thread keeps running.  Nothing is assumed of commands, of the
\* load of others and of lookbusy.
Fairness ==
  \A d \in Daemons :
    /\ WF_vars((AcquireStep(d) \/ ReleaseStep(d)) /\ UNCHANGED loopVars)
    /\ WF_vars(BeginStep(d))
    /\ WF_vars(EndStep(d))
    /\ WF_vars(Finish(d))

FairSpec == Spec /\ Fairness

-----------------------------------------------------------------------------
(* Safety *)

(***************************************************************************)
(* docs/choker.md:29: `status` shows whether the daemon is running.  As    *)
(* long as a daemon is in its loop the pid file holds its pid, so that     *)
(* status finds it, stop reaches it and a second one is refused.           *)
(***************************************************************************)
StatusFindsDaemon == \A d \in Daemons : proc[d] = "up" => Names(d)

(***************************************************************************)
(* A daemon that ran its course leaves neither a lookbusy process, burning *)
(* or prewarmed, nor its pid in the pid file, however many commands and    *)
(* daemons race with it (run's finally clause and PidFile.release).        *)
(***************************************************************************)
CleanExitLeavesNothing ==
  \A d \in Daemons :
    proc[d] = "exited" => lookbusy[d] # "alive" /\ ~Names(d)

(***************************************************************************)
(* What a daemon's controller believes is what lookbusy reads, and what    *)
(* the daemon remembers is that or nothing, also when settings and their   *)
(* clean-ups raise: so an iteration that finds its intensity unchanged may *)
(* leave the control file alone (_apply_intensity).                        *)
(***************************************************************************)
BelievedIntensityIsSet ==
  \A d \in Daemons :
    proc[d] = "up" /\ lookbusy[d] = "alive"
    => control[d] = intensity[d] /\ last[d] \in {control[d], 0}

-----------------------------------------------------------------------------
(* Liveness *)

\* The others leave nothing for this daemon to fill.
Busy(d) == Desired(d, external) <= 0

(***************************************************************************)
(* When the others' load stays at the target and lookbusy's binary is in   *)
(* its place, a daemon in its loop burns nothing from some point on,       *)
(* whatever settings and yields failed while the binary was away.  Without *)
(* the binary it does not: _stop_burn swallows the error and lookbusy      *)
(* burns on, whatever docs/choker.md:83 says.                              *)
(***************************************************************************)
YieldsToLoad ==
  \A d \in Daemons :
    <>[](proc[d] = "up" /\ Busy(d) /\ built) => <>[](~Burning(d))

(***************************************************************************)
(* When spare capacity and the binary stay, a daemon in its loop fills it, *)
(* also after starts, settings and clean-ups that failed, unless its       *)
(* lookbusy died.                                                          *)
(***************************************************************************)
ResumesUnlessDied ==
  \A d \in Daemons :
    <>[](/\ proc[d] = "up" /\ ~asked[d]
         /\ ~Busy(d) /\ built /\ lookbusy[d] # "died")
    => <>[](Burning(d))

(***************************************************************************)
(* docs/choker.md:85: choker automatically resumes or increases burn when  *)
(* spare CPU capacity appears again.                                       *)
(***************************************************************************)
ResumesWhenIdle ==
  \A d \in Daemons :
    <>[](proc[d] = "up" /\ ~asked[d] /\ ~Busy(d)) => <>[](Burning(d))
=============================================================================

