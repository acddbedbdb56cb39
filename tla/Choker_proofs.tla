---------------------------- MODULE Choker_proofs ----------------------------
(***************************************************************************)
(* Proofs about Choker, for any daemons, commands and levels.              *)
(***************************************************************************)
EXTENDS Choker, TLAPS

USE DEF Levels

-----------------------------------------------------------------------------
(* Types *)

LEMMA PidTypeInit == PidInit => PidTypeOK
  BY DEF PidInit, PidTypeOK, ProcStates, CmdStates

\* Each part of a step keeps the pid file's variables in their types.
LEMMA AcquireType ==
  ASSUME PidTypeOK, NEW d \in Daemons, Run(d) \/ AcquireStep(d)
  PROVE  PidTypeOK'
<1> USE DEF PidTypeOK, ProcStates
<1>1. CASE Run(d)
  BY <1>1 DEF Run
<1>2. CASE Check(d)
  BY <1>2 DEF Check
<1>3. CASE ClearStale(d)
  BY <1>3 DEF ClearStale
<1>4. CASE OpenFile(d)
  BY <1>4, PidFileAssumption DEF OpenFile
<1>5. CASE WriteFile(d)
  BY <1>5 DEF WriteFile
<1> QED
  BY <1>1, <1>2, <1>3, <1>4, <1>5 DEF AcquireStep

LEMMA ReleaseType ==
  ASSUME PidTypeOK, NEW d \in Daemons,
         ReleaseStep(d) \/ LeaveLoop(d) \/ KillDaemon(d)
  PROVE  PidTypeOK'
<1> USE DEF PidTypeOK, ProcStates
<1>1. CASE ReleaseRead(d)
  BY <1>1 DEF ReleaseRead
<1>2. CASE Unlink(d)
  BY <1>2 DEF Unlink
<1>3. CASE LeaveLoop(d)
  BY <1>3 DEF LeaveLoop
<1>4. CASE KillDaemon(d)
  BY <1>4 DEF KillDaemon
<1> QED
  BY <1>1, <1>2, <1>3, <1>4 DEF ReleaseStep

LEMMA CommandType ==
  ASSUME PidTypeOK, NEW c \in Commands, CommandStep(c)
  PROVE  PidTypeOK'
<1> USE DEF PidTypeOK, CmdStates
<1>1. CASE BeginStart(c)
  BY <1>1 DEF BeginStart
<1>2. CASE StartClears(c)
  BY <1>2 DEF StartClears
<1>3. ASSUME NEW d \in Daemons, Spawn(c, d) PROVE PidTypeOK'
  BY <1>3 DEF Spawn, ProcStates
<1>4. CASE BeginStop(c)
  <2>1. /\ PidTypeOK
        /\ UNCHANGED <<path, text, handle, proc>>
        /\ \/ /\ \/ cmd' = [cmd EXCEPT ![c] = "done"]
                 \/ cmd' = [cmd EXCEPT ![c] = "removing"]
              /\ UNCHANGED <<target, asked>>
           \/ \E d \in Daemons :
                /\ cmd' = [cmd EXCEPT ![c] = "waiting"]
                /\ target' = [target EXCEPT ![c] = d]
                /\ asked' = [asked EXCEPT ![d] = TRUE]
    BY <1>4 DEF BeginStop
  <2>2. CASE /\ \/ cmd' = [cmd EXCEPT ![c] = "done"]
                \/ cmd' = [cmd EXCEPT ![c] = "removing"]
             /\ UNCHANGED <<target, asked>>
    BY <2>1, <2>2
  <2>3. ASSUME NEW d \in Daemons,
               cmd' = [cmd EXCEPT ![c] = "waiting"],
               target' = [target EXCEPT ![c] = d],
               asked' = [asked EXCEPT ![d] = TRUE]
        PROVE  PidTypeOK'
    <3>1. d # None
      BY PidFileAssumption
    <3>2. asked' \in [Daemons -> BOOLEAN]
      BY <2>3
    <3>3. \A e \in Commands : cmd'[e] = "waiting" => target'[e] # None
      BY <2>3, <3>1
    <3> QED
      BY <2>1, <2>3, <3>2, <3>3
  <2> QED
    BY <2>1, <2>2, <2>3
<1>5. CASE StopWaited(c)
  BY <1>5 DEF StopWaited
<1>6. CASE StopRemoves(c)
  BY <1>6 DEF StopRemoves
<1> QED
  BY <1>1, <1>2, <1>3, <1>4, <1>5, <1>6 DEF CommandStep

LEMMA LoopTypeInit == LoopInit => LoopTypeOK
  BY LoopAssumption DEF LoopInit, LoopTypeOK

\* What a daemon wants, when it wants something, is a level.
LEMMA WantedIsLevel ==
  ASSUME LoopTypeOK, NEW d \in Daemons, sampled[d] # None, Wanted(d) > 0
  PROVE  Wanted(d) \in Levels
  BY LoopAssumption DEF LoopTypeOK, Wanted, Desired

LEMMA AdjustType ==
  ASSUME LoopTypeOK, NEW d \in Daemons, Adjust(d)
  PROVE  LoopTypeOK'
<1>1. /\ sampled[d] # None /\ Wanted(d) > 0
      /\ sampled' = [sampled EXCEPT ![d] = None]
      /\ lookbusy' = [lookbusy EXCEPT ![d] = "alive"]
      /\ control' = [control EXCEPT ![d] = Wanted(d)]
      /\ intensity' = [intensity EXCEPT ![d] = Wanted(d)]
      /\ last' = [last EXCEPT ![d] = Wanted(d)]
      /\ UNCHANGED <<external, built>>
  BY DEF Adjust, NewLevel, Act
<1>2. Wanted(d) \in Levels
  BY <1>1, WantedIsLevel
<1> QED
  BY <1>1, <1>2 DEF LoopTypeOK

LEMMA LoopType ==
  ASSUME LoopTypeOK, NEW d \in Daemons,
         Sample(d) \/ Apply(d) \/ Shutdown(d) \/ Orphan(d) \/ Dies(d)
         \/ ExternalLoad \/ BinaryMoves
  PROVE  LoopTypeOK'
<1> USE LoopAssumption DEF LoopTypeOK
<1>1. CASE Sample(d)
  BY <1>1 DEF Sample
<1>2. CASE Yield(d) \/ YieldRaises(d)
  BY <1>2 DEF Yield, YieldRaises, Act
<1>3. CASE StayIdle(d)
  BY <1>3 DEF StayIdle, Act
<1>4. CASE Keep(d)
  BY <1>4 DEF Keep, Act
<1>5. CASE Adjust(d)
  BY <1>5, AdjustType DEF LoopTypeOK
<1>6. CASE AdjustRaises(d) \/ StartFails(d) \/ StartedUntold(d)
  <2>1. /\ sampled' = [sampled EXCEPT ![d] = None]
        /\ last' = [last EXCEPT ![d] = 0]
        /\ external' = external
    BY <1>6 DEF AdjustRaises, StartFails, StartedUntold, Raises, NewLevel, Act
  <2>2. /\ sampled' \in [Daemons -> Levels \cup {None}]
        /\ last' \in [Daemons -> Levels \cup {None}]
        /\ external' \in Levels
    BY <2>1
  <2>3. /\ lookbusy' \in [Daemons -> {"none", "alive", "died"}]
        /\ control' \in [Daemons -> Levels]
        /\ intensity' \in [Daemons -> Levels]
    <3>1. CASE AdjustRaises(d)
      <4>1. /\ lookbusy' = lookbusy
            /\ control' \in {control, [control EXCEPT ![d] = 0]}
            /\ intensity' \in {intensity, [intensity EXCEPT ![d] = 0]}
        BY <3>1, Zenon DEF AdjustRaises
      <4> QED
        BY <4>1
    <3>2. CASE StartFails(d)
      BY <3>2 DEF StartFails
    <3>3. CASE StartedUntold(d)
      <4>1. /\ lookbusy' = [lookbusy EXCEPT ![d] = "alive"]
            /\ control' = [control EXCEPT ![d] = 0]
            /\ intensity' = intensity
        BY <3>3, Zenon DEF StartedUntold
      <4> QED
        BY <4>1
    <3> QED
      BY <1>6, <3>1, <3>2, <3>3
  <2>4. built' \in BOOLEAN
    BY <1>6, Zenon DEF AdjustRaises, StartFails, StartedUntold
  <2> QED
    BY <2>2, <2>3, <2>4, Zenon
<1>7. CASE Shutdown(d)
  BY <1>7 DEF Shutdown, Forget
<1>8. CASE Orphan(d)
  BY <1>8 DEF Orphan, Forget
<1>9. CASE Dies(d)
  BY <1>9 DEF Dies
<1>10. CASE ExternalLoad \/ BinaryMoves
  BY <1>10 DEF ExternalLoad, BinaryMoves
<1> QED
  BY <1>1, <1>2, <1>3, <1>4, <1>5, <1>6, <1>7, <1>8, <1>9, <1>10
     DEF Apply

LEMMA TypeStep == TypeOK /\ [Next]_vars => TypeOK'
<1> SUFFICES ASSUME TypeOK, [Next]_vars PROVE TypeOK'
  OBVIOUS
<1> USE DEF TypeOK
<1>1. UNCHANGED loopVars => LoopTypeOK'
  BY DEF loopVars, LoopTypeOK
<1>2. UNCHANGED pidVars => PidTypeOK'
  BY DEF pidVars, PidTypeOK
<1>3. ASSUME NEW c \in Commands, CommandStep(c), UNCHANGED loopVars
      PROVE  TypeOK'
  BY <1>1, <1>3, CommandType
<1>4. ASSUME NEW d \in Daemons,
             Run(d) \/ AcquireStep(d) \/ ReleaseStep(d), UNCHANGED loopVars
      PROVE  TypeOK'
  BY <1>1, <1>4, AcquireType, ReleaseType
<1>5. ASSUME NEW d \in Daemons, BeginStep(d) \/ EndStep(d) \/ LookbusyDies(d)
      PROVE  TypeOK'
  BY <1>2, <1>5, LoopType DEF BeginStep, EndStep, LookbusyDies
<1>6. ASSUME NEW d \in Daemons, Finish(d) \/ Crash(d) PROVE TypeOK'
  BY <1>6, LoopType, ReleaseType DEF Finish, Crash
<1>7. ASSUME NEW d \in Daemons, Interrupt(d) PROVE TypeOK'
  <2>1. PidTypeOK'
    BY <1>7 DEF Interrupt, PidTypeOK
  <2> QED
    BY <1>1, <1>7, <2>1 DEF Interrupt
<1>8. CASE (ExternalLoad \/ BinaryMoves) /\ UNCHANGED pidVars
  BY <1>2, <1>8 DEF ExternalLoad, BinaryMoves, LoopTypeOK
<1>9. CASE UNCHANGED vars
  BY <1>1, <1>2, <1>9 DEF vars
<1> QED
  BY <1>3, <1>4, <1>5, <1>6, <1>7, <1>8, <1>9 DEF Next

(***************************************************************************)
(* The variables of the pid file and of the loops keep their types, and no *)
(* intensity leaves 0 .. 100 %.                                            *)
(***************************************************************************)
THEOREM ChokerTypeCorrect == Spec => []TypeOK
<1>1. Init => TypeOK
  BY PidTypeInit, LoopTypeInit DEF Init, TypeOK
<1> QED
  BY <1>1, TypeStep, PTL DEF Spec

-----------------------------------------------------------------------------
(* lookbusy *)

\* lookbusy exists for a daemon in its loop only (or outlives a killed one),
\* reads what the controller believes, and before it was first started the
\* controller believes 0 %.
LookbusyInv ==
  \A d \in Daemons :
    /\ proc[d] \notin {"up", "killed"} => lookbusy[d] = "none"
    /\ proc[d] # "up" \/ lookbusy[d] = "none" => intensity[d] = 0
    /\ proc[d] = "up" /\ lookbusy[d] = "alive"
       => control[d] = intensity[d] /\ last[d] \in {control[d], 0}

\* Steps of the pid file protocol that leave everybody's loop alone.
LEMMA LookbusyPidStep ==
  ASSUME TypeOK, LookbusyInv, UNCHANGED loopVars,
         \A d \in Daemons :
           /\ proc'[d] = "up" => lookbusy[d] = "none" \/ proc[d] = "up"
           /\ proc'[d] \notin {"up", "killed"} =>
                proc[d] \notin {"up", "killed"}
           /\ proc'[d] # "up" => proc[d] # "up"
  PROVE  LookbusyInv'
  BY DEF LookbusyInv, IsRunning, loopVars

\* One iteration of the loop.
LEMMA LookbusyApply ==
  ASSUME TypeOK, LookbusyInv, NEW d \in Daemons, proc[d] = "up", Apply(d),
         UNCHANGED pidVars
  PROVE  LookbusyInv'
<1> USE DEF LookbusyInv, IsRunning, TypeOK, LoopTypeOK, pidVars
<1>1. CASE Yield(d) \/ YieldRaises(d)
  BY <1>1 DEF Yield, YieldRaises
<1>2. CASE StayIdle(d)
  BY <1>2 DEF StayIdle
<1>3. CASE Keep(d)
  BY <1>3 DEF Keep
<1>4. CASE Adjust(d)
  <2>1. Wanted(d) \in Levels
    BY <1>4, WantedIsLevel DEF Adjust, NewLevel, Act
  <2> QED
    BY <1>4, <2>1 DEF Adjust
<1>5. CASE StartFails(d)
  BY <1>5 DEF StartFails, Raises
<1>6. CASE AdjustRaises(d)
  BY <1>6 DEF AdjustRaises, Raises
<1>7. CASE StartedUntold(d)
  BY <1>7 DEF StartedUntold, Raises
<1> QED
  BY <1>1, <1>2, <1>3, <1>4, <1>5, <1>6, <1>7 DEF Apply

LEMMA LookbusyStep == TypeOK /\ LookbusyInv /\ [Next]_vars => LookbusyInv'
<1> SUFFICES ASSUME TypeOK, LookbusyInv, [Next]_vars PROVE LookbusyInv'
  OBVIOUS
<1>1. ASSUME NEW c \in Commands, CommandStep(c), UNCHANGED loopVars
      PROVE  LookbusyInv'
  <2>1. proc' = proc \/ \E d \in Daemons :
          proc[d] = "idle" /\ proc' = [proc EXCEPT ![d] = "checking"]
    BY <1>1 DEF CommandStep, BeginStart, StartClears, Spawn, BeginStop,
                StopWaited, StopRemoves
  <2> QED
    BY <1>1, <2>1, LookbusyPidStep DEF TypeOK, PidTypeOK
<1>2. ASSUME NEW d \in Daemons,
             Run(d) \/ AcquireStep(d) \/ ReleaseStep(d), UNCHANGED loopVars
      PROVE  LookbusyInv'
  <2>1. \E p \in ProcStates :
          /\ proc' = [proc EXCEPT ![d] = p]
          /\ proc[d] \notin {"up", "killed"}
    BY <1>2 DEF Run, AcquireStep, Check, ClearStale, OpenFile, WriteFile,
                ReleaseStep, ReleaseRead, Unlink, ProcStates
  <2> QED
    BY <1>2, <2>1, LookbusyPidStep DEF TypeOK, PidTypeOK, LookbusyInv
<1>3. ASSUME NEW d \in Daemons, BeginStep(d) PROVE LookbusyInv'
  BY <1>3 DEF BeginStep, Sample, pidVars, LookbusyInv, IsRunning
<1>4. ASSUME NEW d \in Daemons, EndStep(d) PROVE LookbusyInv'
  BY <1>4, LookbusyApply DEF EndStep
<1>5. ASSUME NEW d \in Daemons, Finish(d) PROVE LookbusyInv'
  BY <1>5 DEF Finish, Shutdown, Forget, LeaveLoop, LookbusyInv, IsRunning,
              TypeOK, PidTypeOK, LoopTypeOK
<1>6. ASSUME NEW d \in Daemons, Crash(d) PROVE LookbusyInv'
  BY <1>6 DEF Crash, Orphan, Forget, KillDaemon, LookbusyInv, IsRunning,
              TypeOK, PidTypeOK, LoopTypeOK
<1>7. ASSUME NEW d \in Daemons, LookbusyDies(d) PROVE LookbusyInv'
  BY <1>7 DEF LookbusyDies, Dies, pidVars, LookbusyInv, IsRunning, TypeOK,
              LoopTypeOK
<1>8. ASSUME NEW d \in Daemons, Interrupt(d) PROVE LookbusyInv'
  BY <1>8 DEF Interrupt, loopVars, LookbusyInv, IsRunning
<1>9. CASE (ExternalLoad \/ BinaryMoves) /\ UNCHANGED pidVars
  BY <1>9 DEF ExternalLoad, BinaryMoves, pidVars, LookbusyInv, IsRunning
<1>10. CASE UNCHANGED vars
  BY <1>10 DEF vars, pidVars, loopVars, LookbusyInv, IsRunning
<1> QED
  BY <1>1, <1>2, <1>3, <1>4, <1>5, <1>6, <1>7, <1>8, <1>9, <1>10 DEF Next

LEMMA LookbusyInit == Init => LookbusyInv
  BY DEF Init, PidInit, LoopInit, LookbusyInv, IsRunning

(***************************************************************************)
(* A daemon that skips an unchanged intensity skips nothing: what it       *)
(* remembers to have set is what lookbusy reads, whichever settings and    *)
(* clean-ups of settings raised before.                                    *)
(***************************************************************************)
THEOREM BelievedIntensityHolds == Spec => []BelievedIntensityIsSet
<1>1. LookbusyInv => BelievedIntensityIsSet
  BY DEF LookbusyInv, BelievedIntensityIsSet
<1> QED
  BY <1>1, LookbusyInit, LookbusyStep, ChokerTypeCorrect, PTL DEF Spec

-----------------------------------------------------------------------------
(* Leaving *)

\* The pid of a daemon that is over is not in the file.
GoneInv == \A d \in Daemons : proc[d] = "exited" => ~Names(d)

LEMMA GoneStep == TypeOK /\ GoneInv /\ [Next]_vars => GoneInv'
<1> SUFFICES ASSUME TypeOK, GoneInv, [Next]_vars PROVE GoneInv'
  OBVIOUS
<1> USE PidFileAssumption DEF GoneInv, Names, TypeOK, PidTypeOK
<1>1. ASSUME NEW c \in Commands, CommandStep(c) PROVE GoneInv'
  BY <1>1 DEF CommandStep, BeginStart, StartClears, Spawn, BeginStop,
              StopWaited, StopRemoves
<1>2. ASSUME NEW d \in Daemons, Run(d) \/ AcquireStep(d) PROVE GoneInv'
  <2>1. CASE Run(d) \/ Check(d) \/ ClearStale(d)
    BY <2>1 DEF Run, Check, ClearStale
  <2>2. CASE OpenFile(d)
    BY <2>2 DEF OpenFile
  <2>3. CASE WriteFile(d)
    BY <2>3 DEF WriteFile
  <2> QED
    BY <1>2, <2>1, <2>2, <2>3 DEF AcquireStep
<1>3. ASSUME NEW d \in Daemons, ReleaseStep(d) PROVE GoneInv'
  BY <1>3 DEF ReleaseStep, ReleaseRead, Unlink
<1>4. ASSUME NEW d \in Daemons, Finish(d) \/ Crash(d) PROVE GoneInv'
  BY <1>4 DEF Finish, LeaveLoop, Crash, KillDaemon
<1>5. ASSUME NEW d \in Daemons, Interrupt(d) PROVE GoneInv'
  BY <1>5 DEF Interrupt
<1>6. CASE UNCHANGED pidVars
  BY <1>6 DEF pidVars
<1> QED
  BY <1>1, <1>2, <1>3, <1>4, <1>5, <1>6
     DEF Next, BeginStep, EndStep, LookbusyDies, vars

(***************************************************************************)
(* However commands and daemons race, a daemon that ran its course leaves  *)
(* no lookbusy process and no pid behind.                                  *)
(***************************************************************************)
THEOREM CleanExitHolds == Spec => []CleanExitLeavesNothing
<1>1. Init => GoneInv
  BY DEF Init, PidInit, GoneInv
<1>2. LookbusyInv /\ GoneInv => CleanExitLeavesNothing
  BY DEF LookbusyInv, GoneInv, CleanExitLeavesNothing
<1> QED
  BY <1>1, <1>2, LookbusyInit, LookbusyStep, GoneStep, ChokerTypeCorrect, PTL
     DEF Spec

-----------------------------------------------------------------------------
(* One command after the other *)

Engaged(c) == cmd[c] \notin {"idle", "done"}
Acquiring(d) == proc[d] \in {"checking", "clearing", "opening", "writing"}
Holding(d) == proc[d] \in {"up", "releasing", "unlinking"}

\* What serial commands come down to.
OneAtATime ==
  /\ \A c, e \in Commands : Engaged(c) /\ Engaged(e) => c = e
  /\ \A d, e \in Daemons : Acquiring(d) /\ Acquiring(e) => d = e
  /\ \A c \in Commands, d \in Daemons : ~(Engaged(c) /\ Acquiring(d))

\* Whoever is about to remove or replace the file has seen that no daemon
\* holds it, or has seen the only one that did go.
HeldInv ==
  /\ \A d \in Daemons : Holding(d) => Names(d)
  /\ \A d \in Daemons :
       /\ proc[d] \in {"clearing", "opening", "writing"} =>
            \A e \in Daemons : ~Holding(e)
       /\ proc[d] = "opening" => path = None
       /\ proc[d] = "writing" => handle[d] = path
  /\ \A c \in Commands :
       /\ cmd[c] \in {"clearing", "removing"} =>
            \A e \in Daemons : ~Holding(e)
       /\ cmd[c] = "waiting" => \A e \in Daemons : Holding(e) => e = target[c]

LEMMA OneAtATimeStep ==
  ASSUME Serial
  PROVE  TypeOK /\ OneAtATime /\ [Next]_vars => OneAtATime'
<1> SUFFICES ASSUME TypeOK, OneAtATime, [Next]_vars PROVE OneAtATime'
  OBVIOUS
<1> USE DEF OneAtATime, Engaged, Acquiring, TypeOK, PidTypeOK
<1>1. ASSUME NEW c \in Commands, CommandStep(c) PROVE OneAtATime'
  <2>1. CASE BeginStart(c) \/ BeginStop(c)
    <3>1. Quiescent /\ proc' = proc
      BY <2>1 DEF BeginStart, BeginStop, MayBegin
    <3>2. \A e \in Commands : e # c => cmd'[e] = cmd[e]
      BY <2>1 DEF BeginStart, BeginStop
    <3> QED
      BY <3>1, <3>2 DEF Quiescent
  <2>2. CASE StartClears(c) \/ StopWaited(c) \/ StopRemoves(c)
    BY <2>2 DEF StartClears, StopWaited, StopRemoves
  <2>3. ASSUME NEW d \in Daemons, Spawn(c, d) PROVE OneAtATime'
    BY <2>3 DEF Spawn
  <2> QED
    BY <1>1, <2>1, <2>2, <2>3 DEF CommandStep
<1>2. ASSUME NEW d \in Daemons, Run(d) PROVE OneAtATime'
  BY <1>2 DEF Run, MayBegin, Quiescent
<1>3. ASSUME NEW d \in Daemons,
             AcquireStep(d) \/ ReleaseStep(d) \/ LeaveLoop(d) \/ KillDaemon(d)
      PROVE  OneAtATime'
  <2>1. /\ cmd' = cmd
        /\ \A e \in Daemons : e # d => proc'[e] = proc[e]
        /\ Acquiring(d)' => Acquiring(d)
    BY <1>3 DEF AcquireStep, Check, ClearStale, OpenFile, WriteFile,
                ReleaseStep, ReleaseRead, Unlink, LeaveLoop, KillDaemon
  <2> QED
    BY <2>1
<1>4. ASSUME NEW d \in Daemons, Interrupt(d) PROVE OneAtATime'
  BY <1>4 DEF Interrupt
<1>5. CASE UNCHANGED pidVars
  BY <1>5 DEF pidVars
<1> QED
  BY <1>1, <1>2, <1>3, <1>4, <1>5
     DEF Next, BeginStep, EndStep, Finish, Crash, LookbusyDies, vars

LEMMA HeldStep ==
  ASSUME Serial
  PROVE  TypeOK /\ OneAtATime /\ HeldInv /\ [Next]_vars => HeldInv'
<1> SUFFICES ASSUME TypeOK, OneAtATime, HeldInv, [Next]_vars PROVE HeldInv'
  OBVIOUS
<1> USE PidFileAssumption
    DEF HeldInv, Names, Holding, TypeOK, PidTypeOK
\* A status that is not "running" has seen no daemon that holds the file.
<1>1. ~Running => \A e \in Daemons : ~Holding(e)
  BY DEF Running, Alive
<1>2. ASSUME NEW c \in Commands, CommandStep(c) PROVE HeldInv'
  <2>1. CASE BeginStart(c)
    BY <1>1, <2>1 DEF BeginStart
  <2>2. CASE StartClears(c)
    <3>1. \A d \in Daemons : ~Acquiring(d)
      BY <2>2 DEF StartClears, OneAtATime, Engaged
    <3>2. \A e \in Daemons : ~Holding(e)
      BY <2>2 DEF StartClears
    <3> QED
      BY <2>2, <3>1, <3>2 DEF StartClears, Acquiring
  <2>3. ASSUME NEW d \in Daemons, Spawn(c, d) PROVE HeldInv'
    BY <2>3 DEF Spawn
  <2>4. CASE BeginStop(c)
    <3>1. CASE Stopped /\ cmd' = [cmd EXCEPT ![c] = "done"]
               /\ UNCHANGED <<path, text, handle, proc, target, asked>>
      BY <3>1
    <3>2. CASE StaleOrInvalid /\ cmd' = [cmd EXCEPT ![c] = "removing"]
               /\ UNCHANGED <<path, text, handle, proc, target, asked>>
      BY <1>1, <3>2 DEF StaleOrInvalid
    <3>3. ASSUME NEW d \in Daemons, Names(d),
                 cmd' = [cmd EXCEPT ![c] = "waiting"],
                 target' = [target EXCEPT ![c] = d],
                 UNCHANGED <<path, text, handle, proc>>
          PROVE  HeldInv'
      BY <3>3
    <3> QED
      BY <2>4, <3>1, <3>2, <3>3 DEF BeginStop
  <2>5. CASE StopWaited(c)
    BY <2>5 DEF StopWaited, Alive
  <2>6. CASE StopRemoves(c)
    <3>1. \A d \in Daemons : ~Acquiring(d)
      BY <2>6 DEF StopRemoves, OneAtATime, Engaged
    <3>2. \A e \in Daemons : ~Holding(e)
      BY <2>6 DEF StopRemoves
    <3> QED
      BY <2>6, <3>1, <3>2 DEF StopRemoves, Acquiring
  <2> QED
    BY <1>2, <2>1, <2>2, <2>3, <2>4, <2>5, <2>6 DEF CommandStep
<1>3. ASSUME NEW d \in Daemons, Run(d) PROVE HeldInv'
  BY <1>3 DEF Run
<1>4. ASSUME NEW d \in Daemons, AcquireStep(d) PROVE HeldInv'
  <2>1. /\ \A e \in Daemons : e # d => ~Acquiring(e)
        /\ \A c \in Commands : ~Engaged(c)
    BY <1>4 DEF OneAtATime, AcquireStep, Check, ClearStale, OpenFile, WriteFile,
                Acquiring
  <2>2. CASE Check(d)
    BY <1>1, <2>2 DEF Check, Stopped
  <2>3. CASE ClearStale(d)
    BY <2>1, <2>3 DEF ClearStale, Acquiring
  <2>4. CASE OpenFile(d)
    BY <2>1, <2>4 DEF OpenFile, Acquiring
  <2>5. CASE WriteFile(d)
    BY <2>1, <2>5 DEF WriteFile, Acquiring, Engaged
  <2> QED
    BY <1>4, <2>2, <2>3, <2>4, <2>5 DEF AcquireStep
<1>5. ASSUME NEW d \in Daemons, ReleaseStep(d) PROVE HeldInv'
  <2>1. CASE ReleaseRead(d)
    BY <2>1 DEF ReleaseRead
  <2>2. CASE Unlink(d)
    BY <2>2 DEF Unlink
  <2> QED
    BY <1>5, <2>1, <2>2 DEF ReleaseStep
<1>6. ASSUME NEW d \in Daemons, LeaveLoop(d) \/ KillDaemon(d) PROVE HeldInv'
  BY <1>6 DEF LeaveLoop, KillDaemon
<1>7. ASSUME NEW d \in Daemons, Interrupt(d) PROVE HeldInv'
  BY <1>7 DEF Interrupt
<1>8. CASE UNCHANGED pidVars
  BY <1>8 DEF pidVars
<1> QED
  BY <1>2, <1>3, <1>4, <1>5, <1>6, <1>7, <1>8
     DEF Next, BeginStep, EndStep, Finish, Crash, LookbusyDies, vars

(***************************************************************************)
(* When nobody gives a command before the last one is over, a daemon in    *)
(* its loop is the one the pid file names, whatever crashes and whatever   *)
(* the crashes left in the file; so there is never more than one.          *)
(***************************************************************************)
THEOREM SerialStatusFindsDaemon ==
  ASSUME Serial
  PROVE  Spec => []StatusFindsDaemon
<1>1. Init => OneAtATime /\ HeldInv
  BY DEF Init, PidInit, OneAtATime, HeldInv, Engaged, Acquiring, Holding
<1>2. HeldInv => StatusFindsDaemon
  BY DEF HeldInv, Holding, StatusFindsDaemon
<1> QED
  BY <1>1, <1>2, OneAtATimeStep, HeldStep, ChokerTypeCorrect, PTL DEF Spec
=============================================================================
