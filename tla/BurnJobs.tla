------------------------------- MODULE BurnJobs -------------------------------
(***************************************************************************)
(* UI/backend/burn_controller.py: the life of a burn job.                  *)
(*                                                                         *)
(* The backend is one asyncio event loop, so the code between two awaits   *)
(* is one atomic step and every await is a point where any other task may  *)
(* run.  A start request plans one job per target, checks the plans        *)
(* against job_registry, copies a waveform to every target, launches a     *)
(* burner on each of them and, when the pid comes back, registers the job, *)
(* announces it and starts its completion timer.  Stop requests and the    *)
(* stop that follows a minute without any WebSocket client pop jobs, kill  *)
(* their process and announce their end.                                   *)
(*                                                                         *)
(* One unit of time is five seconds.                                       *)
(***************************************************************************)
EXTENDS Integers, FiniteSets

CONSTANTS
  Machines,          \* machine ids of config.toml
  Jobs,              \* fresh job ids: the uuid4 suffixes of _build_plans
  Requests,          \* POST /api/burn/start calls
  NoPlan,            \* the plan of an id that has not been handed out
  Durations,         \* values of -t, in units of time
  Delays,            \* values of delay_seconds, in units of time
  Lead,              \* the head start of a "delayed" burn: 5 s
  Grace,             \* the gap kept between two windows: 5 s
  LastAdmission,     \* bound: no start request is admitted after this time
  LastBase,          \* bound: no scheduled base time is later than this
  DuplicateTargets,  \* may one request list a machine twice?
  SendErrors,        \* bound: whose broadcasts may meet a socket that raises
                     \* other than RuntimeError: "start", "timer", "user"
  Stoppers           \* who may stop jobs: "user", "grace"

ASSUME JobsAssumption ==
  /\ Durations \subseteq Nat
  /\ Delays \subseteq Nat
  /\ Lead \in Nat
  /\ Grace \in Nat
  /\ LastAdmission \in Nat
  /\ LastBase \in Nat
  /\ DuplicateTargets \in BOOLEAN
  /\ Stoppers \subseteq {"user", "grace"}
  /\ SendErrors \subseteq {"start", "timer", "user"}

VARIABLES
  now,        \* the clock
  linked,     \* machines whose SSH status is "connected"
  req,        \* how far each start request is
  plan,       \* the PlannedJob of each id
  phase,      \* how far the coroutines that start each job are
  registry,   \* ids in job_registry
  startedAt,  \* JobInfo.started_at of the ids that were registered
  remote,     \* the burner process of each job, on its machine
  timer,      \* the _auto_complete task of each job
  stop,       \* the _stop_single tasks, by who asked for them
  notices,    \* burn_stopped events sent to every client, for each id
  lost        \* ids popped by a stop that was cancelled, or by a stop or a
              \* timer whose burn_stopped was cut short by a client's socket

vars == <<now, linked, req, plan, phase, registry, startedAt, remote, timer,
          stop, notices, lost>>

Modes == {"immediate", "delayed", "scheduled"}

ReqStates == {"idle", "copying", "starting", "ok", "error"}
Phases == {"unplanned", "copying", "copied", "copy_failed", "launching",
           "launch_failed", "announcing", "untimed", "tracked"}
RemoteStates == {"none", "running", "exited"}
TimerStates == {"none", "sleeping", "announcing", "done", "cancelled"}
StopStates == {"idle", "resolved", "killing", "announcing", "ended",
               "cancelled"}

Plans == [req : Requests, machine : Machines, start : Nat, duration : Nat,
          timed : BOOLEAN, over : SUBSET Jobs]

TypeOK ==
  /\ now \in Nat
  /\ linked \subseteq Machines
  /\ req \in [Requests -> ReqStates]
  /\ plan \in [Jobs -> Plans \cup {NoPlan}]
  /\ phase \in [Jobs -> Phases]
  /\ \A j \in Jobs : phase[j] # "unplanned" => plan[j] \in Plans
  /\ registry \subseteq Jobs
  /\ startedAt \in [Jobs -> Nat]
  /\ remote \in [Jobs -> RemoteStates]
  /\ timer \in [Jobs -> TimerStates]
  /\ stop \in [Stoppers -> [Jobs -> StopStates]]
  /\ notices \in [Jobs -> Nat]
  /\ lost \subseteq Jobs

Init ==
  /\ now = 0
  /\ linked = Machines
  /\ req = [r \in Requests |-> "idle"]
  /\ plan = [j \in Jobs |-> NoPlan]
  /\ phase = [j \in Jobs |-> "unplanned"]
  /\ registry = {}
  /\ startedAt = [j \in Jobs |-> 0]
  /\ remote = [j \in Jobs |-> "none"]
  /\ timer = [j \in Jobs |-> "none"]
  /\ stop = [s \in Stoppers |-> [j \in Jobs |-> "idle"]]
  /\ notices = [j \in Jobs |-> 0]
  /\ lost = {}

-----------------------------------------------------------------------------
(* Helpers *)

\* _windows_overlap
Overlap(start1, end1, start2, end2) ==
  /\ start1 < end2 + Grace
  /\ start2 < end1 + Grace

\* Mutant: the check that a scheduled time is in the future is gone.
BaseTimes_mutant(mode) ==
  IF mode = "scheduled" THEN (now - 1) .. LastBase
  ELSE {IF mode = "delayed" THEN now + Lead ELSE now}

\* The base times a request of this mode can have now.
BaseTimes(mode) ==
  IF mode = "scheduled" THEN (now + 1) .. LastBase
  ELSE {IF mode = "delayed" THEN now + Lead ELSE now}

\* The jobs of a request.
JobsOf(r) == {j \in Jobs : phase[j] # "unplanned" /\ plan[j].req = r}

\* When the backend expects a registered job to be over.
ExpectedEnd(j) == startedAt[j] + plan[j].duration

\* Mutant: the time of the reply is taken for every job.
StartStamp_mutant(j) == now

\* The started_at of a job whose pid has just come back: the planned time if
\* the burner was given one, the time of the reply if it starts at once.
StartStamp(j) == IF plan[j].timed THEN plan[j].start ELSE now

-----------------------------------------------------------------------------
(* Starting *)

\* _check_overlaps, for one planned job: only job_registry is consulted.
FreeOf(m, start, duration) ==
  \A k \in registry :
    plan[k].machine = m =>
      ~Overlap(start, start + duration, startedAt[k], ExpectedEnd(k))

\* start_burn down to its first await: the targets are validated, a job is
\* planned for each and the plans are compared with the registry.  A request
\* that fails any of it answers an error and leaves no trace.
Admit(r, mode, base, duration, host, delay) ==
  LET J        == DOMAIN host
      timed    == mode # "immediate"
      start(j) == IF timed THEN base + delay[j] ELSE now
  IN  /\ req[r] = "idle"
      /\ now <= LastAdmission
      /\ J # {}
      /\ \A j \in J : phase[j] = "unplanned" /\ host[j] \in linked
      /\ DuplicateTargets \/ \A i, j \in J : host[i] = host[j] => i = j
      /\ \A j \in J : FreeOf(host[j], start(j), duration)
      /\ req' = [req EXCEPT ![r] = "copying"]
      /\ plan' = [j \in Jobs |->
                    IF j \in J
                    THEN [req |-> r, machine |-> host[j], start |-> start(j),
                          duration |-> duration, timed |-> timed,
                          over |-> registry]
                    ELSE plan[j]]
      /\ phase' = [j \in Jobs |-> IF j \in J THEN "copying" ELSE phase[j]]
      /\ UNCHANGED <<now, linked, registry, startedAt, remote, timer, stop,
                     notices, lost>>

\* _copy_waveform returns.
CopyDone(j) ==
  /\ phase[j] = "copying"
  /\ plan[j].machine \in linked
  /\ phase' = [phase EXCEPT ![j] = "copied"]
  /\ UNCHANGED <<now, linked, req, plan, registry, startedAt, remote, timer,
                 stop, notices, lost>>

\* Mutant: the exception of a copy is kept among the gather's results.
CopyFails_mutant(j) ==
  /\ phase[j] = "copying"
  /\ phase' = [phase EXCEPT ![j] = "copy_failed"]
  /\ UNCHANGED <<now, linked, req, plan, registry, startedAt, remote, timer,
                 stop, notices, lost>>

\* _copy_waveform raises: the gather raises too and the request is over, but
\* the other copies of the gather keep running.
CopyFails(j) ==
  /\ phase[j] = "copying"
  /\ phase' = [phase EXCEPT ![j] = "copy_failed"]
  /\ req' = [req EXCEPT ![plan[j].req] = "error"]
  /\ UNCHANGED <<now, linked, plan, registry, startedAt, remote, timer, stop,
                 notices, lost>>

\* Mutant: each target is launched as soon as its own copy is done.
BeginLaunch_mutant(r) ==
  /\ req[r] = "copying"
  /\ \E j \in JobsOf(r) : phase[j] = "copied"
  /\ phase' = [j \in Jobs |-> IF j \in JobsOf(r) /\ phase[j] = "copied"
                              THEN "launching" ELSE phase[j]]
  /\ UNCHANGED <<now, linked, req, plan, registry, startedAt, remote, timer,
                 stop, notices, lost>>

\* Every copy returned: start_burn creates the _start_single coroutines.
BeginLaunch(r) ==
  /\ req[r] = "copying"
  /\ \A j \in JobsOf(r) : phase[j] = "copied"
  /\ req' = [req EXCEPT ![r] = "starting"]
  /\ phase' = [j \in Jobs |-> IF j \in JobsOf(r) THEN "launching" ELSE phase[j]]
  /\ UNCHANGED <<now, linked, plan, registry, startedAt, remote, timer, stop,
                 notices, lost>>

\* The start command runs on the machine: `nohup ./burner ... & echo $!`.
Launch(j) ==
  /\ phase[j] = "launching"
  /\ remote[j] = "none"
  /\ plan[j].machine \in linked
  /\ remote' = [remote EXCEPT ![j] = "running"]
  /\ UNCHANGED <<now, linked, req, plan, phase, registry, startedAt, timer,
                 stop, notices, lost>>

\* Its output comes back: the job is registered and burn_started goes out.
Registered(j) ==
  /\ phase[j] = "launching"
  /\ remote[j] # "none"
  /\ plan[j].machine \in linked
  /\ phase' = [phase EXCEPT ![j] = "announcing"]
  /\ registry' = registry \cup {j}
  /\ startedAt' = [startedAt EXCEPT ![j] = StartStamp(j)]
  /\ UNCHANGED <<now, linked, req, plan, remote, timer, stop, notices, lost>>

\* The command fails, its reply is lost or no pid can be read from it.  The
\* request answers an error; the burner may be running all the same.
LaunchFails(j) ==
  /\ phase[j] = "launching"
  /\ phase' = [phase EXCEPT ![j] = "launch_failed"]
  /\ req' = [req EXCEPT ![plan[j].req] = "error"]
  /\ UNCHANGED <<now, linked, plan, registry, startedAt, remote, timer, stop,
                 notices, lost>>

\* Mutant: no completion task for a job that starts at once.
Announced_mutant(j) ==
  /\ phase[j] = "announcing"
  /\ phase' = [phase EXCEPT ![j] = "tracked"]
  /\ timer' = [timer EXCEPT ![j] = IF plan[j].timed THEN "sleeping" ELSE @]
  /\ UNCHANGED <<now, linked, req, plan, registry, startedAt, remote, stop,
                 notices, lost>>

\* burn_started is out: only now is the completion task created, whether the
\* job is still registered or not.
Announced(j) ==
  /\ phase[j] = "announcing"
  /\ phase' = [phase EXCEPT ![j] = "tracked"]
  /\ timer' = [timer EXCEPT ![j] = "sleeping"]
  /\ UNCHANGED <<now, linked, req, plan, registry, startedAt, remote, stop,
                 notices, lost>>

\* A client's socket raises something other than RuntimeError, which broadcast
\* lets through: the request answers an error and the job stays registered
\* without a completion task.
AnnounceRaises(j) ==
  /\ "start" \in SendErrors
  /\ phase[j] = "announcing"
  /\ phase' = [phase EXCEPT ![j] = "untimed"]
  /\ req' = [req EXCEPT ![plan[j].req] = "error"]
  /\ UNCHANGED <<now, linked, plan, registry, startedAt, remote, timer, stop,
                 notices, lost>>

\* The last _start_single returned.
Answer(r) ==
  /\ req[r] = "starting"
  /\ \A j \in JobsOf(r) : phase[j] = "tracked"
  /\ req' = [req EXCEPT ![r] = "ok"]
  /\ UNCHANGED <<now, linked, plan, phase, registry, startedAt, remote, timer,
                 stop, notices, lost>>

-----------------------------------------------------------------------------
(* Ending *)

\* Mutant: the end is announced whether or not the job was still registered.
Expire_mutant(j) ==
  /\ timer[j] = "sleeping"
  /\ now >= ExpectedEnd(j)
  /\ timer' = [timer EXCEPT ![j] = "announcing"]
  /\ registry' = registry \ {j}
  /\ UNCHANGED <<now, linked, req, plan, phase, startedAt, remote, stop,
                 notices, lost>>

\* _auto_complete wakes up and pops the job, unless a stop already has.
Expire(j) ==
  /\ timer[j] = "sleeping"
  /\ now >= ExpectedEnd(j)
  /\ timer' = [timer EXCEPT ![j] =
                 IF j \in registry THEN "announcing" ELSE "done"]
  /\ registry' = registry \ {j}
  /\ UNCHANGED <<now, linked, req, plan, phase, startedAt, remote, stop,
                 notices, lost>>

\* Its burn_stopped is out.
ExpireTold(j) ==
  /\ timer[j] = "announcing"
  /\ timer' = [timer EXCEPT ![j] = "done"]
  /\ notices' = [notices EXCEPT ![j] = @ + 1]
  /\ UNCHANGED <<now, linked, req, plan, phase, registry, startedAt, remote,
                 stop, lost>>

\* A client's socket raises: the task dies of it, with the job popped and some
\* of the clients not told.
ExpireRaises(j) ==
  /\ "timer" \in SendErrors
  /\ timer[j] = "announcing"
  /\ timer' = [timer EXCEPT ![j] = "done"]
  /\ lost' = lost \cup {j}
  /\ UNCHANGED <<now, linked, req, plan, phase, registry, startedAt, remote,
                 stop, notices>>

\* stop_burn resolves the ids to stop and creates a _stop_single for each.
Resolve(s, J) ==
  /\ J # {}
  /\ stop' = [stop EXCEPT ![s] =
                [j \in Jobs |-> IF j \in J THEN "resolved" ELSE @[j]]]
  /\ UNCHANGED <<now, linked, req, plan, phase, registry, startedAt, remote,
                 timer, notices, lost>>

\* POST /api/burn/stop, or the stop that disconnect_machine begins with.
UserStop == "user" \in Stoppers /\ \E J \in SUBSET registry : Resolve("user", J)

GraceActive ==
  "grace" \in Stoppers /\ \E j \in Jobs : stop["grace"][j] \in {"resolved", "killing", "announcing"}

\* _grace_stop: no client for 60 s, so _stop_all_jobs stops every job.  The
\* hub never has two of these tasks.
GraceStop ==
  "grace" \in Stoppers /\ ~GraceActive /\ Resolve("grace", registry)

\* Mutant: the job is looked up when the ids are resolved and popped blindly.
Pop_mutant(s, j) ==
  /\ stop[s][j] = "resolved"
  /\ stop' = [stop EXCEPT ![s][j] = "killing"]
  /\ registry' = registry \ {j}
  /\ timer' = [timer EXCEPT ![j] = IF @ = "sleeping" THEN "cancelled" ELSE @]
  /\ UNCHANGED <<now, linked, req, plan, phase, startedAt, remote, notices,
                 lost>>

\* _stop_single pops the job and cancels its timer.  A job that is no longer
\* there is somebody else's.
Pop(s, j) ==
  /\ stop[s][j] = "resolved"
  /\ stop' = [stop EXCEPT ![s][j] = IF j \in registry THEN "killing" ELSE "ended"]
  /\ registry' = registry \ {j}
  /\ timer' = [timer EXCEPT ![j] =
                 IF j \in registry /\ @ = "sleeping" THEN "cancelled" ELSE @]
  /\ UNCHANGED <<now, linked, req, plan, phase, startedAt, remote, notices,
                 lost>>

\* What `kill` leaves of a burner.
Killed(state) == IF state = "running" THEN "exited" ELSE state

\* The kill command returns.
Kill(s, j) ==
  /\ stop[s][j] = "killing"
  /\ plan[j].machine \in linked
  /\ stop' = [stop EXCEPT ![s][j] = "announcing"]
  /\ remote' = [remote EXCEPT ![j] = Killed(@)]
  /\ UNCHANGED <<now, linked, req, plan, phase, registry, startedAt, timer,
                 notices, lost>>

\* The kill command raises, before or after it took effect; _stop_single
\* swallows the exception.
KillFails(s, j) ==
  /\ stop[s][j] = "killing"
  /\ stop' = [stop EXCEPT ![s][j] = "announcing"]
  /\ remote' \in {remote, [remote EXCEPT ![j] = Killed(@)]}
  /\ UNCHANGED <<now, linked, req, plan, phase, registry, startedAt, timer,
                 notices, lost>>

\* burn_stopped is out.
StopTold(s, j) ==
  /\ stop[s][j] = "announcing"
  /\ stop' = [stop EXCEPT ![s][j] = "ended"]
  /\ notices' = [notices EXCEPT ![j] = @ + 1]
  /\ UNCHANGED <<now, linked, req, plan, phase, registry, startedAt, remote,
                 timer, lost>>

\* A client's socket raises.  A grace stop has no client to send to.
StopRaises(s, j) ==
  /\ s \in SendErrors
  /\ stop[s][j] = "announcing"
  /\ stop' = [stop EXCEPT ![s][j] = "ended"]
  /\ lost' = lost \cup {j}
  /\ UNCHANGED <<now, linked, req, plan, phase, registry, startedAt, remote,
                 timer, notices>>

\* The jobs a grace stop has popped and not finished with.
GraceOwned == {j \in Jobs : stop["grace"][j] \in {"killing", "announcing"}}

\* What cancelling a _stop_single leaves of it.
Cancelled(state) ==
  IF state \in {"killing", "announcing"} THEN "cancelled"
  ELSE IF state = "resolved" THEN "idle" ELSE state

\* A client connects while a grace stop is under way: WebSocketHub.connect
\* cancels the task, and the CancelledError reaches every _stop_single, which
\* catches Exception only.  The kill commands in flight may have landed.
GraceCancelled ==
  /\ GraceActive
  /\ lost' = lost \cup GraceOwned
  /\ \E K \in SUBSET {j \in Jobs : stop["grace"][j] = "killing"} :
       remote' = [j \in Jobs |-> IF j \in K THEN Killed(remote[j]) ELSE remote[j]]
  /\ stop' = [stop EXCEPT !["grace"] =
                [j \in Jobs |-> Cancelled(@[j])]]
  /\ UNCHANGED <<now, linked, req, plan, phase, registry, startedAt, timer,
                 notices>>

-----------------------------------------------------------------------------
(* The machines and the clock *)

\* The burner reaches the end of its -t, or dies.
RemoteExit(j) ==
  /\ remote[j] = "running"
  /\ remote' = [remote EXCEPT ![j] = "exited"]
  /\ UNCHANGED <<now, linked, req, plan, phase, registry, startedAt, timer,
                 stop, notices, lost>>

\* SSHManager.disconnect, and a later connect.
Unlink(m) ==
  /\ linked' = linked \ {m}
  /\ UNCHANGED <<now, req, plan, phase, registry, startedAt, remote, timer,
                 stop, notices, lost>>

Link(m) ==
  /\ linked' = linked \cup {m}
  /\ UNCHANGED <<now, req, plan, phase, registry, startedAt, remote, timer,
                 stop, notices, lost>>

\* Bound: the clock stops when nothing is left to wait for, and the requests
\* under way at LastAdmission are answered before it goes on.
Tick ==
  /\ \/ now < LastAdmission
     \/ /\ \E j \in Jobs : timer[j] = "sleeping" /\ now < ExpectedEnd(j)
        /\ \A j \in Jobs : phase[j] \notin {"copying", "copied", "launching",
                                            "announcing"}
  /\ now' = now + 1
  /\ UNCHANGED <<linked, req, plan, phase, registry, startedAt, remote, timer,
                 stop, notices, lost>>

-----------------------------------------------------------------------------

StartBurn(r) ==
  \E mode \in Modes, J \in SUBSET Jobs, duration \in Durations :
    \E base \in BaseTimes(mode), host \in [J -> Machines],
       delay \in [J -> Delays] :
      Admit(r, mode, base, duration, host, delay)

Next ==
  \/ \E r \in Requests : StartBurn(r) \/ BeginLaunch(r) \/ Answer(r)
  \/ \E j \in Jobs :
       \/ CopyDone(j)
       \/ CopyFails(j)
       \/ Launch(j)
       \/ Registered(j)
       \/ LaunchFails(j)
       \/ Announced(j)
       \/ AnnounceRaises(j)
       \/ Expire(j)
       \/ ExpireTold(j)
       \/ ExpireRaises(j)
       \/ RemoteExit(j)
  \/ \E s \in Stoppers, j \in Jobs :
       \/ Pop(s, j)
       \/ Kill(s, j)
       \/ KillFails(s, j)
       \/ StopTold(s, j)
       \/ StopRaises(s, j)
  \/ UserStop
  \/ GraceStop
  \/ GraceCancelled
  \/ \E m \in Machines : Unlink(m) \/ Link(m)
  \/ Tick

Spec == Init /\ [][Next]_vars

\* The event loop runs every task that is ready; asyncssh answers a call or,
\* after its keepalive gives up, raises; sends to a client end or raise.
\* Nothing is assumed of users, clients and burners.
Fairness ==
  /\ \A r \in Requests : WF_vars(BeginLaunch(r)) /\ WF_vars(Answer(r))
  /\ \A j \in Jobs :
       /\ WF_vars(CopyDone(j) \/ CopyFails(j))
       /\ WF_vars(Registered(j) \/ LaunchFails(j))
       /\ WF_vars(Announced(j) \/ AnnounceRaises(j))
       /\ WF_vars(Expire(j))
       /\ WF_vars(ExpireTold(j) \/ ExpireRaises(j))
  /\ \A s \in Stoppers, j \in Jobs :
       /\ WF_vars(Pop(s, j))
       /\ WF_vars(Kill(s, j) \/ KillFails(s, j))
       /\ WF_vars(StopTold(s, j) \/ StopRaises(s, j))
  /\ WF_vars(Tick)

FairSpec == Spec /\ Fairness

-----------------------------------------------------------------------------
(* Safety *)

\* Who is taking a job out: its timer, or a stop.
Ending(j) == timer[j] = "announcing"
StopEnding(s, j) == stop[s][j] \in {"killing", "announcing"}

(***************************************************************************)
(* However stops, a completion timer, a late reply of the start command, a *)
(* cancelled grace stop and broadcasts that raise interleave, at most one  *)
(* broadcast is ever begun to say that a job stopped, and only for a job   *)
(* that left job_registry (_stop_single and _auto_complete share the       *)
(* dict's pop as their claim).                                             *)
(***************************************************************************)
StoppedAtMostOnce ==
  \A j \in Jobs :
    /\ notices[j] <= 1
    /\ notices[j] = 1 \/ j \in lost => j \notin registry
    /\ ~(notices[j] = 1 /\ j \in lost)

(***************************************************************************)
(* When one target's copy fails the whole burn is off: no burner of that   *)
(* request is ever launched, on any machine, and none of its jobs is ever  *)
(* registered (start_burn awaits all copies before the first launch).      *)
(***************************************************************************)
CopyFailureLaunchesNothing ==
  \A i, j \in Jobs :
    /\ phase[i] = "copy_failed"
    /\ phase[j] # "unplanned"
    /\ plan[i].req = plan[j].req
    => remote[j] = "none" /\ j \notin registry

(***************************************************************************)
(* A delayed or scheduled job admitted while another job was registered    *)
(* keeps clear of it, five seconds included, for as long as both are       *)
(* registered, whatever happened during the awaits in between.             *)
(***************************************************************************)
TimedKeepsClear ==
  \A j, k \in registry :
    /\ plan[j].timed
    /\ k \in plan[j].over
    /\ plan[j].machine = plan[k].machine
    => ~Overlap(startedAt[j], ExpectedEnd(j), startedAt[k], ExpectedEnd(k))

(***************************************************************************)
(* UI/REQUIREMENTS.md:433: jobs of one machine never overlap.              *)
(***************************************************************************)
NoOverlap ==
  \A j, k \in registry :
    j # k /\ plan[j].machine = plan[k].machine
    => ~Overlap(startedAt[j], ExpectedEnd(j), startedAt[k], ExpectedEnd(k))

(***************************************************************************)
(* UI/REQUIREMENTS.md:431: a stopped job is killed, unregistered and       *)
(* announced; no stop drops a job from the registry and then forgets it.   *)
(***************************************************************************)
NothingLost == lost = {}

-----------------------------------------------------------------------------
(* Liveness *)

(***************************************************************************)
(* Every registered job eventually leaves the registry and is announced,   *)
(* or was lost (a cancelled grace stop, a burn_stopped that raised), even  *)
(* when its stop came before its completion timer was created.  The one    *)
(* job that may stay is one whose burn_started raised, so that line 289    *)
(* never created its timer; and that one too goes as soon as a stop that   *)
(* is not itself cancelled names it.                                       *)
(***************************************************************************)
EveryJobEnds ==
  \A j \in Jobs :
    /\ (j \in registry) ~>
         (notices[j] = 1 \/ j \in lost \/ phase[j] = "untimed")
    /\ \A s \in Stoppers :
         (j \in registry /\ stop[s][j] = "resolved") ~>
           (j \notin registry \/ stop[s][j] = "idle")

(***************************************************************************)
(* Every start request is answered, whichever of its copies, launches and  *)
(* announcements fail and in whatever order.                               *)
(***************************************************************************)
EveryRequestAnswered ==
  \A r \in Requests : (req[r] # "idle") ~> (req[r] \in {"ok", "error"})

-----------------------------------------------------------------------------
(* Refinement *)

\* The ledger stage of each job id.
StageOf(j) ==
  IF j \in registry THEN "live"
  ELSE IF j \in lost THEN "lost"
  ELSE IF notices[j] > 0 THEN "ended"
  ELSE IF phase[j] \in {"announcing", "untimed", "tracked"} THEN "ending"
  ELSE "absent"

Ledger == INSTANCE JobLedger WITH
            ledger <- [j \in Jobs |-> StageOf(j)],
            told <- notices

(***************************************************************************)
(* The burn controller implements the job ledger: an id is registered      *)
(* once, is popped by one owner, and that owner tells its end or loses it, *)
(* but does not keep it half ended for ever.                               *)
(***************************************************************************)
LedgerSpec == Ledger!FairSpec

=============================================================================
