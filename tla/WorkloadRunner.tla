--------------------------- MODULE WorkloadRunner ---------------------------
(***************************************************************************)
(* workloads/runner.py: one CPU workload job on a machine, and the stop    *)
(* command that workload_controller.py sends it.                           *)
(*                                                                         *)
(* run_job forks workers that run a tool (openssl, pigz, make) over and    *)
(* over.  They share a multiprocessing.Event, and the workers inherit the  *)
(* runner's SIGTERM handler, which sets it.  An Event guards its flag with *)
(* a lock that is not recursive: a signal that finds its process inside    *)
(* is_set or set has its handler wait for that very process, for ever, and *)
(* the lock with it.                                                       *)
(*                                                                         *)
(* Time is kept by one rule: timeouts (5 s, 2 s) run out only when no      *)
(* process has a quick step left to do.                                    *)
(***************************************************************************)
CONSTANTS
  Workers,     \* the worker processes
  Runner,      \* the process that runs run_job
  None         \* nobody

ASSUME ProcsAssumption == Runner \notin Workers /\ None \notin Workers \cup {Runner}

VARIABLES
  pc,          \* where each process is
  pend,        \* processes with a SIGTERM whose handler has not finished
  stuck,       \* processes whose handler waits for the process itself
  lock,        \* who is inside the Event's lock
  event,       \* stop_event
  tool,        \* workers whose tool is running
  late,        \* is the deadline over?
  temp,        \* is temp_root there?
  orphaned,    \* was a worker killed with its tool running?
  stop,        \* how far the stop command is
  early,       \* did its SIGTERM come when there were quick steps to do?
  slain        \* was the runner ended by a signal?

vars == <<pc, pend, stuck, lock, event, tool, late, temp, orphaned, stop,
          early, slain>>

Procs == Workers \cup {Runner}

RunnerPlaces == {"delayed", "made", "starting", "watching", "looking",
                 "setting", "marking", "joining", "rejoining", "cleaning",
                 "exiting", "gone"}
WorkerPlaces == {"none", "checking", "looking", "launching", "waiting", "gone"}

TypeOK ==
  /\ pc[Runner] \in RunnerPlaces
  /\ \A w \in Workers : pc[w] \in WorkerPlaces
  /\ DOMAIN pc = Procs
  /\ pend \subseteq Procs
  /\ stuck \subseteq pend
  /\ lock \in Procs \cup {None}
  /\ tool \subseteq {w \in Workers : pc[w] \in {"waiting", "gone"}}
  /\ {event, late, temp, orphaned, early, slain} \subseteq BOOLEAN
  /\ stop \in {"idle", "waiting", "done", "missed"}

Init ==
  /\ pc = [p \in Procs |-> IF p = Runner THEN "delayed" ELSE "none"]
  /\ pend = {}
  /\ stuck = {}
  /\ lock = None
  /\ event = FALSE
  /\ tool = {}
  /\ late = FALSE
  /\ temp = FALSE
  /\ orphaned = FALSE
  /\ stop = "idle"
  /\ early = FALSE
  /\ slain = FALSE

-----------------------------------------------------------------------------
(* The shared event *)

\* A signal handler comes before anything else a process does.
Free(p) == p \notin pend

Go(p, place) == pc' = [pc EXCEPT ![p] = place]

\* The processes there are.
Present == {p \in Procs : pc[p] \notin {"none", "gone"}}
Alone == \A w \in Workers : w \notin Present

\* is_set and set take the lock; where they were called from says which.  The
\* runner looks at its clock first, a worker last.
Inside == [watching |-> "looking", checking |-> "looking", setting |-> "marking"]

AtLock(p) == pc[p] \in DOMAIN Inside /\ ~(pc[p] = "watching" /\ late)

Acquire(p) ==
  /\ Free(p)
  /\ lock = None
  /\ AtLock(p)
  /\ lock' = p
  /\ Go(p, Inside[pc[p]])
  /\ UNCHANGED <<pend, stuck, event, tool, late, temp, orphaned, stop, early,
                 slain>>

\* A process that leaves the lock goes by what it saw there.
After(p) ==
  IF pc[p] = "marking" THEN "joining"
  ELSE IF p = Runner THEN IF event THEN "setting" ELSE "watching"
  ELSE IF event \/ late THEN "gone" ELSE "launching"

Release(p) ==
  /\ lock = p
  /\ p \notin stuck
  /\ p \in Present
  /\ lock' = None
  /\ event' = (event \/ pc[p] = "marking")
  /\ Go(p, After(p))
  /\ pend' = IF After(p) = "gone" THEN pend \ {p} ELSE pend
  /\ UNCHANGED <<stuck, tool, late, temp, orphaned, stop, early, slain>>

\* The handler runs outside the lock, waiting for others if need be,
Handle(p) ==
  /\ p \in pend
  /\ lock = None
  /\ event' = TRUE
  /\ pend' = pend \ {p}
  /\ UNCHANGED <<pc, stuck, lock, tool, late, temp, orphaned, stop, early,
                 slain>>

\* or inside it.
GetStuck(p) ==
  /\ p \in pend
  /\ lock = p
  /\ p \in Present
  /\ stuck' = stuck \cup {p}
  /\ UNCHANGED <<pc, pend, lock, event, tool, late, temp, orphaned, stop,
                 early, slain>>

\* Nobody will get the lock any more.
LockLost == lock # None /\ (lock \in stuck \/ lock \notin Present)

Blocked(p) ==
  \/ p \in stuck
  \/ LockLost /\ (p \in pend \/ AtLock(p))

\* No worker has a quick step left.
WorkersSettled ==
  \A w \in Workers \cap Present : Blocked(w) \/ (Free(w) /\ w \in tool)

Joining == pc[Runner] \in {"joining", "rejoining"} /\ Free(Runner) /\ ~Alone

Settled == WorkersSettled /\ (Blocked(Runner) \/ Joining)

-----------------------------------------------------------------------------
(* run_job *)

\* The job's delay is over; run_job begins with mkdtemp.
MakeTemp ==
  /\ pc[Runner] = "delayed"
  /\ Go(Runner, "made")
  /\ temp' = TRUE
  /\ UNCHANGED <<pend, stuck, lock, event, tool, late, orphaned, stop, early,
                 slain>>

InstallHandlers ==
  /\ pc[Runner] = "made"
  /\ Go(Runner, "starting")
  /\ UNCHANGED <<pend, stuck, lock, event, tool, late, temp, orphaned, stop,
                 early, slain>>

StartWorker(w) ==
  /\ pc[Runner] = "starting"
  /\ Free(Runner)
  /\ pc[w] = "none"
  /\ Go(w, "checking")
  /\ UNCHANGED <<pend, stuck, lock, event, tool, late, temp, orphaned, stop,
                 early, slain>>

AllStarted ==
  /\ pc[Runner] = "starting"
  /\ Free(Runner)
  /\ \A w \in Workers : pc[w] # "none"
  /\ Go(Runner, "watching")
  /\ UNCHANGED <<pend, stuck, lock, event, tool, late, temp, orphaned, stop,
                 early, slain>>

\* The deadline: everybody's, whenever it is looked at next.
Deadline ==
  /\ ~late
  /\ pc[Runner] \notin {"delayed", "made"}
  /\ late' = TRUE
  /\ UNCHANGED <<pc, pend, stuck, lock, event, tool, temp, orphaned, stop,
                 early, slain>>

TimeIsUp ==
  /\ pc[Runner] = "watching"
  /\ Free(Runner)
  /\ late
  /\ Go(Runner, "setting")
  /\ UNCHANGED <<pend, stuck, lock, event, tool, late, temp, orphaned, stop,
                 early, slain>>

\* Mutant: run_job returns as soon as its workers are joined.
Joined_mutant ==
  /\ pc[Runner] \in {"joining", "rejoining"}
  /\ Free(Runner)
  /\ Alone
  /\ Go(Runner, "exiting")
  /\ UNCHANGED <<pend, stuck, lock, event, tool, late, temp, orphaned, stop,
                 early, slain>>

\* All joins returned: the finally clause restores the handlers.
Joined ==
  /\ pc[Runner] \in {"joining", "rejoining"}
  /\ Free(Runner)
  /\ Alone
  /\ Go(Runner, "cleaning")
  /\ UNCHANGED <<pend, stuck, lock, event, tool, late, temp, orphaned, stop,
                 early, slain>>

\* join(timeout=5) ran out: terminate sends a SIGTERM to the workers, whose
\* handler it runs.
Terminate ==
  /\ pc[Runner] = "joining"
  /\ Joining
  /\ WorkersSettled
  /\ Go(Runner, "rejoining")
  /\ pend' = pend \cup (Workers \cap Present)
  /\ UNCHANGED <<stuck, lock, event, tool, late, temp, orphaned, stop, early,
                 slain>>

\* The 5 s of a stop command that came early are over before these 5 s + 2 s.
KillIsDue ==
  /\ pc[Runner] = "rejoining"
  /\ Joining
  /\ WorkersSettled
  /\ stop = "waiting" => ~early

\* Mutant: nobody is killed.
Kill_mutant ==
  /\ KillIsDue
  /\ Go(Runner, "cleaning")
  /\ UNCHANGED <<pend, stuck, lock, event, tool, late, temp, orphaned, stop,
                 early, slain>>

\* join(timeout=2) ran out too: kill.  Tools are not told.
Kill ==
  /\ KillIsDue
  /\ pc' = [p \in Procs |-> IF p = Runner THEN "cleaning"
                            ELSE IF p \in Present THEN "gone" ELSE pc[p]]
  /\ pend' = pend \cap {Runner}
  /\ stuck' = stuck \cap {Runner}
  /\ orphaned' = (orphaned \/ tool # {})
  /\ UNCHANGED <<lock, event, tool, late, temp, stop, early, slain>>

\* rmtree removes temp_root, unless the tool of
\* a killed worker puts another file into it.
Clean ==
  /\ pc[Runner] = "cleaning"
  /\ temp' \in {FALSE, tool # {}}
  /\ Go(Runner, "exiting")
  /\ UNCHANGED <<pend, stuck, lock, event, tool, late, orphaned, stop, early,
                 slain>>

\* multiprocessing joins its children when the interpreter ends.
Exit ==
  /\ pc[Runner] = "exiting"
  /\ Alone
  /\ Go(Runner, "gone")
  /\ UNCHANGED <<pend, stuck, lock, event, tool, late, temp, orphaned, stop,
                 early, slain>>

-----------------------------------------------------------------------------
(* Workers *)

\* Mutant: the tool is started and not waited for.
Launch_mutant(w) ==
  /\ pc[w] = "launching"
  /\ Free(w)
  /\ tool' = tool \cup {w}
  /\ Go(w, "checking")
  /\ UNCHANGED <<pend, stuck, lock, event, late, temp, orphaned, stop, early,
                 slain>>

\* subprocess.run starts a tool; the quick make clean before a make is part
\* of this step, and so is going on after a signal has ended it.
Launch(w) ==
  /\ pc[w] = "launching"
  /\ Free(w)
  /\ tool' = tool \cup {w}
  /\ Go(w, "waiting")
  /\ UNCHANGED <<pend, stuck, lock, event, late, temp, orphaned, stop, early,
                 slain>>

\* An iteration of the Python loop, or of a tool that is missing.
Compute(w) ==
  /\ pc[w] = "launching"
  /\ Free(w)
  /\ Go(w, "checking")
  /\ UNCHANGED <<pend, stuck, lock, event, tool, late, temp, orphaned, stop,
                 early, slain>>

\* subprocess.run returns when the tool is gone.
Reap(w) ==
  /\ pc[w] = "waiting"
  /\ Free(w)
  /\ w \notin tool
  /\ Go(w, "checking")
  /\ UNCHANGED <<pend, stuck, lock, event, tool, late, temp, orphaned, stop,
                 early, slain>>

ToolEnds(w) ==
  /\ w \in tool
  /\ tool' = tool \ {w}
  /\ UNCHANGED <<pc, pend, stuck, lock, event, late, temp, orphaned, stop,
                 early, slain>>

-----------------------------------------------------------------------------
(* _stop_command *)

\* The runner has no handler before run_job and after its finally clause.
Unprotected == pc[Runner] \in {"delayed", "made", "cleaning", "exiting"}

\* kill -TERM -- -pid: to the runner, its workers and their tools
SignalGroup ==
  /\ stop = "idle"
  /\ Runner \in Present
  /\ stop' = "waiting"
  /\ tool' = {}
  /\ early' = ~Settled
  /\ slain' = Unprotected
  /\ IF Unprotected
     THEN Go(Runner, "gone") /\ pend' = pend
     ELSE pend' = Present /\ pc' = pc
  /\ UNCHANGED <<stuck, lock, event, late, temp, orphaned>>

\* kill -0 fails: there is nothing to stop.
FindsNobody ==
  /\ stop = "idle"
  /\ Runner \notin Present
  /\ stop' = "missed"
  /\ UNCHANGED <<pc, pend, stuck, lock, event, tool, late, temp, orphaned,
                 early, slain>>

\* kill -0 fails within 5 s: exit 0.
SeesExit ==
  /\ stop = "waiting"
  /\ Runner \notin Present
  /\ stop' = "done"
  /\ UNCHANGED <<pc, pend, stuck, lock, event, tool, late, temp, orphaned,
                 early, slain>>

\* Mutant: only the runner is killed.
KillGroup_mutant ==
  /\ stop = "waiting"
  /\ Runner \in Present
  /\ Settled
  /\ stop' = "done"
  /\ slain' = TRUE
  /\ Go(Runner, "gone")
  /\ pend' = pend \ {Runner}
  /\ stuck' = stuck \ {Runner}
  /\ UNCHANGED <<lock, event, tool, late, temp, orphaned, early>>

\* The 5 s are over: kill -KILL -- -pid.
KillGroup ==
  /\ stop = "waiting"
  /\ Runner \in Present
  /\ Settled
  /\ stop' = "done"
  /\ slain' = TRUE
  /\ pc' = [p \in Procs |-> IF p \in Present THEN "gone" ELSE pc[p]]
  /\ pend' = {}
  /\ stuck' = {}
  /\ tool' = {}
  /\ UNCHANGED <<lock, event, late, temp, orphaned, early>>

-----------------------------------------------------------------------------

RunJob ==
  \/ InstallHandlers \/ (\E w \in Workers : StartWorker(w))
  \/ AllStarted \/ TimeIsUp \/ Joined \/ Terminate \/ Kill \/ Clean \/ Exit

Stop == SignalGroup \/ FindsNobody \/ SeesExit \/ KillGroup

Next ==
  \/ MakeTemp
  \/ RunJob
  \/ Deadline
  \/ Stop
  \/ \E p \in Procs : Acquire(p) \/ Release(p) \/ Handle(p) \/ GetStuck(p)
  \/ \E w \in Workers : Launch(w) \/ Compute(w) \/ Reap(w) \/ ToolEnds(w)

Spec == Init /\ [][Next]_vars

\* Processes run; the lock is free between any two iterations of a worker, so
\* whoever wants it gets it.  Nothing is assumed of tools, nor of somebody
\* sending a stop command.
Fairness ==
  /\ WF_vars(RunJob)
  /\ WF_vars(Deadline)
  /\ WF_vars(SeesExit \/ KillGroup)
  /\ \A p \in Procs :
       SF_vars(Acquire(p)) /\ WF_vars(Release(p)) /\ SF_vars(Handle(p))
  /\ \A w \in Workers : WF_vars(Launch(w) \/ Compute(w)) /\ WF_vars(Reap(w))

FairSpec == Spec /\ Fairness

-----------------------------------------------------------------------------
(* Properties *)

(***************************************************************************)
(* docs/workloads.md: a stop sends SIGTERM to the process group, waits up  *)
(* to five seconds and sends SIGKILL.  When that command is over nothing   *)
(* of the job runs any more: no runner, no worker, stuck or not, and no    *)
(* tool, not even one started after the SIGTERM.                           *)
(***************************************************************************)
StopLeavesNothing == stop = "done" => Present = {} /\ tool = {}

(***************************************************************************)
(* docs/workloads.md: the runner exits and cleans its temporary directory. *)
(* A runner that ends by itself has no worker left, and leaves its         *)
(* temporary directory only when it had to kill a worker in the middle of  *)
(* a tool, which then goes on writing.                                     *)
(***************************************************************************)
ExitCleans ==
  pc[Runner] = "gone" /\ ~slain => Alone /\ (temp \/ tool # {} => orphaned)

(***************************************************************************)
(* A job that has begun ends, although its tools may never do so and its   *)
(* processes may get stuck in their own signal handlers.                   *)
(***************************************************************************)
RunnerEnds == pc[Runner] = "made" ~> pc[Runner] = "gone"
=============================================================================
