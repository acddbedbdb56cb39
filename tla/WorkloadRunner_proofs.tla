----------------------- MODULE WorkloadRunner_proofs ------------------------
(***************************************************************************)
(* Proofs about WorkloadRunner, for any set of workers.                    *)
(***************************************************************************)
EXTENDS WorkloadRunner, TLAPS

\* The parts of TypeOK the proofs need, and what goes with them: whoever has
\* the lock is inside it or died there, and stuck processes are among them.
Basics ==
  /\ pc \in [Procs -> RunnerPlaces \cup WorkerPlaces]
  /\ \A w \in Workers : pc[w] \in WorkerPlaces
  /\ pc[Runner] \in RunnerPlaces
  /\ pend \subseteq Procs
  /\ lock \in Procs \cup {None}
  /\ tool \subseteq {w \in Workers : pc[w] \in {"waiting", "gone"}}
  /\ lock # None => pc[lock] \in {"looking", "marking", "gone"}
  /\ \A p \in stuck : p \in pend /\ p = lock /\ p \in Present

LEMMA BasicsHold == Spec => []Basics
<1> USE ProcsAssumption
    DEF Basics, Procs, RunnerPlaces, WorkerPlaces, Present, Go, Free
<1>1. Init => Basics
  BY DEF Init
<1>2. Basics /\ [Next]_vars => Basics'
  <2> SUFFICES ASSUME Basics, [Next]_vars PROVE Basics'
    OBVIOUS
  <2>1. CASE MakeTemp \/ InstallHandlers \/ Deadline
    BY <2>1 DEF MakeTemp, InstallHandlers, Deadline
  <2>2. ASSUME NEW w \in Workers, StartWorker(w) PROVE Basics'
    BY <2>2 DEF StartWorker
  <2>3. CASE AllStarted \/ TimeIsUp \/ Joined \/ Clean \/ Exit
    BY <2>3 DEF AllStarted, TimeIsUp, Joined, Clean, Exit
  <2>4. CASE Terminate
    BY <2>4 DEF Terminate
  <2>5. CASE Kill
    BY <2>5 DEF Kill, KillIsDue, Joining
  <2>6. CASE SignalGroup
    BY <2>6 DEF SignalGroup, Unprotected
  <2>7. CASE FindsNobody \/ SeesExit
    BY <2>7 DEF FindsNobody, SeesExit
  <2>8. CASE KillGroup
    BY <2>8 DEF KillGroup
  <2>9. ASSUME NEW p \in Procs, Acquire(p) PROVE Basics'
    BY <2>9 DEF Acquire, AtLock, Inside
  <2>10. ASSUME NEW p \in Procs, Release(p) PROVE Basics'
    BY <2>10 DEF Release, After
  <2>11. ASSUME NEW p \in Procs, Handle(p) \/ GetStuck(p) PROVE Basics'
    BY <2>11 DEF Handle, GetStuck
  <2>12. ASSUME NEW w \in Workers,
                Launch(w) \/ Compute(w) \/ Reap(w) \/ ToolEnds(w)
         PROVE  Basics'
    BY <2>12 DEF Launch, Compute, Reap, ToolEnds
  <2>13. CASE UNCHANGED vars
    BY <2>13 DEF vars
  <2> QED
    BY <2>1, <2>2, <2>3, <2>4, <2>5, <2>6, <2>7, <2>8, <2>9, <2>10, <2>11,
       <2>12, <2>13 DEF Next, RunJob, Stop
<1> QED
  BY <1>1, <1>2, PTL DEF Spec

\* The rest of TypeOK
Flags ==
  /\ {event, late, temp, orphaned, early, slain} \subseteq BOOLEAN
  /\ stop \in {"idle", "waiting", "done", "missed"}

(***************************************************************************)
(* The variables keep their types, for any set of workers.                 *)
(***************************************************************************)
THEOREM RunnerTypeCorrect == Spec => []TypeOK
<1> USE DEF Flags
<1>1. Init => Flags
  BY DEF Init
<1>2. Flags /\ [Next]_vars => Flags'
  <2> SUFFICES ASSUME Flags, [Next]_vars PROVE Flags'
    OBVIOUS
  <2>1. CASE MakeTemp \/ Deadline \/ RunJob
    <3>1. CASE Clean
      BY <3>1, Zenon DEF Clean
    <3>2. CASE Kill
      BY <3>2, Zenon DEF Kill
    <3>3. CASE MakeTemp \/ Deadline
      BY <3>3 DEF MakeTemp, Deadline
    <3>4. ASSUME \/ InstallHandlers \/ AllStarted \/ TimeIsUp
                 \/ Joined \/ Terminate \/ Exit
          PROVE  Flags'
      BY <3>4, Zenon
         DEF InstallHandlers, AllStarted, TimeIsUp, Joined, Terminate, Exit
    <3>5. ASSUME NEW w \in Workers, StartWorker(w) PROVE Flags'
      BY <3>5, Zenon DEF StartWorker
    <3> QED
      BY <2>1, <3>1, <3>2, <3>3, <3>4, <3>5, Zenon DEF RunJob
  <2>2. CASE Stop
    <3>1. CASE SignalGroup
      <4>1. /\ early' = ~Settled
            /\ slain' = Unprotected
            /\ stop' = "waiting"
            /\ UNCHANGED <<event, late, temp, orphaned>>
        BY <3>1 DEF SignalGroup
      <4>2. Settled \in BOOLEAN
        BY Zenon DEF Settled
      <4>3. Unprotected \in BOOLEAN
        BY DEF Unprotected
      <4> QED
        BY <4>1, <4>2, <4>3
    <3> QED
      BY <2>2, <3>1 DEF Stop, FindsNobody, SeesExit, KillGroup
  <2>3. ASSUME NEW p \in Procs, Acquire(p) \/ Handle(p) \/ GetStuck(p)
        PROVE  Flags'
    BY <2>3 DEF Acquire, Handle, GetStuck
  <2>4. ASSUME NEW p \in Procs, Release(p) PROVE Flags'
    BY <2>4, Zenon DEF Release
  <2>5. ASSUME NEW w \in Workers,
               Launch(w) \/ Compute(w) \/ Reap(w) \/ ToolEnds(w)
        PROVE  Flags'
    BY <2>5 DEF Launch, Compute, Reap, ToolEnds
  <2>6. CASE UNCHANGED vars
    BY <2>6 DEF vars
  <2> QED
    BY <2>1, <2>2, <2>3, <2>4, <2>5, <2>6 DEF Next
<1>3. Basics /\ Flags => TypeOK
  BY DEF Basics, TypeOK, Procs
<1> QED
  BY <1>1, <1>2, <1>3, BasicsHold, PTL DEF Spec

\* There are workers only between the forks and the joins, or the kill.
WorkersInRun ==
  /\ pc[Runner] \in {"delayed", "made"} => \A w \in Workers : pc[w] = "none"
  /\ pc[Runner] \in {"cleaning", "exiting", "gone"} => Alone

\* A tool without its worker, and what is left after it, comes of a kill.
OrphansAreKnown ==
  /\ \A w \in tool : pc[w] = "gone" => orphaned
  /\ pc[Runner] \in {"exiting", "gone"} /\ ~slain => (temp => orphaned)

ExitInv == WorkersInRun /\ OrphansAreKnown

LEMMA ExitInductive == Spec => []ExitInv
<1> USE ProcsAssumption
    DEF Basics, ExitInv, WorkersInRun, OrphansAreKnown, Procs, RunnerPlaces,
        WorkerPlaces, Present, Alone, Go, Free
<1>1. Init => ExitInv
  BY DEF Init
<1>2. Basics /\ ExitInv /\ [Next]_vars => ExitInv'
  <2> SUFFICES ASSUME Basics, ExitInv, [Next]_vars PROVE ExitInv'
    OBVIOUS
  <2>1. CASE MakeTemp \/ InstallHandlers \/ Deadline
    BY <2>1 DEF MakeTemp, InstallHandlers, Deadline
  <2>2. ASSUME NEW w \in Workers, StartWorker(w) PROVE ExitInv'
    BY <2>2 DEF StartWorker
  <2>3. CASE AllStarted \/ TimeIsUp \/ Joined \/ Terminate \/ Exit
    BY <2>3 DEF AllStarted, TimeIsUp, Joined, Terminate, Exit, Joining
  <2>4. CASE Clean
    BY <2>4 DEF Clean
  <2>5. CASE Kill
    BY <2>5 DEF Kill, KillIsDue, Joining
  <2>6. CASE SignalGroup
    BY <2>6 DEF SignalGroup, Unprotected
  <2>7. CASE FindsNobody \/ SeesExit
    BY <2>7 DEF FindsNobody, SeesExit
  <2>8. CASE KillGroup
    BY <2>8 DEF KillGroup
  <2>9. ASSUME NEW p \in Procs, Acquire(p) PROVE ExitInv'
    BY <2>9 DEF Acquire, AtLock, Inside
  <2>10. ASSUME NEW p \in Procs, Release(p) PROVE ExitInv'
    BY <2>10 DEF Release, After
  <2>11. ASSUME NEW p \in Procs, Handle(p) \/ GetStuck(p) PROVE ExitInv'
    BY <2>11 DEF Handle, GetStuck
  <2>12. ASSUME NEW w \in Workers,
                Launch(w) \/ Compute(w) \/ Reap(w) \/ ToolEnds(w)
         PROVE  ExitInv'
    BY <2>12 DEF Launch, Compute, Reap, ToolEnds
  <2>13. CASE UNCHANGED vars
    BY <2>13 DEF vars
  <2> QED
    BY <2>1, <2>2, <2>3, <2>4, <2>5, <2>6, <2>7, <2>8, <2>9, <2>10, <2>11,
       <2>12, <2>13 DEF Next, RunJob, Stop
<1> QED
  BY <1>1, <1>2, BasicsHold, PTL DEF Spec

(***************************************************************************)
(* A runner that ends by itself leaves no worker, and leaves files or a    *)
(* tool only where it had to kill a worker in the middle of one.           *)
(***************************************************************************)
THEOREM ExitCleansHolds == Spec => []ExitCleans
<1>1. Basics /\ ExitInv => ExitCleans
  BY DEF Basics, ExitInv, WorkersInRun, OrphansAreKnown, ExitCleans, Alone,
         Present, WorkerPlaces, Procs
<1> QED
  BY <1>1, BasicsHold, ExitInductive, PTL

-----------------------------------------------------------------------------
(* The stop command *)

\* The group was signalled when nothing quick was left to do: then the workers
\* wait, and will see the signal before anything else; or all who are there
\* wait for a lock that is lost; or the event is set, and nobody begins a tool.
Quieted ==
  \/ event /\ \A w \in Workers : pc[w] # "launching"
  \/ LockLost /\ Present \subseteq pend
  \/ /\ \A w \in Workers \cap Present : pc[w] = "waiting" /\ w \in pend
     /\ pc[Runner] \in {"joining", "rejoining", "cleaning", "exiting", "gone"}

StopInv ==
  /\ stop = "waiting" => \A w \in tool : pc[w] = "waiting"
  /\ stop = "waiting" /\ ~early => tool = {} /\ Quieted
  /\ StopLeavesNothing

\* Losing the lock is for good, but for the kill of the whole group.
LEMMA LostLock ==
  Basics /\ LockLost /\ [Next]_vars => LockLost' \/ stop' = "done"
<1> SUFFICES ASSUME Basics, LockLost, [Next]_vars, stop' # "done"
             PROVE  LockLost'
  OBVIOUS
<1> USE ProcsAssumption
    DEF Basics, Procs, Present, Go, LockLost, RunnerPlaces, WorkerPlaces
<1>1. CASE MakeTemp \/ InstallHandlers \/ Deadline
  BY <1>1 DEF MakeTemp, InstallHandlers, Deadline
<1>2. ASSUME NEW w \in Workers, StartWorker(w) PROVE LockLost'
  BY <1>2 DEF StartWorker
<1>3. CASE AllStarted \/ TimeIsUp \/ Joined \/ Terminate \/ Clean \/ Exit
  BY <1>3 DEF AllStarted, TimeIsUp, Joined, Terminate, Clean, Exit, Joining
<1>4. CASE Kill
  BY <1>4 DEF Kill, KillIsDue
<1>5. CASE SignalGroup \/ FindsNobody
  BY <1>5 DEF SignalGroup, FindsNobody
<1>6. CASE SeesExit \/ KillGroup
  BY <1>6 DEF SeesExit, KillGroup
<1>7. ASSUME NEW p \in Procs,
             Acquire(p) \/ Release(p) \/ Handle(p) \/ GetStuck(p)
      PROVE  LockLost'
  BY <1>7 DEF Acquire, Release, Handle, GetStuck
<1>8. ASSUME NEW w \in Workers,
             Launch(w) \/ Compute(w) \/ Reap(w) \/ ToolEnds(w)
      PROVE  LockLost'
  BY <1>8 DEF Launch, Compute, Reap, ToolEnds
<1>9. CASE UNCHANGED vars
  BY <1>9 DEF vars
<1> QED
  BY <1>1, <1>2, <1>3, <1>4, <1>5, <1>6, <1>7, <1>8, <1>9
     DEF Next, RunJob, Stop

\* The signal finds the group with nothing quick left to do.
LEMMA SignalQuiets ==
  Basics /\ ExitInv /\ SignalGroup /\ ~early' => tool' = {} /\ Quieted'
<1> SUFFICES ASSUME Basics, ExitInv, SignalGroup, ~early'
             PROVE  tool' = {} /\ Quieted'
  OBVIOUS
<1> USE ProcsAssumption DEF Basics, Procs, RunnerPlaces, WorkerPlaces, Present
<1>1. Settled
  BY Zenon DEF SignalGroup
<1>2. tool' = {} /\ lock' = lock /\ stuck' = stuck /\ Runner \in Present
  BY DEF SignalGroup
<1>3. CASE Unprotected
  <2>1. pc' = [pc EXCEPT ![Runner] = "gone"]
    BY <1>3 DEF SignalGroup, Go
  <2>2. \A w \in Workers : w \notin Present
    BY <1>3 DEF Unprotected, ExitInv, WorkersInRun, Alone
  <2>3. pc'[Runner] = "gone" /\ \A w \in Workers : w \notin Present'
    BY <2>1, <2>2
  <2> QED
    BY <1>2, <2>3 DEF Quieted
<1>4. CASE ~Unprotected
  <2>1. pend' = Present /\ pc' = pc
    BY <1>4 DEF SignalGroup
  <2>2. CASE LockLost
    <3>1. LockLost' /\ Present' \subseteq pend'
      BY <1>2, <2>1, <2>2 DEF LockLost
    <3> QED
      BY <1>2, <3>1 DEF Quieted
  <2>3. CASE ~LockLost
    <3>1. \A p \in Procs : ~Blocked(p)
      BY <2>3 DEF LockLost, Blocked
    <3>2. \A w \in Workers \cap Present : w \in tool
      BY <1>1, <3>1 DEF Settled, WorkersSettled
    <3>3. pc[Runner] \in {"joining", "rejoining"}
      BY <1>1, <3>1 DEF Settled, Joining
    <3>4. \A w \in Workers \cap Present : pc[w] = "waiting"
      BY <3>2
    <3> QED
      BY <1>2, <2>1, <3>3, <3>4 DEF Quieted
  <2> QED
    BY <2>2, <2>3
<1> QED
  BY <1>3, <1>4

\* A step after that begins no tool and keeps it that way.
LEMMA StaysQuiet ==
  Basics /\ tool = {} /\ Quieted /\ [Next]_vars /\ stop # "idle"
    => tool' = {} /\ (Quieted' \/ stop' = "done")
<1> SUFFICES ASSUME Basics, tool = {}, Quieted, [Next]_vars, stop # "idle"
             PROVE  tool' = {} /\ (Quieted' \/ stop' = "done")
  OBVIOUS
<1> USE ProcsAssumption
    DEF Basics, Procs, Present, Go, Free, RunnerPlaces, WorkerPlaces
<1>1. CASE event /\ \A w \in Workers : pc[w] # "launching"
  <2> SUFFICES tool' = {} /\ event' /\ \A w \in Workers : pc'[w] # "launching"
    BY DEF Quieted
  <2>1. CASE MakeTemp \/ InstallHandlers \/ Deadline
    BY <1>1, <2>1 DEF MakeTemp, InstallHandlers, Deadline
  <2>2. ASSUME NEW w \in Workers, StartWorker(w)
        PROVE  tool' = {} /\ event' /\ \A v \in Workers : pc'[v] # "launching"
    BY <1>1, <2>2 DEF StartWorker
  <2>3. CASE AllStarted \/ TimeIsUp \/ Joined \/ Terminate \/ Clean \/ Exit
    BY <1>1, <2>3 DEF AllStarted, TimeIsUp, Joined, Terminate, Clean, Exit
  <2>4. CASE Kill
    BY <1>1, <2>4 DEF Kill
  <2>5. CASE SignalGroup \/ FindsNobody \/ SeesExit
    BY <1>1, <2>5 DEF SignalGroup, FindsNobody, SeesExit
  <2>6. CASE KillGroup
    BY <1>1, <2>6 DEF KillGroup
  <2>7. ASSUME NEW p \in Procs, Acquire(p)
        PROVE  tool' = {} /\ event' /\ \A v \in Workers : pc'[v] # "launching"
    BY <1>1, <2>7 DEF Acquire, AtLock, Inside
  <2>8. ASSUME NEW p \in Procs, Release(p)
        PROVE  tool' = {} /\ event' /\ \A v \in Workers : pc'[v] # "launching"
    BY <1>1, <2>8 DEF Release, After
  <2>9. ASSUME NEW p \in Procs, Handle(p) \/ GetStuck(p)
        PROVE  tool' = {} /\ event' /\ \A v \in Workers : pc'[v] # "launching"
    BY <1>1, <2>9 DEF Handle, GetStuck
  <2>10. ASSUME NEW w \in Workers,
                Launch(w) \/ Compute(w) \/ Reap(w) \/ ToolEnds(w)
         PROVE  tool' = {} /\ event' /\ \A v \in Workers : pc'[v] # "launching"
    BY <1>1, <2>10 DEF Launch, Compute, Reap, ToolEnds
  <2>11. CASE UNCHANGED vars
    BY <1>1, <2>11 DEF vars
  <2> QED
    BY <2>1, <2>2, <2>3, <2>4, <2>5, <2>6, <2>7, <2>8, <2>9, <2>10, <2>11
       DEF Next, RunJob, Stop
<1>2. CASE LockLost /\ Present \subseteq pend
  <2>1. LockLost' \/ stop' = "done"
    BY <1>2, LostLock
  <2> SUFFICES tool' = {} /\ (Present' \subseteq pend' \/ stop' = "done")
    BY <2>1 DEF Quieted
  <2> USE DEF LockLost
  <2>2. CASE MakeTemp \/ InstallHandlers \/ Deadline
    BY <1>2, <2>2 DEF MakeTemp, InstallHandlers, Deadline
  <2>3. ASSUME NEW w \in Workers, StartWorker(w) PROVE FALSE
    BY <1>2, <2>3 DEF StartWorker
  <2>4. CASE AllStarted \/ TimeIsUp \/ Joined \/ Terminate \/ Clean \/ Exit
    BY <1>2, <2>4
       DEF AllStarted, TimeIsUp, Joined, Terminate, Clean, Exit, Joining
  <2>5. CASE Kill
    BY <1>2, <2>5 DEF Kill, KillIsDue, Joining
  <2>6. CASE SignalGroup \/ FindsNobody \/ SeesExit \/ KillGroup
    BY <1>2, <2>6 DEF SignalGroup, FindsNobody, SeesExit, KillGroup
  <2>7. ASSUME NEW p \in Procs,
               Acquire(p) \/ Release(p) \/ Handle(p) \/ GetStuck(p)
        PROVE  tool' = {} /\ Present' \subseteq pend'
    BY <1>2, <2>7 DEF Acquire, Release, Handle, GetStuck
  <2>8. ASSUME NEW w \in Workers,
               Launch(w) \/ Compute(w) \/ Reap(w) \/ ToolEnds(w)
        PROVE  FALSE
    BY <1>2, <2>8 DEF Launch, Compute, Reap, ToolEnds
  <2>9. CASE UNCHANGED vars
    BY <1>2, <2>9 DEF vars
  <2> QED
    BY <2>2, <2>3, <2>4, <2>5, <2>6, <2>7, <2>8, <2>9 DEF Next, RunJob, Stop
<1>3. CASE /\ \A w \in Workers \cap Present : pc[w] = "waiting" /\ w \in pend
           /\ pc[Runner] \in {"joining", "rejoining", "cleaning", "exiting",
                              "gone"}
  <2>1. CASE MakeTemp \/ InstallHandlers \/ AllStarted \/ TimeIsUp
             \/ (\E w \in Workers : StartWorker(w))
    BY <1>3, <2>1
       DEF MakeTemp, InstallHandlers, AllStarted, TimeIsUp, StartWorker
  <2>2. CASE Deadline \/ Joined \/ Terminate \/ Clean \/ Exit
    BY <1>3, <2>2
       DEF Deadline, Joined, Terminate, Clean, Exit, Joining, Quieted
  <2>3. CASE Kill
    BY <1>3, <2>3 DEF Kill, Quieted
  <2>4. CASE SignalGroup \/ FindsNobody \/ SeesExit \/ KillGroup
    BY <1>3, <2>4 DEF SignalGroup, FindsNobody, SeesExit, KillGroup
  <2>5. ASSUME NEW p \in Procs, Acquire(p) \/ Release(p) PROVE FALSE
    BY <1>3, <2>5 DEF Acquire, AtLock, Inside, Release
  <2>6. ASSUME NEW p \in Procs, Handle(p)
        PROVE  tool' = {} /\ Quieted'
    BY <1>3, <2>6 DEF Handle, Quieted
  <2>7. ASSUME NEW p \in Procs, GetStuck(p)
        PROVE  tool' = {} /\ Quieted'
    BY <1>3, <2>7 DEF GetStuck, Quieted
  <2>8. ASSUME NEW w \in Workers,
               Launch(w) \/ Compute(w) \/ Reap(w) \/ ToolEnds(w)
        PROVE  FALSE
    BY <1>3, <2>8 DEF Launch, Compute, Reap, ToolEnds
  <2>9. CASE UNCHANGED vars
    BY <1>3, <2>9 DEF vars, Quieted, LockLost
  <2> QED
    BY <2>1, <2>2, <2>3, <2>4, <2>5, <2>6, <2>7, <2>8, <2>9
       DEF Next, RunJob, Stop
<1> QED
  BY <1>1, <1>2, <1>3 DEF Quieted

LEMMA StopInductive == Spec => []StopInv
<1> USE ProcsAssumption
    DEF Basics, Procs, Present, RunnerPlaces, WorkerPlaces, StopLeavesNothing
<1>1. Init => StopInv
  BY DEF Init, StopInv
<1>2. Basics /\ ExitInv /\ StopInv /\ [Next]_vars => StopInv'
  <2> SUFFICES ASSUME Basics, ExitInv, StopInv, [Next]_vars PROVE StopInv'
    OBVIOUS
  <2>1. CASE SignalGroup
    <3>1. stop' = "waiting" /\ tool' = {}
      BY <2>1 DEF SignalGroup
    <3>2. ~early' => Quieted'
      BY <2>1, SignalQuiets
    <3> QED
      BY <3>1, <3>2 DEF StopInv
  <2>2. CASE FindsNobody
    BY <2>2 DEF FindsNobody, StopInv
  <2>3. CASE SeesExit
    <3>1. pc[Runner] = "gone" /\ Alone
      BY <2>3 DEF SeesExit, ExitInv, WorkersInRun
    <3>2. Present = {} /\ tool = {}
      BY <2>3, <3>1 DEF SeesExit, StopInv, Alone
    <3> QED
      BY <2>3, <3>2 DEF SeesExit, StopInv
  <2>4. CASE KillGroup
    <3>1. stop' = "done" /\ tool' = {} /\ Present' = {}
      BY <2>4 DEF KillGroup
    <3> QED
      BY <3>1 DEF StopInv
  <2>5. ASSUME stop' = stop, early' = early,
               stop = "done" => Present' = {} /\ tool' = {},
               stop = "waiting" => \A w \in tool' : pc'[w] = "waiting"
        PROVE  StopInv'
    <3>1. stop = "waiting" /\ ~early => tool' = {} /\ Quieted'
      BY <2>5, StaysQuiet DEF StopInv
    <3> QED
      BY <2>5, <3>1 DEF StopInv
  <2> USE DEF StopInv, Go
  <2>6. CASE MakeTemp \/ InstallHandlers \/ Deadline
    BY <2>5, <2>6 DEF MakeTemp, InstallHandlers, Deadline
  <2>7. ASSUME NEW w \in Workers, StartWorker(w) PROVE StopInv'
    BY <2>5, <2>7 DEF StartWorker
  <2>8. CASE AllStarted \/ TimeIsUp \/ Joined \/ Terminate \/ Clean \/ Exit
    BY <2>5, <2>8
       DEF AllStarted, TimeIsUp, Joined, Terminate, Clean, Exit, Joining
  <2>9. CASE Kill
    BY <2>5, <2>9 DEF Kill, KillIsDue
  <2>10. ASSUME NEW p \in Procs, Acquire(p) \/ Release(p) PROVE StopInv'
    <3>1. stop' = stop /\ early' = early /\ tool' = tool
      BY <2>10 DEF Acquire, Release
    <3>2. p \in Present /\ pc[p] # "waiting"
      BY <2>10 DEF Acquire, Release, AtLock, Inside
    <3>3. \A w \in Procs : w # p => pc'[w] = pc[w]
      BY <2>10 DEF Acquire, Release
    <3> QED
      BY <2>5, <3>1, <3>2, <3>3
  <2>11. ASSUME NEW p \in Procs, Handle(p) \/ GetStuck(p) PROVE StopInv'
    BY <2>5, <2>11 DEF Handle, GetStuck
  <2>12. ASSUME NEW w \in Workers,
                Launch(w) \/ Compute(w) \/ Reap(w) \/ ToolEnds(w)
         PROVE  StopInv'
    BY <2>5, <2>12 DEF Launch, Compute, Reap, ToolEnds
  <2>13. CASE UNCHANGED vars
    BY <2>5, <2>13 DEF vars
  <2> QED
    BY <2>1, <2>2, <2>3, <2>4, <2>6, <2>7, <2>8, <2>9, <2>10, <2>11, <2>12,
       <2>13 DEF Next, RunJob, Stop
<1> QED
  BY <1>1, <1>2, BasicsHold, ExitInductive, PTL DEF Spec

(***************************************************************************)
(* When a stop command is over nothing of the job runs: with any number of *)
(* workers, whatever each of them was at when the signals came.            *)
(***************************************************************************)
THEOREM StopLeavesNothingHolds == Spec => []StopLeavesNothing
<1>1. StopInv => StopLeavesNothing
  BY DEF StopInv
<1> QED
  BY <1>1, StopInductive, PTL
=============================================================================
