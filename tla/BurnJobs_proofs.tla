---------------------------- MODULE BurnJobs_proofs ----------------------------
(***************************************************************************)
(* Proofs about BurnJobs, for any machines, jobs, requests, durations and  *)
(* delays.                                                                 *)
(***************************************************************************)
EXTENDS BurnJobs, TLAPS

\* The jobs whose start command was answered with a pid.
Begun(j) == phase[j] \in {"announcing", "untimed", "tracked"}

(***************************************************************************)
(* Every variable keeps its type; in particular no started_at is ever      *)
(* negative and a planned job has a complete PlannedJob.                   *)
(***************************************************************************)
THEOREM TypeCorrect == Spec => []TypeOK
<1> USE JobsAssumption
<1>1. Init => TypeOK
  BY DEF Init, TypeOK, ReqStates, Phases, RemoteStates, TimerStates, StopStates
<1>2. ASSUME TypeOK, [Next]_vars
      PROVE  TypeOK'
  <2> USE <1>2 DEF TypeOK, ReqStates, Phases, RemoteStates, TimerStates,
                   StopStates
  <2>1. ASSUME NEW r \in Requests, StartBurn(r)
        PROVE  TypeOK'
    <3>1. PICK mode \in Modes, J \in SUBSET Jobs, duration \in Durations :
            \E base \in BaseTimes(mode), host \in [J -> Machines],
               delay \in [J -> Delays] :
              Admit(r, mode, base, duration, host, delay)
      BY <2>1 DEF StartBurn
    <3>2. PICK base \in BaseTimes(mode), host \in [J -> Machines],
               delay \in [J -> Delays] :
              Admit(r, mode, base, duration, host, delay)
      BY <3>1
    <3>3. base \in Nat
      <4>1. now \in Nat /\ Lead \in Nat /\ LastBase \in Nat
        OBVIOUS
      <4>2. CASE mode = "scheduled"
        <5>1. base \in (now + 1) .. LastBase
          BY <4>2 DEF BaseTimes
        <5> QED
          BY <4>1, <5>1
      <4>3. CASE mode # "scheduled"
        <5>1. base = IF mode = "delayed" THEN now + Lead ELSE now
          BY <4>3 DEF BaseTimes
        <5> QED
          BY <4>1, <5>1
      <4> QED
        BY <4>2, <4>3
    <3> DEFINE start(j) == IF mode # "immediate" THEN base + delay[j] ELSE now
               new(j) == [req |-> r, machine |-> host[j], start |-> start(j),
                          duration |-> duration,
                          timed |-> mode # "immediate", over |-> registry]
    <3>4. ASSUME NEW j \in J
          PROVE  new(j) \in Plans
      <4>1. start(j) \in Nat
        <5>1. delay[j] \in Delays
          OBVIOUS
        <5>2. delay[j] \in Nat /\ now \in Nat
          BY <5>1
        <5> QED
          BY <3>3, <5>2
      <4>2. host[j] \in Machines /\ registry \in SUBSET Jobs /\ duration \in Nat
        OBVIOUS
      <4> HIDE DEF start
      <4> QED
        BY <4>1, <4>2 DEF Plans
    <3>5. DOMAIN host = J
      OBVIOUS
    <3>6. plan' = [j \in Jobs |-> IF j \in J THEN new(j) ELSE plan[j]]
      BY <3>2, <3>5 DEF Admit
    <3>7. phase' = [j \in Jobs |-> IF j \in J THEN "copying" ELSE phase[j]]
      BY <3>2, <3>5 DEF Admit
    <3> HIDE DEF new
    <3>8. plan' \in [Jobs -> Plans \cup {NoPlan}]
      BY <3>4, <3>6
    <3>9. phase' \in [Jobs -> Phases]
      BY <3>7
    <3>10. ASSUME NEW j \in Jobs, phase'[j] # "unplanned"
           PROVE  plan'[j] \in Plans
      BY <3>4, <3>6, <3>7, <3>10
    <3> QED
      BY <3>2, <3>8, <3>9, <3>10 DEF Admit
  <2>2. ASSUME NEW r \in Requests, BeginLaunch(r)
        PROVE  TypeOK'
    BY <2>2 DEF BeginLaunch, JobsOf
  <2>3. ASSUME NEW r \in Requests, Answer(r)
        PROVE  TypeOK'
    BY <2>3 DEF Answer
  <2>4. ASSUME NEW j \in Jobs, CopyDone(j)
        PROVE  TypeOK'
    BY <2>4 DEF CopyDone
  <2>5. ASSUME NEW j \in Jobs, CopyFails(j)
        PROVE  TypeOK'
    BY <2>5 DEF CopyFails
  <2>6. ASSUME NEW j \in Jobs, Launch(j)
        PROVE  TypeOK'
    BY <2>6 DEF Launch
  <2>7. ASSUME NEW j \in Jobs, Registered(j)
        PROVE  TypeOK'
    <3>1. plan[j].start \in Nat
      BY <2>7 DEF Registered, Plans
    <3> QED
      BY <2>7, <3>1 DEF Registered, StartStamp
  <2>8. ASSUME NEW j \in Jobs, LaunchFails(j)
        PROVE  TypeOK'
    BY <2>8 DEF LaunchFails
  <2>9. ASSUME NEW j \in Jobs, Announced(j) \/ AnnounceRaises(j)
        PROVE  TypeOK'
    BY <2>9 DEF Announced, AnnounceRaises
  <2>10. ASSUME NEW j \in Jobs, Expire(j)
         PROVE  TypeOK'
    BY <2>10 DEF Expire
  <2>11. ASSUME NEW j \in Jobs, ExpireTold(j) \/ ExpireRaises(j)
         PROVE  TypeOK'
    BY <2>11 DEF ExpireTold, ExpireRaises
  <2>12. ASSUME NEW j \in Jobs, RemoteExit(j)
         PROVE  TypeOK'
    BY <2>12 DEF RemoteExit
  <2>13. ASSUME NEW s \in Stoppers, NEW j \in Jobs, Pop(s, j)
         PROVE  TypeOK'
    BY <2>13 DEF Pop
  <2>14. ASSUME NEW s \in Stoppers, NEW j \in Jobs, Kill(s, j) \/ KillFails(s, j)
         PROVE  TypeOK'
    BY <2>14 DEF Kill, KillFails, Killed
  <2>15. ASSUME NEW s \in Stoppers, NEW j \in Jobs,
                StopTold(s, j) \/ StopRaises(s, j)
         PROVE  TypeOK'
    BY <2>15 DEF StopTold, StopRaises
  <2>16. ASSUME NEW s \in Stoppers, NEW J \in SUBSET registry, Resolve(s, J)
         PROVE  TypeOK'
    BY <2>16 DEF Resolve
  <2>17. CASE GraceCancelled
    <3>1. stop' \in [Stoppers -> [Jobs -> StopStates]]
      BY <2>17 DEF GraceCancelled, GraceActive, Cancelled
    <3>2. remote' \in [Jobs -> RemoteStates]
      BY <2>17 DEF GraceCancelled, Killed
    <3> QED
      BY <2>17, <3>1, <3>2 DEF GraceCancelled, GraceOwned
  <2>18. CASE \E m \in Machines : Unlink(m) \/ Link(m)
    BY <2>18 DEF Unlink, Link
  <2>19. CASE Tick
    BY <2>19 DEF Tick
  <2>20. CASE UNCHANGED vars
    BY <2>20 DEF vars
  <2> QED
    BY <1>2, <2>1, <2>2, <2>3, <2>4, <2>5, <2>6, <2>7, <2>8, <2>9, <2>10,
       <2>11, <2>12, <2>13, <2>14, <2>15, <2>16, <2>17, <2>18, <2>19, <2>20
       DEF Next, UserStop, GraceStop
<1> QED
  BY <1>1, <1>2, PTL DEF Spec

-----------------------------------------------------------------------------
(***************************************************************************)
(* The pop of job_registry is a claim: while a job is registered nobody is *)
(* ending it, and of the timer, the two kinds of stop, the announcement    *)
(* already made and the loss, at most one holds the claim.                 *)
(***************************************************************************)
Claim(j) ==
  /\ ~Begun(j) =>
       /\ j \notin registry
       /\ timer[j] = "none"
       /\ \A s \in Stoppers : stop[s][j] = "idle"
       /\ notices[j] = 0
       /\ j \notin lost
  /\ j \in registry =>
       /\ timer[j] \in {"none", "sleeping"}
       /\ \A s \in Stoppers : ~StopEnding(s, j)
       /\ notices[j] = 0
       /\ j \notin lost
  /\ Ending(j) =>
       /\ \A s \in Stoppers : ~StopEnding(s, j)
       /\ notices[j] = 0
       /\ j \notin lost
  /\ \A s \in Stoppers :
       StopEnding(s, j) =>
         /\ \A t \in Stoppers : StopEnding(t, j) => t = s
         /\ notices[j] = 0
         /\ j \notin lost
  /\ phase[j] = "announcing" => timer[j] = "none"
  /\ notices[j] <= 1
  /\ ~(notices[j] = 1 /\ j \in lost)

ClaimInv == \A j \in Jobs : Claim(j)

LEMMA ClaimInit == Init => ClaimInv
BY DEF Init, ClaimInv, Claim, Begun, Ending, StopEnding

(***************************************************************************)
(* Every step keeps the claim of every job.                                *)
(***************************************************************************)
LEMMA ClaimStep ==
  ASSUME TypeOK, ClaimInv, [Next]_vars
  PROVE  ClaimInv'
<1> USE JobsAssumption DEF TypeOK, ClaimInv, Claim, Begun, Ending, StopEnding
<1>1. ASSUME NEW r \in Requests, StartBurn(r)
      PROVE  ClaimInv'
  BY <1>1 DEF StartBurn, Admit
<1>2. ASSUME NEW r \in Requests, BeginLaunch(r)
      PROVE  ClaimInv'
  BY <1>2 DEF BeginLaunch, JobsOf
<1>3. ASSUME NEW r \in Requests, Answer(r)
      PROVE  ClaimInv'
  BY <1>3 DEF Answer
<1>4. ASSUME NEW j \in Jobs, CopyDone(j)
      PROVE  ClaimInv'
  BY <1>4 DEF CopyDone
<1>5. ASSUME NEW j \in Jobs, CopyFails(j)
      PROVE  ClaimInv'
  BY <1>5 DEF CopyFails
<1>6. ASSUME NEW j \in Jobs, Launch(j)
      PROVE  ClaimInv'
  BY <1>6 DEF Launch
<1>7. ASSUME NEW j \in Jobs, Registered(j)
      PROVE  ClaimInv'
  BY <1>7 DEF Registered
<1>8. ASSUME NEW j \in Jobs, LaunchFails(j)
      PROVE  ClaimInv'
  BY <1>8 DEF LaunchFails
<1>9. ASSUME NEW j \in Jobs, Announced(j) \/ AnnounceRaises(j)
      PROVE  ClaimInv'
  BY <1>9 DEF Announced, AnnounceRaises
<1>10. ASSUME NEW j \in Jobs, Expire(j)
       PROVE  ClaimInv'
  BY <1>10 DEF Expire
<1>11. ASSUME NEW j \in Jobs, ExpireTold(j) \/ ExpireRaises(j)
       PROVE  ClaimInv'
  BY <1>11 DEF ExpireTold, ExpireRaises
<1>12. ASSUME NEW j \in Jobs, RemoteExit(j)
       PROVE  ClaimInv'
  BY <1>12 DEF RemoteExit
<1>13. ASSUME NEW s \in Stoppers, NEW j \in Jobs, Pop(s, j)
       PROVE  ClaimInv'
  BY <1>13 DEF Pop, StopStates
<1>14. ASSUME NEW s \in Stoppers, NEW j \in Jobs, Kill(s, j) \/ KillFails(s, j)
       PROVE  ClaimInv'
  BY <1>14 DEF Kill, KillFails
<1>15. ASSUME NEW s \in Stoppers, NEW j \in Jobs,
              StopTold(s, j) \/ StopRaises(s, j)
       PROVE  ClaimInv'
  BY <1>15 DEF StopTold, StopRaises
<1>16. ASSUME NEW s \in Stoppers, NEW J \in SUBSET registry, Resolve(s, J)
       PROVE  ClaimInv'
  BY <1>16 DEF Resolve
<1>17. CASE GraceCancelled
  BY <1>17 DEF GraceCancelled, GraceActive, GraceOwned, Cancelled
<1>18. CASE \E m \in Machines : Unlink(m) \/ Link(m)
  BY <1>18 DEF Unlink, Link
<1>19. CASE Tick
  BY <1>19 DEF Tick
<1>20. CASE UNCHANGED vars
  BY <1>20 DEF vars
<1> QED
  BY <1>1, <1>2, <1>3, <1>4, <1>5, <1>6, <1>7, <1>8, <1>9, <1>10, <1>11,
     <1>12, <1>13, <1>14, <1>15, <1>16, <1>17, <1>18, <1>19, <1>20
     DEF Next, UserStop, GraceStop

(***************************************************************************)
(* StoppedAtMostOnce, for every interleaving of any number of jobs.        *)
(***************************************************************************)
THEOREM StoppedAtMostOnceHolds == Spec => []StoppedAtMostOnce
<1>1. ClaimInv => StoppedAtMostOnce
  BY DEF ClaimInv, Claim, StoppedAtMostOnce
<1>2. TypeOK /\ ClaimInv /\ [Next]_vars => ClaimInv'
  BY ClaimStep
<1> QED
  BY <1>1, <1>2, ClaimInit, TypeCorrect, PTL DEF Spec

-----------------------------------------------------------------------------
\* Phases of a job that has not been handed to _start_single.
PreLaunch == {"copying", "copied", "copy_failed"}

(***************************************************************************)
(* The jobs of one request wait for each other: while one of them is being *)
(* copied, or once its copy has failed, none of them is past its copy.     *)
(***************************************************************************)
CopyInv ==
  /\ \A j \in Jobs :
       /\ phase[j] \in PreLaunch \cup {"unplanned"} => remote[j] = "none"
       /\ phase[j] # "unplanned" => req[plan[j].req] # "idle"
       /\ j \in registry => Begun(j)
  /\ \A i, j \in Jobs :
       /\ phase[i] \in {"copying", "copy_failed"}
       /\ phase[j] # "unplanned"
       /\ plan[i].req = plan[j].req
       => phase[j] \in PreLaunch

LEMMA CopyInit == Init => CopyInv
BY DEF Init, CopyInv, PreLaunch

(***************************************************************************)
(* Every step keeps the jobs of a request together until they are copied.  *)
(***************************************************************************)
LEMMA CopyStep ==
  ASSUME TypeOK, CopyInv, [Next]_vars
  PROVE  CopyInv'
<1> USE DEF TypeOK, CopyInv, PreLaunch, Begun
<1>0. ASSUME NEW j \in Jobs, phase[j] # "unplanned"
      PROVE  plan[j].req \in Requests
  BY <1>0 DEF Plans
<1>1. ASSUME NEW r \in Requests, StartBurn(r)
      PROVE  CopyInv'
  BY <1>1, <1>0 DEF StartBurn, Admit
<1>2. ASSUME NEW r \in Requests, BeginLaunch(r)
      PROVE  CopyInv'
  BY <1>2, <1>0 DEF BeginLaunch, JobsOf
<1>3. ASSUME NEW r \in Requests, Answer(r)
      PROVE  CopyInv'
  BY <1>3, <1>0 DEF Answer
<1>4. ASSUME NEW j \in Jobs, CopyDone(j)
      PROVE  CopyInv'
  BY <1>4, <1>0 DEF CopyDone
<1>5. ASSUME NEW j \in Jobs, CopyFails(j)
      PROVE  CopyInv'
  BY <1>5, <1>0 DEF CopyFails
<1>6. ASSUME NEW j \in Jobs, Launch(j)
      PROVE  CopyInv'
  BY <1>6, <1>0 DEF Launch
<1>7. ASSUME NEW j \in Jobs, Registered(j)
      PROVE  CopyInv'
  BY <1>7, <1>0 DEF Registered
<1>8. ASSUME NEW j \in Jobs, LaunchFails(j)
      PROVE  CopyInv'
  BY <1>8, <1>0 DEF LaunchFails
<1>9. ASSUME NEW j \in Jobs, Announced(j) \/ AnnounceRaises(j)
      PROVE  CopyInv'
  BY <1>9, <1>0 DEF Announced, AnnounceRaises
<1>10. ASSUME NEW j \in Jobs,
              Expire(j) \/ ExpireTold(j) \/ ExpireRaises(j) \/ RemoteExit(j)
       PROVE  CopyInv'
  BY <1>10, <1>0 DEF Expire, ExpireTold, ExpireRaises, RemoteExit
<1>11. ASSUME NEW s \in Stoppers, NEW j \in Jobs,
              \/ Pop(s, j)
              \/ Kill(s, j)
              \/ KillFails(s, j)
              \/ StopTold(s, j)
              \/ StopRaises(s, j)
       PROVE  CopyInv'
  BY <1>11, <1>0 DEF Pop, Kill, KillFails, StopTold, StopRaises, Killed
<1>12. ASSUME NEW s \in Stoppers, NEW J \in SUBSET registry, Resolve(s, J)
       PROVE  CopyInv'
  BY <1>12, <1>0 DEF Resolve
<1>13. CASE GraceCancelled
  BY <1>13, <1>0 DEF GraceCancelled, Killed
<1>14. CASE (\E m \in Machines : Unlink(m) \/ Link(m)) \/ Tick
  BY <1>14, <1>0 DEF Unlink, Link, Tick
<1>15. CASE UNCHANGED vars
  BY <1>15, <1>0 DEF vars
<1> QED
  BY <1>1, <1>2, <1>3, <1>4, <1>5, <1>6, <1>7, <1>8, <1>9, <1>10, <1>11,
     <1>12, <1>13, <1>14, <1>15 DEF Next, UserStop, GraceStop

(***************************************************************************)
(* CopyFailureLaunchesNothing, for any number of targets.                  *)
(***************************************************************************)
THEOREM CopyFailureLaunchesNothingHolds == Spec => []CopyFailureLaunchesNothing
<1>1. CopyInv => CopyFailureLaunchesNothing
  BY DEF CopyInv, CopyFailureLaunchesNothing, PreLaunch, Begun
<1>2. TypeOK /\ CopyInv /\ [Next]_vars => CopyInv'
  BY CopyStep
<1> QED
  BY <1>1, <1>2, CopyInit, TypeCorrect, PTL DEF Spec

-----------------------------------------------------------------------------
\* The window a timed job was planned with is clear of this registered job.
PlannedClear(j, k) ==
  ~Overlap(plan[j].start, plan[j].start + plan[j].duration,
           startedAt[k], ExpectedEnd(k))

(***************************************************************************)
(* What _check_overlaps saw is frozen: the jobs registered at the time had *)
(* their started_at already, and a timed job is registered with the very   *)
(* window that was checked.                                                *)
(***************************************************************************)
AdmissionInv ==
  \A j \in Jobs :
    /\ phase[j] # "unplanned" =>
         \A k \in plan[j].over :
           /\ Begun(k)
           /\ plan[j].timed /\ plan[j].machine = plan[k].machine
              => PlannedClear(j, k)
    /\ Begun(j) /\ plan[j].timed => startedAt[j] = plan[j].start
    /\ j \in registry => Begun(j)

LEMMA AdmissionInit == Init => AdmissionInv
BY DEF Init, AdmissionInv, Begun

(***************************************************************************)
(* Admission establishes it for the new jobs; no later step moves either   *)
(* window.                                                                 *)
(***************************************************************************)
LEMMA AdmissionStep ==
  ASSUME TypeOK, AdmissionInv, [Next]_vars
  PROVE  AdmissionInv'
<1> USE DEF TypeOK, AdmissionInv, Begun, PlannedClear, ExpectedEnd
<1>0. ASSUME NEW j \in Jobs, phase[j] # "unplanned"
      PROVE  plan[j].over \subseteq Jobs
  BY <1>0 DEF Plans
<1>1. ASSUME NEW r \in Requests, StartBurn(r)
      PROVE  AdmissionInv'
  <2>1. PICK mode \in Modes, J \in SUBSET Jobs, duration \in Durations :
          \E base \in BaseTimes(mode), host \in [J -> Machines],
             delay \in [J -> Delays] :
            Admit(r, mode, base, duration, host, delay)
    BY <1>1 DEF StartBurn
  <2>2. PICK base \in BaseTimes(mode), host \in [J -> Machines],
             delay \in [J -> Delays] :
            Admit(r, mode, base, duration, host, delay)
    BY <2>1
  <2> DEFINE timed == mode # "immediate"
             start(j) == IF timed THEN base + delay[j] ELSE now
             new(j) == [req |-> r, machine |-> host[j], start |-> start(j),
                        duration |-> duration, timed |-> timed,
                        over |-> registry]
  <2>3. /\ plan' = [j \in Jobs |-> IF j \in J THEN new(j) ELSE plan[j]]
        /\ phase' = [j \in Jobs |-> IF j \in J THEN "copying" ELSE phase[j]]
        /\ \A j \in J : phase[j] = "unplanned"
        /\ \A j \in J : FreeOf(host[j], start(j), duration)
        /\ UNCHANGED <<registry, startedAt>>
    BY <2>2 DEF Admit
  <2>4. \A k \in registry : k \in Jobs /\ k \notin J /\ plan'[k] = plan[k]
    BY <2>3
  <2>5. ASSUME NEW j \in J
        PROVE  /\ plan'[j] = new(j)
               /\ phase'[j] = "copying"
               /\ \A k \in registry :
                    plan[k].machine = host[j] =>
                      ~Overlap(start(j), start(j) + duration,
                               startedAt[k], startedAt[k] + plan[k].duration)
    BY <2>3 DEF FreeOf
  <2>6. ASSUME NEW j \in J
        PROVE  /\ plan'[j].over = registry
               /\ plan'[j].machine = host[j]
               /\ plan'[j].start = start(j)
               /\ plan'[j].duration = duration
    <3>1. plan'[j] = new(j)
      BY <2>5
    <3>2. /\ new(j).over = registry
          /\ new(j).machine = host[j]
          /\ new(j).start = start(j)
          /\ new(j).duration = duration
      OBVIOUS
    <3> QED
      BY <3>1, <3>2
  <2>7. ASSUME NEW j \in Jobs \ J, phase'[j] # "unplanned"
        PROVE  /\ plan'[j] = plan[j]
               /\ phase[j] = phase'[j]
               /\ \A k \in plan[j].over : k \in Jobs /\ k \notin J /\ plan'[k] = plan[k]
    BY <2>3, <2>7, <1>0
  <2>8. ASSUME NEW j \in Jobs, phase'[j] # "unplanned", NEW k \in plan'[j].over
        PROVE  /\ Begun(k)'
               /\ plan'[j].timed /\ plan'[j].machine = plan'[k].machine
                  => PlannedClear(j, k)'
    <3> HIDE DEF timed, start, new
    <3>1. CASE j \in J
      <4>1. k \in registry
        BY <2>6, <2>8, <3>1
      <4>2. Begun(k)'
        BY <2>3, <2>4, <4>1
      <4>3. plan'[k] = plan[k] /\ startedAt'[k] = startedAt[k]
        BY <2>3, <2>4, <4>1
      <4>4. plan[k].machine = host[j] =>
              ~Overlap(start(j), start(j) + duration,
                       startedAt[k], startedAt[k] + plan[k].duration)
        BY <2>5, <3>1, <4>1
      <4> HIDE DEF TypeOK, AdmissionInv, Begun
      <4> QED
        BY <2>6, <3>1, <4>2, <4>3, <4>4
    <3>2. CASE j \notin J
      BY <2>3, <2>7, <2>8, <3>2
    <3> QED
      BY <3>1, <3>2
  <2> HIDE DEF timed, start, new
  <2> QED
    BY <2>3, <2>4, <2>7, <2>8
<1>2. ASSUME NEW r \in Requests, BeginLaunch(r) \/ Answer(r)
      PROVE  AdmissionInv'
  BY <1>2, <1>0 DEF BeginLaunch, Answer, JobsOf
<1>3. ASSUME NEW j \in Jobs, CopyDone(j) \/ CopyFails(j) \/ LaunchFails(j)
      PROVE  AdmissionInv'
  BY <1>3, <1>0 DEF CopyDone, CopyFails, LaunchFails
<1>4. ASSUME NEW j \in Jobs, Registered(j)
      PROVE  AdmissionInv'
  BY <1>4, <1>0 DEF Registered, StartStamp
<1>5. ASSUME NEW j \in Jobs, Announced(j) \/ AnnounceRaises(j) \/ Launch(j)
      PROVE  AdmissionInv'
  BY <1>5, <1>0 DEF Announced, AnnounceRaises, Launch
<1>6. ASSUME NEW j \in Jobs,
             Expire(j) \/ ExpireTold(j) \/ ExpireRaises(j) \/ RemoteExit(j)
      PROVE  AdmissionInv'
  BY <1>6, <1>0 DEF Expire, ExpireTold, ExpireRaises, RemoteExit
<1>7. ASSUME NEW s \in Stoppers, NEW j \in Jobs,
             \/ Pop(s, j)
             \/ Kill(s, j)
             \/ KillFails(s, j)
             \/ StopTold(s, j)
             \/ StopRaises(s, j)
      PROVE  AdmissionInv'
  BY <1>7, <1>0 DEF Pop, Kill, KillFails, StopTold, StopRaises
<1>8. ASSUME NEW s \in Stoppers, NEW J \in SUBSET registry, Resolve(s, J)
      PROVE  AdmissionInv'
  BY <1>8, <1>0 DEF Resolve
<1>9. CASE GraceCancelled
  BY <1>9, <1>0 DEF GraceCancelled
<1>10. CASE (\E m \in Machines : Unlink(m) \/ Link(m)) \/ Tick
  BY <1>10, <1>0 DEF Unlink, Link, Tick
<1>11. CASE UNCHANGED vars
  BY <1>11, <1>0 DEF vars
<1> QED
  BY <1>1, <1>2, <1>3, <1>4, <1>5, <1>6, <1>7, <1>8, <1>9, <1>10, <1>11
     DEF Next, UserStop, GraceStop

(***************************************************************************)
(* TimedKeepsClear, for any durations, delays and grace.                   *)
(***************************************************************************)
THEOREM TimedKeepsClearHolds == Spec => []TimedKeepsClear
<1>1. TypeOK /\ AdmissionInv => TimedKeepsClear
  BY DEF TypeOK, AdmissionInv, TimedKeepsClear, PlannedClear, ExpectedEnd, Begun
<1>2. TypeOK /\ AdmissionInv /\ [Next]_vars => AdmissionInv'
  BY AdmissionStep
<1> QED
  BY <1>1, <1>2, AdmissionInit, TypeCorrect, PTL DEF Spec

-----------------------------------------------------------------------------
(***************************************************************************)
(* Every step of the controller is a step of the ledger, or invisible      *)
(* there.                                                                  *)
(***************************************************************************)
LEMMA LedgerStep ==
  ASSUME TypeOK, ClaimInv, CopyInv, [Next]_vars
  PROVE  [Ledger!Next]_(Ledger!vars)
<1> USE DEF TypeOK, ClaimInv, Claim, Begun, Ending, StopEnding, StageOf,
            Ledger!vars
<1>1. ASSUME NEW r \in Requests, StartBurn(r)
      PROVE  UNCHANGED Ledger!vars
  BY <1>1 DEF StartBurn, Admit
<1>2. ASSUME NEW r \in Requests, BeginLaunch(r)
      PROVE  UNCHANGED Ledger!vars
  BY <1>2 DEF BeginLaunch, JobsOf
<1>3. ASSUME NEW r \in Requests, Answer(r)
      PROVE  UNCHANGED Ledger!vars
  BY <1>3 DEF Answer
<1>4. ASSUME NEW j \in Jobs,
             CopyDone(j) \/ CopyFails(j) \/ Launch(j) \/ LaunchFails(j)
      PROVE  UNCHANGED Ledger!vars
  BY <1>4 DEF CopyDone, CopyFails, Launch, LaunchFails
<1>5. ASSUME NEW j \in Jobs, Registered(j)
      PROVE  Ledger!Register(j)
  <2>1. StageOf(j) = "absent" /\ StageOf(j)' = "live" /\ notices' = notices
    BY <1>5 DEF Registered
  <2>2. \A i \in Jobs \ {j} : StageOf(i)' = StageOf(i)
    BY <1>5 DEF Registered
  <2> HIDE DEF StageOf, TypeOK, ClaimInv, Claim
  <2> QED
    BY <2>1, <2>2 DEF Ledger!Register
<1>6. ASSUME NEW j \in Jobs, Announced(j) \/ AnnounceRaises(j) \/ RemoteExit(j)
      PROVE  UNCHANGED Ledger!vars
  BY <1>6 DEF Announced, AnnounceRaises, RemoteExit
<1>7. ASSUME NEW j \in Jobs, Expire(j), j \in registry
      PROVE  Ledger!Retire(j)
  <2>1. StageOf(j) = "live" /\ StageOf(j)' = "ending" /\ notices' = notices
    BY <1>7 DEF Expire
  <2>2. \A i \in Jobs \ {j} : StageOf(i)' = StageOf(i)
    BY <1>7 DEF Expire
  <2> HIDE DEF StageOf, TypeOK, ClaimInv, Claim
  <2> QED
    BY <2>1, <2>2 DEF Ledger!Retire
<1>8. ASSUME NEW j \in Jobs, Expire(j), j \notin registry
      PROVE  UNCHANGED Ledger!vars
  BY <1>8 DEF Expire
<1>9. ASSUME NEW j \in Jobs, ExpireTold(j)
      PROVE  Ledger!Announce(j)
  <2>1. /\ StageOf(j) = "ending" /\ StageOf(j)' = "ended"
        /\ notices' = [notices EXCEPT ![j] = @ + 1]
    BY <1>9 DEF ExpireTold
  <2>2. \A i \in Jobs \ {j} : StageOf(i)' = StageOf(i)
    BY <1>9 DEF ExpireTold
  <2> HIDE DEF StageOf, TypeOK, ClaimInv, Claim
  <2> QED
    BY <2>1, <2>2 DEF Ledger!Announce
<1>10. ASSUME NEW s \in Stoppers, NEW j \in Jobs, Pop(s, j), j \in registry
       PROVE  Ledger!Retire(j)
  <2>1. StageOf(j) = "live" /\ StageOf(j)' = "ending" /\ notices' = notices
    BY <1>10 DEF Pop
  <2>2. \A i \in Jobs \ {j} : StageOf(i)' = StageOf(i)
    BY <1>10 DEF Pop
  <2> HIDE DEF StageOf, TypeOK, ClaimInv, Claim
  <2> QED
    BY <2>1, <2>2 DEF Ledger!Retire
<1>11. ASSUME NEW s \in Stoppers, NEW j \in Jobs, Pop(s, j), j \notin registry
       PROVE  UNCHANGED Ledger!vars
  BY <1>11 DEF Pop
<1>12. ASSUME NEW s \in Stoppers, NEW j \in Jobs, Kill(s, j) \/ KillFails(s, j)
       PROVE  UNCHANGED Ledger!vars
  BY <1>12 DEF Kill, KillFails
<1>13. ASSUME NEW s \in Stoppers, NEW j \in Jobs, StopTold(s, j)
       PROVE  Ledger!Announce(j)
  <2>1. /\ StageOf(j) = "ending" /\ StageOf(j)' = "ended"
        /\ notices' = [notices EXCEPT ![j] = @ + 1]
    BY <1>13 DEF StopTold
  <2>2. \A i \in Jobs \ {j} : StageOf(i)' = StageOf(i)
    BY <1>13 DEF StopTold
  <2> HIDE DEF StageOf, TypeOK, ClaimInv, Claim
  <2> QED
    BY <2>1, <2>2 DEF Ledger!Announce
<1>14. ASSUME NEW s \in Stoppers, NEW J \in SUBSET registry, Resolve(s, J)
       PROVE  UNCHANGED Ledger!vars
  BY <1>14 DEF Resolve
<1>15. CASE GraceCancelled
  <2>0. "grace" \in Stoppers
    BY <1>15 DEF GraceCancelled, GraceActive
  <2>1. \A i \in GraceOwned : StageOf(i) = "ending" /\ StageOf(i)' = "lost"
    BY <1>15, <2>0 DEF GraceCancelled, GraceOwned
  <2>2. \A i \in Jobs \ GraceOwned : StageOf(i)' = StageOf(i)
    BY <1>15 DEF GraceCancelled
  <2>3. GraceOwned \in SUBSET Jobs /\ notices' = notices
    BY <1>15 DEF GraceCancelled, GraceOwned
  <2> HIDE DEF StageOf, TypeOK, ClaimInv, Claim
  <2>4. Ledger!Lose(GraceOwned)
    BY <2>1, <2>2, <2>3 DEF Ledger!Lose
  <2> QED
    BY <2>3, <2>4 DEF Ledger!Next
<1>16. CASE (\E m \in Machines : Unlink(m) \/ Link(m)) \/ Tick
  BY <1>16 DEF Unlink, Link, Tick
<1>17. CASE UNCHANGED vars
  BY <1>17 DEF vars
<1>18. ASSUME NEW j \in Jobs,
              ExpireRaises(j) \/ \E s \in Stoppers : StopRaises(s, j)
       PROVE  Ledger!Next
  <2>1. /\ StageOf(j) = "ending" /\ StageOf(j)' = "lost"
        /\ notices' = notices
    BY <1>18 DEF ExpireRaises, StopRaises
  <2>2. \A i \in Jobs \ {j} : StageOf(i)' = StageOf(i)
    BY <1>18 DEF ExpireRaises, StopRaises
  <2> HIDE DEF StageOf, TypeOK, ClaimInv, Claim
  <2>3. Ledger!Lose({j})
    BY <2>1, <2>2 DEF Ledger!Lose
  <2> QED
    BY <2>3 DEF Ledger!Next
<1> QED
  BY <1>1, <1>2, <1>3, <1>4, <1>5, <1>6, <1>7, <1>8, <1>9, <1>10, <1>11,
     <1>12, <1>13, <1>14, <1>15, <1>16, <1>17, <1>18
     DEF Next, UserStop, GraceStop, Ledger!Next

(***************************************************************************)
(* The burn controller implements the job ledger: a job id is registered   *)
(* once, leaves for good, and its end is announced at most once.           *)
(***************************************************************************)
THEOREM ImplementsLedger == Spec => Ledger!Spec
<1>1. Init => Ledger!Init
  BY DEF Init, Ledger!Init, StageOf
<1>2. TypeOK /\ ClaimInv /\ CopyInv /\ [Next]_vars => [Ledger!Next]_(Ledger!vars)
  BY LedgerStep
<1>3. TypeOK /\ ClaimInv /\ [Next]_vars => ClaimInv'
  BY ClaimStep
<1>4. TypeOK /\ CopyInv /\ [Next]_vars => CopyInv'
  BY CopyStep
<1> QED
  BY <1>1, <1>2, <1>3, <1>4, ClaimInit, CopyInit, TypeCorrect, PTL
     DEF Spec, Ledger!Spec

\* What the ledger promises, for burns
LedgerFacts == INSTANCE JobLedger_proofs WITH
  ledger <- [j \in Jobs |-> StageOf(j)],
  told <- notices

(***************************************************************************)
(* So the ledger's theorems are the burn controller's: one burn_stopped    *)
(* for a job whose end is told, none for one that is not over or was lost, *)
(* and a job that left the registry does not come back.                    *)
(***************************************************************************)
THEOREM BurnsEndOnce == Spec => []Ledger!ToldOnce /\ Ledger!NoReturn
<1>1. Ledger!Spec => LedgerFacts!Spec
  <2>1. Ledger!Init => LedgerFacts!Init
    BY DEF Ledger!Init, LedgerFacts!Init
  <2>2. [Ledger!Next]_(Ledger!vars) => [LedgerFacts!Next]_(LedgerFacts!vars)
    BY Zenon
       DEF Ledger!Next, Ledger!vars, Ledger!Register, Ledger!Retire,
           Ledger!Announce, Ledger!Lose,
           LedgerFacts!Next, LedgerFacts!vars, LedgerFacts!Register,
           LedgerFacts!Retire, LedgerFacts!Announce, LedgerFacts!Lose
  <2> QED
    BY <2>1, <2>2, PTL DEF Ledger!Spec, LedgerFacts!Spec
<1>2. LedgerFacts!ToldOnce => Ledger!ToldOnce
  BY DEF LedgerFacts!ToldOnce, Ledger!ToldOnce
<1>3. LedgerFacts!NoReturn => Ledger!NoReturn
  BY PTL
     DEF LedgerFacts!NoReturn, Ledger!NoReturn, LedgerFacts!vars, Ledger!vars
<1> QED
  BY <1>1, <1>2, <1>3, ImplementsLedger, LedgerFacts!ToldOnceHolds,
     LedgerFacts!NoReturnHolds, PTL
=============================================================================
