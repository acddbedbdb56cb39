--------------------------- MODULE Machine_proofs ---------------------------
(***************************************************************************)
(* Proofs about three of the programs that run on a machine: the container *)
(* of a GPU workload, for any list of tasks; the burner, for any number of *)
(* backends, ticks and signals and any load curve; and the watcher, for    *)
(* any number of energy counters; and about the machine they run on.       *)
(*                                                                         *)
(* Induction over data is done by taking a least counterexample: of the    *)
(* numbers, or of the subsets of a finite set, that violate a claim.       *)
(***************************************************************************)
EXTENDS MCMachine, WorkloadRunner_proofs, FiniteSetTheorems,
        WellFoundedInduction, TLAPS

-----------------------------------------------------------------------------
(* The container *)

\* A task is begun late only if it had been chosen in time, so that none is
\* chosen and no ffmpeg started after it.
LateInv ==
  /\ belated \in {0, 1}
  /\ ~requested \/ runner = "chosen" => belated = 0
  /\ belated = 1 => runner # "polling" /\ ~ffmpeg

\* The container is not there before docker run has brought it up; a script
\* that waits has found it; one past docker kill has left none, but for one
\* that slipped through.
ContainerInv ==
  /\ cli = "starting" => runner = "none" /\ script # "waiting"
  /\ script \in {"pid", "done"} /\ ~slipped => ~Alive
  /\ TaskLeavesNoChild
  /\ LateInv

\* The task that is chosen is there.
ChosenInv == runner = "chosen" => task < Len(Tasks)

LEMMA ContainerTypeCorrect == ContainerSpec => [](ContainerTypeOK /\ ChosenInv)
<1> USE DEF ContainerTypeOK, ChosenInv, RunnerSteps
<1>1. Len(Tasks) \in Nat
  BY TasksAssumption
<1>2. ContainerInit => ContainerTypeOK /\ ChosenInv
  <2>1. 0 \in 0..Len(Tasks) /\ 0 \in Nat
    BY <1>1
  <2>2. ContainerInit => ContainerTypeOK
    BY <2>1, Zenon DEF ContainerInit
  <2>3. ContainerInit => ChosenInv
    BY DEF ContainerInit
  <2> QED
    BY <2>2, <2>3
<1>3. ContainerTypeOK /\ ChosenInv /\ [ContainerNext]_containerVars
        => ContainerTypeOK' /\ ChosenInv'
  <2> SUFFICES ASSUME ContainerTypeOK, ChosenInv,
                      [ContainerNext]_containerVars
               PROVE  ContainerTypeOK' /\ ChosenInv'
    OBVIOUS
  <2>1. CASE ComeUp
    BY <2>1 DEF ComeUp
  <2>2. CASE CliReturns \/ Raise \/ InstallFlag \/ ChooseTask \/ SequenceOver
              \/ Loaded
    BY <2>2 DEF CliReturns, Raise, InstallFlag, ChooseTask, SequenceOver,
                Loaded
  <2>3. CASE BeginTask
    <3>1. task' \in 0..Len(Tasks) /\ belated' \in Nat
      BY <2>3, <1>1 DEF BeginTask
    <3> QED
      BY <2>3, <3>1, Zenon DEF BeginTask
  <2>4. CASE TaskDeadline \/ TaskOver \/ Transcode
    BY <2>4 DEF TaskDeadline, TaskOver, Transcode
  <2>5. CASE FfmpegEnds \/ PollEnds \/ FfmpegStopped
    BY <2>5 DEF FfmpegEnds, PollEnds, FfmpegStopped
  <2>6. CASE DockerStop
    BY <2>6 DEF DockerStop, Terminated
  <2>7. CASE DockerStopped
    BY <2>7 DEF DockerStopped
  <2>8. CASE DockerKill
    BY <2>8 DEF DockerKill
  <2>9. CASE KillPid
    BY <2>9 DEF KillPid, Terminated
  <2>10. CASE UNCHANGED containerVars
    BY <2>10 DEF containerVars
  <2> QED
    BY <2>1, <2>2, <2>3, <2>4, <2>5, <2>6, <2>7, <2>8, <2>9, <2>10
       DEF ContainerNext, StopScript
<1> QED
  BY <1>2, <1>3, PTL DEF ContainerSpec

LEMMA ContainerInductive == ContainerSpec => []ContainerInv
<1> USE DEF ContainerInv, LateInv, Alive, TaskLeavesNoChild
<1>1. ContainerInit => ContainerInv
  BY DEF ContainerInit
<1>2. ContainerTypeOK /\ ContainerInv /\ [ContainerNext]_containerVars
        => ContainerInv'
  <2> SUFFICES ASSUME ContainerTypeOK, ContainerInv,
                      [ContainerNext]_containerVars
               PROVE  ContainerInv'
    OBVIOUS
  <2>1. CASE ComeUp
    BY <2>1 DEF ComeUp
  <2>2. CASE CliReturns \/ Raise \/ InstallFlag \/ ChooseTask \/ SequenceOver
              \/ Loaded
    BY <2>2 DEF CliReturns, Raise, InstallFlag, ChooseTask, SequenceOver,
                Loaded
  <2>3. CASE BeginTask
    BY <2>3 DEF BeginTask
  <2>4. CASE TaskDeadline \/ TaskOver \/ Transcode
    BY <2>4 DEF TaskDeadline, TaskOver, Transcode, Running
  <2>5. CASE FfmpegEnds \/ PollEnds \/ FfmpegStopped
    BY <2>5 DEF FfmpegEnds, PollEnds, FfmpegStopped
  <2>6. CASE DockerStop
    BY <2>6 DEF DockerStop, Terminated
  <2>7. CASE DockerStopped
    BY <2>7 DEF DockerStopped
  <2>8. CASE DockerKill
    BY <2>8 DEF DockerKill
  <2>9. CASE KillPid
    BY <2>9 DEF KillPid, Terminated
  <2>10. CASE UNCHANGED containerVars
    BY <2>10 DEF containerVars
  <2> QED
    BY <2>1, <2>2, <2>3, <2>4, <2>5, <2>6, <2>7, <2>8, <2>9, <2>10
       DEF ContainerNext, StopScript
<1> QED
  BY <1>1, <1>2, ContainerTypeCorrect, PTL DEF ContainerSpec

(***************************************************************************)
(* When the stop script is over the container is gone, unless it came up   *)
(* after docker kill had looked for it: whatever the tasks of the scenario *)
(* are and wherever the runner was.                                        *)
(***************************************************************************)
THEOREM StopEndsContainerHolds == ContainerSpec => []StopEndsContainer
<1>1. ContainerInv => StopEndsContainer
  BY DEF ContainerInv, StopEndsContainer
<1> QED
  BY <1>1, ContainerInductive, PTL

(***************************************************************************)
(* No ffmpeg outlives the task that started it, or the container.          *)
(***************************************************************************)
THEOREM TaskLeavesNoChildHolds == ContainerSpec => []TaskLeavesNoChild
<1>1. ContainerInv => TaskLeavesNoChild
  BY DEF ContainerInv
<1> QED
  BY <1>1, ContainerInductive, PTL

(***************************************************************************)
(* However many tasks the scenario has, at most one is begun after a       *)
(* SIGTERM that the runner took note of, and ffmpeg is not started for it. *)
(***************************************************************************)
THEOREM StopCutsScenarioHolds == ContainerSpec => []StopCutsScenario
<1>1. ContainerInv => StopCutsScenario
  BY DEF ContainerInv, LateInv, StopCutsScenario
<1> QED
  BY <1>1, ContainerInductive, PTL

-----------------------------------------------------------------------------
(* The load curve *)

LEMMA LeastNumber ==
  ASSUME NEW T \in SUBSET Nat, T # {}
  PROVE  \E i \in T : \A j \in T : i <= j
<1> DEFINE R == {ss \in Nat \X Nat : ss[1] < ss[2]}
<1>1. IsWellFoundedOn(R, Nat)
  BY NatLessThanWellFounded, Zenon DEF OpToRel
<1>2. \E i \in T : \A j \in T : ~(<<j, i>> \in R)
  <2> HIDE DEF R
  <2> QED
    BY <1>1, WFMin, Zenon
<1>3. PICK i \in T : \A j \in T : ~(<<j, i>> \in R)
  BY <1>2
<1>4. ASSUME NEW j \in T PROVE i <= j
  <2>1. ~(j < i)
    BY <1>3
  <2> QED
    BY <2>1
<1> QED
  BY <1>4

LEMMA GreatestNumber ==
  ASSUME NEW n \in Nat, NEW T \in SUBSET (1..n), T # {}
  PROVE  \E i \in T : \A j \in T : j <= i
<1> DEFINE U == {n - j : j \in T}
<1>1. PICK k \in U : \A l \in U : k <= l
  <2>1. \A j \in T : n - j \in Nat
    OBVIOUS
  <2>2. U \in SUBSET Nat /\ U # {}
    BY <2>1
  <2> HIDE DEF U
  <2> QED
    BY <2>2, LeastNumber
<1>2. PICK i \in T : k = n - i
  BY <1>1
<1>3. \A j \in T : n - i <= n - j
  BY <1>1, <1>2
<1>4. \A j \in T : j <= i
  BY <1>3
<1> QED
  BY <1>4

Points == [x : 0..Period, y : 0..Full]

\* What from_csv makes of rows it accepts.
Curve(c) ==
  /\ c \in Seq(Points)
  /\ Len(c) >= 2
  /\ \A i, j \in 1..Len(c) : i < j => c[i].x < c[j].x

LEMMA FromCsvIsCurve ==
  ASSUME NEW csv, Accepted(csv)
  PROVE  Curve(FromCsv(csv))
<1> DEFINE Row == [x : 0..Period, y : Int]
           point(i) == [x |-> csv[i].x, y |-> Clamp(csv[i].y)]
<1>1. PICK n \in Nat : n = Len(csv) /\ n >= 2 /\ DOMAIN csv = 1..n
  BY DEF Accepted
<1>2. ASSUME NEW i \in 1..n PROVE point(i) \in Points
  <2>1. csv[i] \in Row
    <3>1. csv \in Seq(Row)
      BY Zenon DEF Accepted
    <3> HIDE DEF Row
    <3> QED
      BY <1>1, <3>1
  <2>2. csv[i].x \in 0..Period /\ csv[i].y \in Int
    BY <2>1
  <2>3. Clamp(csv[i].y) \in 0..Full
    BY <2>2, CurveAssumption DEF Clamp
  <2> QED
    BY <2>2, <2>3 DEF Points
<1>3. FromCsv(csv) = [i \in 1..n |-> point(i)]
  BY <1>1 DEF FromCsv
<1>4. FromCsv(csv) \in Seq(Points) /\ Len(FromCsv(csv)) = n
  <2> HIDE DEF point
  <2>1. [i \in 1..n |-> point(i)] \in [1..n -> Points]
    BY <1>2
  <2> QED
    BY <1>3, <2>1
<1>5. \A i \in 1..n : FromCsv(csv)[i].x = csv[i].x
  BY <1>3
<1>6. \A i, j \in 1..n : i < j => csv[i].x < csv[j].x
  BY <1>1 DEF Accepted
<1> QED
  BY <1>1, <1>4, <1>5, <1>6 DEF Curve

LEMMA PointsOfCurve ==
  ASSUME NEW c, Curve(c)
  PROVE  /\ Len(c) \in Nat /\ Len(c) >= 2 /\ DOMAIN c = 1..Len(c)
         /\ \A i \in DOMAIN c : c[i].x \in 0..Period /\ c[i].y \in 0..Full
<1>1. Len(c) \in Nat /\ Len(c) >= 2 /\ DOMAIN c = 1..Len(c)
  BY DEF Curve
<1>2. ASSUME NEW i \in DOMAIN c PROVE c[i] \in Points
  BY DEF Curve
<1> QED
  BY <1>1, <1>2 DEF Points

\* p has the ordinate of a point of the curve.
OnCurve(c, p) ==
  p.x \in Int /\ p.y \in Int /\ \E i \in DOMAIN c : p.y = c[i].y

LEMMA LeftOfIsLeft ==
  ASSUME NEW c, Curve(c), NEW f \in 0..(Period - 1)
  PROVE  OnCurve(c, LeftOf(c, f)) /\ LeftOf(c, f).x <= f
<1> DEFINE n == Len(c)
<1>1. n \in Nat /\ n >= 2 /\ DOMAIN c = 1..n
  BY PointsOfCurve
<1>2. \A i \in 1..n : c[i].x \in 0..Period /\ c[i].y \in 0..Full
  BY <1>1, PointsOfCurve
<1>3. Period \in Nat /\ Full \in Nat
  BY CurveAssumption
<1>4. CASE f < c[1].x
  <2>1. LeftOf(c, f) = [x |-> c[n].x - Period, y |-> c[n].y]
    BY <1>4 DEF LeftOf
  <2>2. n \in DOMAIN c /\ c[n].x \in 0..Period /\ c[n].y \in Int
    BY <1>1, <1>2, <1>3
  <2> QED
    BY <1>3, <2>1, <2>2 DEF OnCurve
<1>5. CASE ~(f < c[1].x)
  <2> DEFINE T == {i \in 1..n : c[i].x <= f}
             best(i) == c[i].x <= f /\ \A j \in DOMAIN c : c[j].x <= f => j <= i
  <2>1. \E i \in DOMAIN c : best(i)
    <3>1. 1 \in T
      BY <1>1, <1>2, <1>5
    <3>2. PICK i \in T : \A j \in T : j <= i
      <4>1. T \in SUBSET (1..n) /\ T # {}
        BY <3>1
      <4> HIDE DEF T, n
      <4> QED
        BY <1>1, <4>1, GreatestNumber
    <3> QED
      BY <1>1, <3>2
  <2>2. PICK i \in DOMAIN c : best(i) /\ LeftOf(c, f) = c[i]
    <3> DEFINE i == CHOOSE i \in DOMAIN c : best(i)
    <3>1. i \in DOMAIN c /\ best(i)
      <4> HIDE DEF best
      <4> QED
        BY <2>1
    <3>2. LeftOf(c, f) = c[i]
      BY <1>5 DEF LeftOf
    <3> QED
      BY <3>1, <3>2
  <2> QED
    BY <1>1, <1>2, <1>3, <2>2 DEF OnCurve
<1> QED
  BY <1>4, <1>5

LEMMA RightOfIsRight ==
  ASSUME NEW c, Curve(c), NEW f \in 0..(Period - 1),
         \A i \in DOMAIN c : c[i].x # f
  PROVE  OnCurve(c, RightOf(c, f)) /\ f < RightOf(c, f).x
<1> DEFINE n == Len(c)
<1>1. n \in Nat /\ n >= 2 /\ DOMAIN c = 1..n
  BY PointsOfCurve
<1>2. \A i \in 1..n : c[i].x \in 0..Period /\ c[i].y \in 0..Full
  BY <1>1, PointsOfCurve
<1>3. Period \in Nat /\ Full \in Nat
  BY CurveAssumption
<1>4. CASE f > c[n].x
  <2>1. RightOf(c, f) = [x |-> c[1].x + Period, y |-> c[1].y]
    BY <1>4 DEF RightOf
  <2>2. 1 \in DOMAIN c /\ c[1].x \in 0..Period /\ c[1].y \in Int
    BY <1>1, <1>2, <1>3
  <2> QED
    BY <1>3, <2>1, <2>2 DEF OnCurve
<1>5. CASE ~(f > c[n].x)
  <2> DEFINE T == {i \in 1..n : c[i].x > f}
             best(i) == c[i].x > f /\ \A j \in DOMAIN c : c[j].x > f => i <= j
  <2>1. \E i \in DOMAIN c : best(i)
    <3>1. n \in T
      BY <1>1, <1>2, <1>5
    <3>2. PICK i \in T : \A j \in T : i <= j
      <4>1. T \in SUBSET Nat /\ T # {}
        BY <1>1, <3>1
      <4> HIDE DEF T
      <4> QED
        BY <4>1, LeastNumber
    <3> QED
      BY <1>1, <3>2
  <2>2. PICK i \in DOMAIN c : best(i) /\ RightOf(c, f) = c[i]
    <3> DEFINE i == CHOOSE i \in DOMAIN c : best(i)
    <3>1. i \in DOMAIN c /\ best(i)
      <4> HIDE DEF best
      <4> QED
        BY <2>1
    <3>2. RightOf(c, f) = c[i]
      BY <1>5 DEF RightOf
    <3> QED
      BY <3>1, <3>2
  <2> QED
    BY <1>1, <1>2, <1>3, <2>2 DEF OnCurve
<1> QED
  BY <1>4, <1>5

LEMMA ProductsKeepOrder ==
  ASSUME NEW k \in Nat, NEW m \in Int, NEW n \in Int, m <= n
  PROVE  k * m <= k * n
  OBVIOUS

\* a / w of the way up or down by h
LEMMA ShareIsBounded ==
  ASSUME NEW h \in Int, NEW w \in Nat \ {0}, NEW a \in 0..w
  PROVE  /\ (h * a) \div w \in Int
         /\ h >= 0 => 0 <= (h * a) \div w /\ (h * a) \div w <= h
         /\ h < 0 => h <= (h * a) \div w /\ (h * a) \div w <= 0
<1> DEFINE q == (h * a) \div w
<1>1. q \in Int /\ w * q <= h * a /\ h * a < w * (q + 1)
  OBVIOUS
<1> HIDE DEF q
<1>2. CASE h >= 0
  <2>1. 0 <= h * a /\ h * a <= w * h
    BY <1>2
  <2>2. ~(q < 0)
    <3>1. q < 0 => w * (q + 1) <= w * 0
      BY <1>1, ProductsKeepOrder
    <3> QED
      BY <1>1, <2>1, <3>1
  <2>3. ~(q > h)
    <3>1. q > h => w * (h + 1) <= w * q
      BY <1>1, ProductsKeepOrder
    <3> QED
      BY <1>1, <2>1, <3>1
  <2> QED
    BY <1>1, <1>2, <2>2, <2>3
<1>3. CASE h < 0
  <2>1. w * h <= h * a /\ h * a <= 0
    BY <1>3
  <2>2. ~(q > 0)
    <3>1. q > 0 => w * 1 <= w * q
      BY <1>1, ProductsKeepOrder
    <3> QED
      BY <1>1, <2>1, <3>1
  <2>3. ~(q < h)
    <3>1. q < h => w * (q + 1) <= w * h
      BY <1>1, ProductsKeepOrder
    <3> QED
      BY <1>1, <2>1, <3>1
  <2> QED
    BY <1>1, <1>3, <2>2, <2>3
<1>4. q \in Int
  BY <1>1
<1> QED
  BY <1>2, <1>3, <1>4 DEF q

\* v lies between two points of the curve.
Within(c, v) ==
  v \in Int /\ \E i, j \in DOMAIN c : c[i].y <= v /\ v <= c[j].y

(***************************************************************************)
(* Whatever points a curve has, its value at any time lies between two of  *)
(* them, across the wrap of its period as within it.                       *)
(***************************************************************************)
THEOREM ValueIsWithin ==
  ASSUME NEW c, Curve(c), NEW elapsed \in Nat
  PROVE  Within(c, ValueAtElapsed(c, elapsed))
<1> DEFINE f == elapsed % Period
<1>1. f \in 0..(Period - 1)
  BY CurveAssumption
<1>2. \A i \in DOMAIN c : c[i].y \in Int
  BY CurveAssumption, PointsOfCurve
<1>3. SUFFICES Within(c, ValueAt(c, f))
  BY DEF ValueAtElapsed
<1> HIDE DEF f
<1>4. CASE \E i \in DOMAIN c : c[i].x = f
  <2>1. PICK i \in DOMAIN c : ValueAt(c, f) = c[i].y
    BY <1>4 DEF ValueAt
  <2> QED
    BY <1>2, <2>1 DEF Within
<1>5. CASE \A i \in DOMAIN c : c[i].x # f
  <2> DEFINE l == LeftOf(c, f)
             r == RightOf(c, f)
  <2>1. OnCurve(c, l) /\ OnCurve(c, r) /\ l.x <= f /\ f < r.x
    BY <1>1, <1>5, LeftOfIsLeft, RightOfIsRight
  <2>2. ValueAt(c, f) = l.y + ((r.y - l.y) * (f - l.x)) \div (r.x - l.x)
    BY <1>5 DEF ValueAt, Interpolate
  <2> HIDE DEF l, r
  <2> DEFINE h == r.y - l.y
             w == r.x - l.x
             a == f - l.x
  <2>3. h \in Int /\ w \in Nat \ {0} /\ a \in 0..w /\ l.y \in Int /\ r.y \in Int
    BY <1>1, <2>1, CurveAssumption DEF OnCurve
  <2>4. ValueAt(c, f) = l.y + (h * a) \div w
    BY <2>2
  <2>5. /\ h = r.y - l.y
        /\ \E i \in DOMAIN c : l.y = c[i].y
        /\ \E i \in DOMAIN c : r.y = c[i].y
    BY <2>1 DEF OnCurve
  <2> HIDE DEF h, w, a
  <2> DEFINE q == (h * a) \div w
  <2>6. /\ q \in Int
        /\ h >= 0 => 0 <= q /\ q <= h
        /\ h < 0 => h <= q /\ q <= 0
    BY <2>3, ShareIsBounded
  <2> HIDE DEF q
  <2>7. ValueAt(c, f) = l.y + q
    BY <2>4 DEF q
  <2> QED
    BY <1>2, <2>3, <2>5, <2>6, <2>7 DEF Within
<1> QED
  BY <1>4, <1>5

-----------------------------------------------------------------------------
(* The burner *)

\* Of BurnerTypeOK, what does not depend on the values of the curve.
BurnerBasics ==
  /\ at \in Places
  /\ next \in 1..(NBackends + 1)
  /\ prepared \in BOOLEAN
  /\ slot \subseteq Backends
  /\ proc \in [Backends -> {"none", "running", "told", "dead"}]
  /\ missing \subseteq Backends

LEMMA BurnerBasicsHold == BurnerSpec => []BurnerBasics
<1> USE BurnerAssumption DEF BurnerBasics, Backends, Places, StopLoops
<1>0. 1 \in 1..(NBackends + 1)
  OBVIOUS
<1>1. BurnerInit => BurnerBasics
  BY <1>0, Zenon DEF BurnerInit
<1>2. BurnerBasics /\ [BurnerNext]_burnerVars => BurnerBasics'
  <2> SUFFICES ASSUME BurnerBasics, [BurnerNext]_burnerVars
               PROVE  BurnerBasics'
    OBVIOUS
  <2>1. CASE Spawn
    BY <2>1 DEF Spawn
  <2>2. CASE Store
    BY <2>2 DEF Store
  <2>3. CASE Set
    BY <2>3 DEF Set
  <2>4. CASE StartFails \/ BeginPrepare \/ Prepared \/ StartTime
    BY <2>4, <1>0, Zenon
       DEF StartFails, BeginPrepare, Prepared, StartTime, Enter
  <2>5. CASE Tell \/ KillBackend
    BY <2>5 DEF Tell, KillBackend
  <2>6. CASE Stopped
    BY <2>6 DEF Stopped
  <2>7. CASE TickDue \/ TickDone \/ ScheduleOver
    BY <2>7, <1>0, Zenon DEF TickDue, TickDone, ScheduleOver, Enter
  <2>8. CASE LoopOver
    BY <2>8 DEF LoopOver, Unwind, Enter
  <2>9. CASE Interrupt
    BY <2>9 DEF Interrupt, Unwind, Enter
  <2>10. ASSUME NEW b \in Backends, BackendEnds(b) PROVE BurnerBasics'
    BY <2>10 DEF BackendEnds
  <2>11. CASE UNCHANGED burnerVars
    BY <2>11 DEF burnerVars
  <2> QED
    BY <2>1, <2>2, <2>3, <2>4, <2>5, <2>6, <2>7, <2>8, <2>9, <2>10, <2>11
       DEF BurnerNext, BurnerMain
<1> QED
  BY <1>1, <1>2, PTL DEF BurnerSpec

\* A process that runs and is not stored has just been forked, and its Popen
\* is about to be assigned.
ForkedIsNext ==
  \A b \in Unstored :
    at \in {"preparing", "setting"} /\ b = next /\ b \notin missing

\* A loop that stops backends leaves none running behind it.
LoopStops ==
  at \in StopLoops =>
    \A b \in Backends : b < next => proc[b] # "running"

\* There is something to stop only once backends have been started, and main
\* stops what has been prepared.
PreparedIsKnown ==
  /\ at = "waiting" => \A b \in Backends : proc[b] # "running"
  /\ at = "armed" => prepared

BurnerInv ==
  /\ PreparedIsKnown
  /\ ~cut => ForkedIsNext /\ LoopStops /\ ExitStopsBackends

LEMMA BurnerInductive == BurnerSpec => []BurnerInv
<1> USE BurnerAssumption
    DEF BurnerBasics, BurnerInv, PreparedIsKnown, ForkedIsNext, LoopStops,
        ExitStopsBackends, Backends, Unstored, StopLoops, Enter
<1>1. BurnerInit => BurnerInv
  BY DEF BurnerInit
<1>2. BurnerBasics /\ BurnerInv /\ [BurnerNext]_burnerVars => BurnerInv'
  <2> SUFFICES ASSUME BurnerBasics, BurnerInv, [BurnerNext]_burnerVars
               PROVE  BurnerInv'
    OBVIOUS
  <2>1. CASE Spawn
    BY <2>1 DEF Spawn, CannotStart
  <2>2. CASE Store
    BY <2>2 DEF Store
  <2>3. CASE Set
    BY <2>3 DEF Set
  <2>4. CASE StartFails
    BY <2>4 DEF StartFails, CannotStart
  <2>5. CASE Tell \/ KillBackend
    BY <2>5 DEF Tell, KillBackend
  <2>6. CASE Stopped
    BY <2>6 DEF Stopped
  <2>7. CASE BeginPrepare \/ Prepared \/ StartTime
    BY <2>7 DEF BeginPrepare, Prepared, StartTime
  <2>8. CASE TickDue \/ TickDone \/ ScheduleOver
    BY <2>8 DEF TickDue, TickDone, ScheduleOver
  <2>9. CASE LoopOver
    BY <2>9 DEF LoopOver, Unwind
  <2>10. CASE Interrupt
    <3>1. /\ at' = IF at \in {"sleeping", "setting"} THEN "stopping" ELSE Unwind
          /\ at # "gone" /\ next' = 1
          /\ proc' = proc /\ slot' = slot /\ prepared' = prepared
      BY <2>10 DEF Interrupt
    <3>2. PreparedIsKnown'
      BY <3>1 DEF Unwind
    <3>3. ASSUME ~cut' PROVE (ForkedIsNext /\ LoopStops /\ ExitStopsBackends)'
      <4>1. /\ ~cut
            /\ Unstored = {}
            /\ TakenUpByNobody => \A b \in Backends : proc[b] # "running"
        BY <2>10, <3>3, Zenon DEF Interrupt
      <4>2. ForkedIsNext' /\ LoopStops'
        BY <3>1, <4>1
      <4>3. ASSUME at' = "gone" PROVE \A b \in Backends : proc[b] # "running"
        <5>1. at = "waiting" \/ TakenUpByNobody
          BY <3>1, <4>3 DEF Unwind, TakenUpByNobody, Places
        <5> QED
          BY <4>1, <5>1
      <4> QED
        BY <3>1, <4>2, <4>3
    <3> QED
      BY <3>2, <3>3
  <2>11. ASSUME NEW b \in Backends, BackendEnds(b) PROVE BurnerInv'
    BY <2>11 DEF BackendEnds
  <2>12. CASE UNCHANGED burnerVars
    BY <2>12 DEF burnerVars
  <2> QED
    BY <2>1, <2>2, <2>3, <2>4, <2>5, <2>6, <2>7, <2>8, <2>9, <2>10, <2>11,
       <2>12 DEF BurnerNext, BurnerMain
<1> QED
  BY <1>1, <1>2, BurnerBasicsHold, PTL DEF BurnerSpec

(***************************************************************************)
(* A burner that is gone has told each of its backends to end, however     *)
(* many there are and however often it was signalled, unless a signal cut  *)
(* off a loop nobody takes up again.                                       *)
(***************************************************************************)
THEOREM ExitStopsBackendsHolds == BurnerSpec => []ExitStopsBackends
<1>1. BurnerInv => ExitStopsBackends
  BY DEF BurnerInv, ExitStopsBackends
<1> QED
  BY <1>1, BurnerInductive, PTL

\* What a control file says is a value of the curve, which stays what it was.
LevelInv ==
  /\ Curve(curve)
  /\ tick \in Nat
  /\ level \in [Backends -> Int]
  /\ LevelWithinCurve

LEMMA IntensityIsWithin ==
  ASSUME LevelInv
  PROVE  Within(curve, Intensity)
<1>1. tick * Step \in Nat
  BY BurnerAssumption DEF LevelInv
<1> QED
  BY <1>1, ValueIsWithin DEF LevelInv, Intensity

LEMMA LevelInductive == BurnerSpec => []LevelInv
<1>1. BurnerInit => LevelInv
  <2> SUFFICES ASSUME BurnerInit PROVE LevelInv
    OBVIOUS
  <2>1. Curve(curve)
    BY FromCsvIsCurve, BurnerAssumption DEF BurnerInit
  <2> QED
    BY <2>1 DEF BurnerInit, LevelInv, LevelWithinCurve
<1>2. BurnerBasics /\ LevelInv /\ [BurnerNext]_burnerVars => LevelInv'
  <2> SUFFICES ASSUME BurnerBasics, LevelInv, [BurnerNext]_burnerVars
               PROVE  LevelInv'
    OBVIOUS
  <2>1. ASSUME NEW v, v = 0 \/ Within(curve, v), v \in Int,
               level' = [level EXCEPT ![next] = v], UNCHANGED <<curve, tick>>
        PROVE  LevelInv'
    BY <2>1 DEF LevelInv, LevelWithinCurve, Within
  <2>2. CASE Spawn
    <3>1. Intensity \in Int /\ Within(curve, Intensity)
      BY IntensityIsWithin DEF Within
    <3>2. CASE at = "setting"
      BY <2>1, <2>2, <3>1, <3>2 DEF Spawn
    <3>3. CASE at # "setting"
      <4>1. PICK v \in Int : v = 0
        OBVIOUS
      <4>2. level' = [level EXCEPT ![next] = v] /\ UNCHANGED <<curve, tick>>
        BY <2>2, <3>3, <4>1 DEF Spawn
      <4> QED
        BY <2>1, <4>1, <4>2
    <3> QED
      BY <3>2, <3>3
  <2>3. CASE Set
    <3>1. Intensity \in Int /\ Within(curve, Intensity)
      BY IntensityIsWithin DEF Within
    <3> QED
      BY <2>1, <2>3, <3>1 DEF Set
  <2>4. ASSUME UNCHANGED <<curve, level>>, tick' \in Nat PROVE LevelInv'
    BY <2>4 DEF LevelInv, LevelWithinCurve
  <2>5. CASE TickDone
    BY <2>4, <2>5 DEF TickDone, LevelInv
  <2>6. CASE \/ Store \/ StartFails \/ Tell \/ KillBackend \/ Stopped
             \/ BeginPrepare \/ Prepared \/ StartTime \/ TickDue
             \/ ScheduleOver \/ LoopOver \/ Interrupt
             \/ \E b \in Backends : BackendEnds(b)
    <3>1. UNCHANGED <<curve, level, tick>>
      BY <2>6 DEF Store, StartFails, Tell, KillBackend, Stopped, BeginPrepare,
         Prepared, StartTime, TickDue, ScheduleOver, LoopOver, Interrupt,
         BackendEnds
    <3> QED
      BY <2>4, <3>1 DEF LevelInv
  <2>7. CASE UNCHANGED burnerVars
    BY <2>4, <2>7 DEF burnerVars, LevelInv
  <2> QED
    BY <2>2, <2>3, <2>5, <2>6, <2>7 DEF BurnerNext, BurnerMain
<1> QED
  BY <1>1, <1>2, BurnerBasicsHold, PTL DEF BurnerSpec

(***************************************************************************)
(* The intensity the burner asks for lies between the lowest and the       *)
(* highest point of its curve, for every curve from_csv accepts, every     *)
(* period and every number of ticks.                                       *)
(***************************************************************************)
THEOREM LevelWithinCurveHolds == BurnerSpec => []LevelWithinCurve
<1>1. LevelInv => LevelWithinCurve
  BY DEF LevelInv
<1> QED
  BY <1>1, LevelInductive, PTL

\* The intensity is set only for ticks there are.
TicksInv ==
  /\ tick \in 0..Ticks
  /\ at = "setting" => tick < Ticks
  /\ signals \in 0..MaxSignals
  /\ cut \in BOOLEAN

LEMMA BurnerTypeCorrect == BurnerSpec => []BurnerTypeOK
<1>1. BurnerInit => TicksInv
  <2>1. 0 \in 0..Ticks /\ 0 \in 0..MaxSignals
    BY BurnerAssumption
  <2> QED
    BY <2>1 DEF BurnerInit, TicksInv
<1>2. BurnerBasics /\ TicksInv /\ [BurnerNext]_burnerVars => TicksInv'
  <2> SUFFICES ASSUME BurnerBasics, TicksInv, [BurnerNext]_burnerVars
               PROVE  TicksInv'
    OBVIOUS
  <2> USE BurnerAssumption DEF TicksInv, BurnerBasics
  <2>1. CASE Spawn \/ Store \/ Set \/ Tell \/ KillBackend \/ Stopped
    BY <2>1 DEF Spawn, Store, Set, Tell, KillBackend, Stopped
  <2>2. CASE StartFails \/ BeginPrepare \/ Prepared \/ StartTime
    BY <2>2 DEF StartFails, BeginPrepare, Prepared, StartTime, Enter
  <2>3. CASE TickDue \/ TickDone \/ ScheduleOver \/ LoopOver
    BY <2>3 DEF TickDue, TickDone, ScheduleOver, LoopOver, Unwind, Enter,
                StopLoops
  <2>4. CASE Interrupt
    <3>1. at' # "setting" /\ tick' = tick /\ signals' \in 0..MaxSignals
      BY <2>4 DEF Interrupt, Unwind, Enter
    <3>2. cut' \in BOOLEAN
      BY <2>4, Zenon DEF Interrupt
    <3> QED
      BY <3>1, <3>2
  <2>5. ASSUME NEW b \in Backends, BackendEnds(b) PROVE TicksInv'
    BY <2>5 DEF BackendEnds
  <2>6. CASE UNCHANGED burnerVars
    BY <2>6 DEF burnerVars
  <2> QED
    BY <2>1, <2>2, <2>3, <2>4, <2>5, <2>6 DEF BurnerNext, BurnerMain
<1>3. BurnerBasics /\ LevelInv /\ TicksInv => BurnerTypeOK
  BY DEF BurnerBasics, LevelInv, TicksInv, BurnerTypeOK
<1> QED
  BY <1>1, <1>2, <1>3, BurnerBasicsHold, LevelInductive, PTL DEF BurnerSpec

-----------------------------------------------------------------------------
(* Sums over finite sets *)

LEMMA LeastSet ==
  ASSUME NEW S, IsFiniteSet(S), NEW F \in SUBSET (SUBSET S), F # {}
  PROVE  \E X \in F : \A Y \in F : Y \subseteq X => Y = X
<1>1. IsWellFoundedOn(StrictSubsetOrdering(S), FiniteSubsetsOf(S))
  BY FS_StrictSubsetOrderingWellFounded
<1>2. F \subseteq FiniteSubsetsOf(S)
  BY FS_Subset DEF FiniteSubsetsOf
<1>3. \E X \in F : \A Y \in F : ~(<<Y, X>> \in StrictSubsetOrdering(S))
  BY <1>1, <1>2, WFMin, Zenon
<1> QED
  BY <1>3 DEF StrictSubsetOrdering

First(S) == CHOOSE x \in S : TRUE

\* The function by which Total is defined.
Sums(f, S, g) ==
  g = [T \in SUBSET S |->
         IF T = {} THEN 0 ELSE f[First(T)] + g[T \ {First(T)}]]

LEMMA SumsAgree ==
  ASSUME NEW f, NEW S, IsFiniteSet(S), NEW R \in SUBSET S, NEW g, NEW h,
         Sums(f, R, g), Sums(f, S, h)
  PROVE  \A T \in SUBSET R : g[T] = h[T]
<1> DEFINE Bad == {T \in SUBSET R : g[T] # h[T]}
<1> SUFFICES ASSUME Bad # {} PROVE FALSE
  OBVIOUS
<1>1. PICK T \in Bad : \A U \in Bad : U \subseteq T => U = T
  <2>1. Bad \in SUBSET (SUBSET R) /\ IsFiniteSet(R)
    BY FS_Subset
  <2> HIDE DEF Bad
  <2> QED
    BY <2>1, LeastSet
<1>2. CASE T = {}
  BY <1>2 DEF Sums
<1>3. CASE T # {}
  <2>1. First(T) \in T
    BY <1>3 DEF First
  <2>2. g[T \ {First(T)}] = h[T \ {First(T)}]
    BY <1>1, <2>1
  <2>3. g[T] = f[First(T)] + g[T \ {First(T)}]
    BY <1>3 DEF Sums
  <2>4. h[T] = f[First(T)] + h[T \ {First(T)}]
    BY <1>3 DEF Sums
  <2> QED
    BY <2>2, <2>3, <2>4
<1> QED
  BY <1>2, <1>3

LEMMA SumsExist ==
  ASSUME NEW f, NEW S, IsFiniteSet(S)
  PROVE  \E g : Sums(f, S, g)
<1> DEFINE Bad == {T \in SUBSET S : ~ \E g : Sums(f, T, g)}
<1> SUFFICES ASSUME Bad # {} PROVE FALSE
  OBVIOUS
<1>1. PICK X \in Bad : \A Y \in Bad : Y \subseteq X => Y = X
  <2>1. Bad \in SUBSET (SUBSET S)
    OBVIOUS
  <2> HIDE DEF Bad
  <2> QED
    BY <2>1, LeastSet
<1> DEFINE G(T) == CHOOSE g : Sums(f, T, g)
           Rest(T) == T \ {First(T)}
           new == [T \in SUBSET X |->
                     IF T = {} THEN 0 ELSE f[First(T)] + G(Rest(T))[Rest(T)]]
<1>2. \A T \in SUBSET X : T # X => Sums(f, T, G(T))
  BY <1>1
<1>3. \A T \in SUBSET X : T # {} =>
        First(T) \in T /\ Rest(T) \in SUBSET X /\ Rest(T) # X
  BY DEF First
<1>4. ASSUME NEW T \in SUBSET X, T # X PROVE new[T] = G(T)[T]
  <2>1. Sums(f, T, G(T))
    BY <1>2, <1>4
  <2>2. CASE T = {}
    BY <2>1, <2>2 DEF Sums
  <2>3. CASE T # {}
    <3>1. G(T)[T] = f[First(T)] + G(T)[Rest(T)]
      <4> HIDE DEF G
      <4> QED
        BY <2>1, <2>3 DEF Sums
    <3>2. Sums(f, Rest(T), G(Rest(T))) /\ Rest(T) \in SUBSET T
      BY <1>2, <1>3, <2>3
    <3>3. G(Rest(T))[Rest(T)] = G(T)[Rest(T)]
      <4>1. IsFiniteSet(T)
        BY FS_Subset
      <4> HIDE DEF G, Rest
      <4>2. \A U \in SUBSET Rest(T) : G(Rest(T))[U] = G(T)[U]
        BY <2>1, <3>2, <4>1, SumsAgree
      <4> QED
        BY <4>2
    <3> QED
      BY <2>3, <3>1, <3>3
  <2> QED
    BY <2>2, <2>3
<1>5. Sums(f, X, new)
  <2>1. new = [T \in SUBSET X |->
                 IF T = {} THEN 0 ELSE f[First(T)] + new[Rest(T)]]
    <3> DEFINE now(T) == IF T = {} THEN 0 ELSE f[First(T)] + new[Rest(T)]
               old(T) == IF T = {} THEN 0
                         ELSE f[First(T)] + G(Rest(T))[Rest(T)]
    <3>1. \A T \in SUBSET X : now(T) = old(T)
      <4> HIDE DEF G, Rest, new
      <4> QED
        BY <1>3, <1>4
    <3>2. new = [T \in SUBSET X |-> old(T)]
      OBVIOUS
    <3>3. [T \in SUBSET X |-> old(T)] = [T \in SUBSET X |-> now(T)]
      <4> HIDE DEF old, now
      <4> QED
        BY <3>1
    <3> QED
      BY <3>2, <3>3, Zenon
  <2> QED
    BY <2>1, Zenon DEF Sums
<1> QED
  BY <1>1, <1>5

LEMMA TotalIsSum ==
  ASSUME NEW f, NEW S, IsFiniteSet(S)
  PROVE  \E g : Sums(f, S, g) /\ Total(f, S) = g[S]
<1>1. \E g : Sums(f, S, g)
  BY SumsExist
<1>2. Sums(f, S, CHOOSE g : Sums(f, S, g))
  BY <1>1
<1>3. Total(f, S) = (CHOOSE g : Sums(f, S, g))[S]
  BY DEF Total, MapThenSumSet, MapThenFoldSet, Sums, First
<1> QED
  BY <1>2, <1>3

LEMMA TotalStep ==
  ASSUME NEW f, NEW S, IsFiniteSet(S)
  PROVE  /\ S = {} => Total(f, S) = 0
         /\ S # {} => /\ First(S) \in S
                      /\ Total(f, S) = f[First(S)] + Total(f, S \ {First(S)})
<1>1. PICK g : Sums(f, S, g) /\ Total(f, S) = g[S]
  BY TotalIsSum
<1>2. CASE S = {}
  BY <1>1, <1>2 DEF Sums
<1>3. CASE S # {}
  <2> DEFINE R == S \ {First(S)}
  <2>1. First(S) \in S
    BY <1>3 DEF First
  <2>2. IsFiniteSet(R)
    BY FS_Subset
  <2>3. PICK h : Sums(f, R, h) /\ Total(f, R) = h[R]
    BY <2>2, TotalIsSum
  <2>4. h[R] = g[R]
    <3>1. R \in SUBSET S
      OBVIOUS
    <3> HIDE DEF R
    <3>2. \A T \in SUBSET R : h[T] = g[T]
      BY <1>1, <2>3, <3>1, SumsAgree
    <3> QED
      BY <3>2
  <2>5. g[S] = f[First(S)] + g[R]
    BY <1>1, <1>3 DEF Sums
  <2> QED
    BY <1>1, <1>3, <2>1, <2>3, <2>4, <2>5
<1> QED
  BY <1>2, <1>3

LEMMA TotalIsNat ==
  ASSUME NEW Z, NEW f \in [Z -> Nat], NEW S \in SUBSET Z, IsFiniteSet(S)
  PROVE  Total(f, S) \in Nat
<1> DEFINE Bad == {T \in SUBSET S : Total(f, T) \notin Nat}
<1> SUFFICES ASSUME Bad # {} PROVE FALSE
  OBVIOUS
<1>1. PICK T \in Bad : \A U \in Bad : U \subseteq T => U = T
  <2>1. Bad \in SUBSET (SUBSET S)
    OBVIOUS
  <2> HIDE DEF Bad
  <2> QED
    BY <2>1, LeastSet
<1>2. IsFiniteSet(T)
  BY FS_Subset
<1>3. T # {}
  <2>1. T = {} => Total(f, T) = 0
    BY <1>2, TotalStep
  <2> QED
    BY <2>1
<1>4. First(T) \in T /\ Total(f, T) = f[First(T)] + Total(f, T \ {First(T)})
  BY <1>2, <1>3, TotalStep
<1>5. Total(f, T \ {First(T)}) \in Nat
  BY <1>1, <1>4
<1> QED
  BY <1>4, <1>5

LEMMA TotalOfNothing ==
  ASSUME NEW f, NEW S, IsFiniteSet(S), \A z \in S : f[z] = 0
  PROVE  Total(f, S) = 0
<1> DEFINE Bad == {T \in SUBSET S : Total(f, T) # 0}
<1> SUFFICES ASSUME Bad # {} PROVE FALSE
  OBVIOUS
<1>1. PICK T \in Bad : \A U \in Bad : U \subseteq T => U = T
  <2>1. Bad \in SUBSET (SUBSET S)
    OBVIOUS
  <2> HIDE DEF Bad
  <2> QED
    BY <2>1, LeastSet
<1>2. IsFiniteSet(T)
  BY FS_Subset
<1>3. T # {}
  BY <1>2, TotalStep
<1>4. First(T) \in T /\ Total(f, T) = f[First(T)] + Total(f, T \ {First(T)})
  BY <1>2, <1>3, TotalStep
<1>5. Total(f, T \ {First(T)}) = 0
  BY <1>1, <1>4
<1> QED
  BY <1>4, <1>5

LEMMA TotalMoves ==
  ASSUME NEW Z, NEW f \in [Z -> Nat], NEW h \in [Z -> Nat], NEW z \in Z,
         NEW d \in Int, h[z] = f[z] + d, \A y \in Z \ {z} : h[y] = f[y],
         NEW S \in SUBSET Z, IsFiniteSet(S)
  PROVE  /\ z \in S => Total(h, S) = Total(f, S) + d
         /\ z \notin S => Total(h, S) = Total(f, S)
<1> DEFINE moved(T) == IF z \in T THEN d ELSE 0
           Bad == {T \in SUBSET S : Total(h, T) # Total(f, T) + moved(T)}
<1> SUFFICES ASSUME Bad # {} PROVE FALSE
  BY TotalIsNat
<1>1. PICK T \in Bad : \A U \in Bad : U \subseteq T => U = T
  <2>1. Bad \in SUBSET (SUBSET S)
    OBVIOUS
  <2> HIDE DEF Bad
  <2> QED
    BY <2>1, LeastSet
<1>2. IsFiniteSet(T)
  BY FS_Subset
<1>3. T # {}
  <2>1. T = {} => Total(f, T) = 0 /\ Total(h, T) = 0
    BY <1>2, TotalStep
  <2> QED
    BY <2>1
<1> DEFINE x == First(T)
           R == T \ {x}
<1>4. /\ x \in T
      /\ Total(f, T) = f[x] + Total(f, R)
      /\ Total(h, T) = h[x] + Total(h, R)
  BY <1>2, <1>3, TotalStep
<1>5. Total(h, R) = Total(f, R) + moved(R)
  BY <1>1, <1>4
<1>6. Total(f, R) \in Nat
  BY <1>2, FS_Subset, TotalIsNat
<1>7. h[x] + moved(R) = f[x] + moved(T)
  <2> HIDE DEF x
  <2> QED
    BY <1>4
<1>8. f[x] \in Int /\ h[x] \in Int /\ moved(R) \in Int /\ moved(T) \in Int
  BY <1>4
<1>9. Total(h, T) = Total(f, T) + moved(T)
  <2> HIDE DEF x, R, moved
  <2> QED
    BY <1>4, <1>5, <1>6, <1>7, <1>8
<1> QED
  BY <1>9

-----------------------------------------------------------------------------
(* The watcher *)

LEMMA WrapIsTurns ==
  ASSUME NEW e \in Nat
  PROVE  e % Turn \in 0..(Turn - 1) /\ \E k \in Nat : e % Turn = e - Turn * k
<1>1. Turn \in Nat /\ Turn > 0
  BY WatchAssumption
<1>2. e \div Turn \in Nat /\ e % Turn = e - Turn * (e \div Turn)
  BY <1>1
<1>3. e % Turn \in 0..(Turn - 1)
  BY <1>1
<1> QED
  BY <1>2, <1>3

LEMMA ZonesAreFinite == \A S \in SUBSET Zones : IsFiniteSet(S)
  BY WatchAssumption, FS_Subset

\* Another sample is taken only if there are some left.
SamplesLeft ==
  watch \in {"opening", "sampling", "sleeping"} => rows < MaxSamples

LEMMA WatchTypeCorrect == WatchSpec => [](WatchTypeOK /\ SamplesLeft)
<1> USE WatchAssumption DEF WatchTypeOK, SamplesLeft, Blank
<1>1. WatchInit => WatchTypeOK /\ SamplesLeft
  <2> SUFFICES ASSUME WatchInit PROVE WatchTypeOK /\ SamplesLeft
    OBVIOUS
  <2>1. used \in [Zones -> 0..MaxUse] /\ rows \in 0..MaxSamples
    BY DEF WatchInit
  <2>2. 0 < MaxSamples /\ 0 \in Nat
    OBVIOUS
  <2> QED
    BY <2>1, <2>2 DEF WatchInit
<1>2. WatchTypeOK /\ SamplesLeft /\ [WatchNext]_watchVars
        => WatchTypeOK' /\ SamplesLeft'
  <2> SUFFICES ASSUME WatchTypeOK, SamplesLeft, [WatchNext]_watchVars
               PROVE  WatchTypeOK' /\ SamplesLeft'
    OBVIOUS
  <2>1. ASSUME NEW z \in Zones, NEW d \in Draws, Draw(z, d)
        PROVE  WatchTypeOK' /\ SamplesLeft'
    <3>1. (energy[z] + d) % Turn \in 0..(Turn - 1)
      <4>1. energy[z] + d \in Nat
        OBVIOUS
      <4> QED
        BY <4>1, WrapIsTurns
    <3>2. energy' \in [Zones -> 0..(Turn - 1)]
      BY <2>1, <3>1 DEF Draw
    <3>3. used' \in [Zones -> 0..MaxUse]
      BY <2>1 DEF Draw
    <3> QED
      BY <2>1, <3>2, <3>3, Zenon DEF Draw
  <2>2. CASE Open \/ OpenFails \/ WriteRow \/ WakeUp
    BY <2>2 DEF Open, OpenFails, WriteRow, WakeUp
  <2>3. ASSUME NEW readable \in SUBSET Zones, Sample(readable)
        PROVE  WatchTypeOK' /\ SamplesLeft'
    <3>1. Total(energy, readable) \in Nat /\ Total(used, readable) \in Nat
      <4>1. energy \in [Zones -> Nat] /\ used \in [Zones -> Nat]
        OBVIOUS
      <4> QED
        BY <4>1, ZonesAreFinite, TotalIsNat
    <3>2. cpu' \in Nat \cup {Blank} /\ previous' \in Nat /\ truth' \in Nat
      BY <2>3, <3>1 DEF Sample, Difference
    <3>3. used' \in [Zones -> 0..MaxUse]
      BY <2>3 DEF Sample
    <3>4. gpu' \in Nat \cup {Blank} /\ rows' \in 0..MaxSamples
      BY <2>3 DEF Sample, GpuReading
    <3>5. energy' = energy /\ display' = display /\ cutOff' = cutOff
          /\ watch' = "writing" /\ source' = readable /\ whole' \in BOOLEAN
      BY <2>3 DEF Sample
    <3> QED
      BY <3>2, <3>3, <3>4, <3>5
  <2>4. CASE SampleNothing
    BY <2>4 DEF SampleNothing, GpuReading
  <2>5. CASE Show
    BY <2>5 DEF Show
  <2>6. CASE CtrlC \/ Sigterm
    BY <2>6 DEF CtrlC, Sigterm
  <2>7. CASE UNCHANGED watchVars
    BY <2>7 DEF watchVars
  <2> QED
    BY <2>1, <2>2, <2>3, <2>4, <2>5, <2>6, <2>7 DEF WatchNext
<1> QED
  BY <1>1, <1>2, PTL DEF WatchSpec

(***************************************************************************)
(* The watcher gives the terminal back, however many samples it takes and  *)
(* wherever it is stopped, unless it is killed, or ends before its output  *)
(* file is open.                                                           *)
(***************************************************************************)
THEOREM TerminalRestoredHolds == WatchSpec => []TerminalRestored
<1> USE DEF TerminalRestored
<1>1. WatchInit => TerminalRestored
  BY DEF WatchInit
<1>2. WatchTypeOK /\ TerminalRestored /\ [WatchNext]_watchVars
        => TerminalRestored'
  <2> SUFFICES ASSUME WatchTypeOK, TerminalRestored, [WatchNext]_watchVars
               PROVE  TerminalRestored'
    OBVIOUS
  <2>1. CASE Show
    BY <2>1, WatchAssumption DEF Show, WatchTypeOK
  <2>2. CASE WatchNext /\ ~Show
    BY <2>2 DEF WatchNext, Draw, Open, OpenFails, Sample, SampleNothing,
                WriteRow, WakeUp, CtrlC, Sigterm
  <2>3. CASE UNCHANGED watchVars
    BY <2>3 DEF watchVars
  <2> QED
    BY <2>1, <2>2, <2>3
<1> QED
  BY <1>1, <1>2, WatchTypeCorrect, PTL DEF WatchSpec

\* The zones of the last good reading have moved on from it by what they have
\* used since, but for whole turns.
EnergyInv ==
  /\ previous # Blank =>
       \E k \in Nat :
         Total(energy, source) = previous + Total(used, source) - Turn * k
  /\ EnergyIsTrue

LEMMA DrawKeepsEnergy ==
  ASSUME WatchTypeOK, EnergyInv,
         NEW z \in Zones, NEW d \in Draws, Draw(z, d)
  PROVE  EnergyInv'
<1>1. /\ previous' = previous /\ source' = source
      /\ cpu' = cpu /\ truth' = truth /\ whole' = whole
  BY DEF Draw
<1>2. SUFFICES ASSUME previous # Blank
               PROVE  \E k \in Nat : Total(energy', source) =
                        previous + Total(used', source) - Turn * k
  BY <1>1, Zenon DEF EnergyInv, EnergyIsTrue
<1>3. PICK k \in Nat :
        Total(energy, source) = previous + Total(used, source) - Turn * k
  BY <1>2 DEF EnergyInv
<1>4. PICK e \in Nat : e = energy[z] + d
  BY WatchAssumption DEF WatchTypeOK
<1>5. PICK l \in Nat : e % Turn = e - Turn * l
  BY WrapIsTurns
<1>6. PICK n \in Int : n = d - Turn * l
  BY WatchAssumption
<1>7. /\ energy \in [Zones -> Nat] /\ energy' \in [Zones -> Nat]
      /\ energy'[z] = energy[z] + n
      /\ \A y \in Zones \ {z} : energy'[y] = energy[y]
  <2>1. e % Turn \in Nat /\ e % Turn = energy[z] + n
    BY <1>4, <1>5, <1>6, WrapIsTurns, WatchAssumption DEF WatchTypeOK
  <2> QED
    BY <1>4, <2>1 DEF Draw, WatchTypeOK
<1>8. /\ used \in [Zones -> Nat] /\ used' \in [Zones -> Nat]
      /\ used'[z] = used[z] + d
      /\ \A y \in Zones \ {z} : used'[y] = used[y]
  BY WatchAssumption DEF Draw, WatchTypeOK
<1>9. source \in SUBSET Zones /\ IsFiniteSet(source)
  BY ZonesAreFinite DEF WatchTypeOK
<1>10. /\ Total(energy, source) \in Nat /\ Total(used, source) \in Nat
       /\ previous \in Nat
  BY <1>2, <1>7, <1>8, <1>9, TotalIsNat DEF WatchTypeOK
<1>11. CASE z \in source
  <2>1. Total(energy', source) = Total(energy, source) + n
    BY <1>7, <1>9, <1>11, TotalMoves
  <2>2. Total(used', source) = Total(used, source) + d
    BY <1>8, <1>9, <1>11, WatchAssumption, TotalMoves
  <2>3. Total(energy', source) =
          previous + Total(used', source) - Turn * (k + l)
    BY <1>3, <1>6, <1>10, <2>1, <2>2, WatchAssumption
  <2> QED
    BY <2>3
<1>12. CASE z \notin source
  <2>1. Total(energy', source) = Total(energy, source)
    BY <1>7, <1>9, <1>12, TotalMoves
  <2>2. Total(used', source) = Total(used, source)
    BY <1>8, <1>9, <1>12, WatchAssumption, TotalMoves
  <2> QED
    BY <1>3, <2>1, <2>2
<1> QED
  BY <1>11, <1>12

LEMMA SampleKeepsEnergy ==
  ASSUME WatchTypeOK, EnergyInv, NEW readable \in SUBSET Zones,
         Sample(readable)
  PROVE  EnergyInv'
<1> USE WatchAssumption DEF WatchTypeOK, EnergyInv
<1>1. /\ energy' = energy /\ used' = [z \in Zones |-> 0]
      /\ source' = readable /\ previous' = Total(energy, readable)
      /\ cpu' = Difference(Total(energy, readable))
      /\ truth' = Total(used, readable)
      /\ whole' = (readable = source)
  BY DEF Sample
<1>2. /\ energy \in [Zones -> Nat] /\ used \in [Zones -> Nat]
      /\ IsFiniteSet(readable)
  BY ZonesAreFinite
<1>3. Total(energy, readable) \in Nat /\ Total(used, readable) \in Nat
  BY <1>2, TotalIsNat
<1>4. Total(used', readable) = 0
  <2>1. \A z \in readable : used'[z] = 0
    BY <1>1
  <2> QED
    BY <1>2, <2>1, TotalOfNothing
<1>5. Total(energy', source') = previous' + Total(used', source') - Turn * 0
  BY <1>1, <1>3, <1>4
<1>6. ASSUME cpu' # Blank, whole', truth' < Turn PROVE cpu' = truth'
  <2>1. readable = source
    BY <1>1, <1>6
  <2>2. previous # Blank /\ cpu' = Total(energy, source) - previous
        /\ previous <= Total(energy, source)
    BY <1>1, <1>3, <1>6, <2>1 DEF Difference, Blank
  <2>3. PICK k \in Nat :
          Total(energy, source) = previous + Total(used, source) - Turn * k
    BY <2>2
  <2>4. cpu' = truth' - Turn * k /\ cpu' >= 0
    BY <1>1, <1>3, <2>1, <2>2, <2>3
  <2>5. k = 0
    <3>1. truth' \in Nat
      BY <1>1, <1>3
    <3>2. k >= 1 => Turn * k >= Turn
      OBVIOUS
    <3> QED
      BY <1>6, <2>4, <3>1, <3>2
  <2> QED
    BY <1>1, <1>3, <2>4, <2>5
<1> QED
  BY <1>5, <1>6 DEF EnergyIsTrue

(***************************************************************************)
(* A CPU value that is written is the energy that was used, for any number *)
(* of zones, any width of the counters and any failing reads, if its two   *)
(* readings are of the same zones and less than a turn was used.           *)
(***************************************************************************)
THEOREM EnergyIsTrueHolds == WatchSpec => []EnergyIsTrue
<1>1. WatchInit => EnergyInv
  BY DEF WatchInit, EnergyInv, EnergyIsTrue
<1>2. WatchTypeOK /\ EnergyInv /\ [WatchNext]_watchVars => EnergyInv'
  <2> SUFFICES ASSUME WatchTypeOK, EnergyInv, [WatchNext]_watchVars
               PROVE  EnergyInv'
    OBVIOUS
  <2>1. ASSUME NEW z \in Zones, NEW d \in Draws, Draw(z, d)
        PROVE  EnergyInv'
    BY <2>1, DrawKeepsEnergy
  <2>2. ASSUME NEW readable \in SUBSET Zones, Sample(readable)
        PROVE  EnergyInv'
    BY <2>2, SampleKeepsEnergy
  <2>3. CASE SampleNothing
    BY <2>3 DEF SampleNothing, EnergyInv, EnergyIsTrue
  <2>4. CASE \/ Open \/ OpenFails \/ WriteRow \/ Show \/ WakeUp \/ CtrlC
             \/ Sigterm \/ UNCHANGED watchVars
    BY <2>4 DEF Open, OpenFails, WriteRow, Show, WakeUp, CtrlC, Sigterm,
                watchVars, EnergyInv, EnergyIsTrue
  <2> QED
    BY <2>1, <2>2, <2>3, <2>4 DEF WatchNext
<1>3. EnergyInv => EnergyIsTrue
  BY DEF EnergyInv
<1> QED
  BY <1>1, <1>2, <1>3, WatchTypeCorrect, PTL DEF WatchSpec

-----------------------------------------------------------------------------
(* The machine *)

(***************************************************************************)
(* On the machine as the runs have it, each program is what its own module *)
(* says, whichever program the behaviour is about: what is proved of a     *)
(* program holds there too.                                                *)
(***************************************************************************)
THEOREM MachineHasPrograms ==
  MachineSpec => FairSpec /\ BurnerSpec /\ ContainerFairSpec /\ WatchSpec
<1>1. MachineInit => Init /\ BurnerInit /\ ContainerInit /\ WatchInit
  BY DEF MachineInit
<1>2. [MachineNext]_machineVars =>
        /\ [Next]_vars /\ [BurnerNext]_burnerVars
        /\ [ContainerNext]_containerVars /\ [WatchNext]_watchVars
  BY Zenon DEF MachineNext, machineVars
<1> QED
  BY <1>1, <1>2, PTL
     DEF MachineSpec, FairSpec, Spec, BurnerSpec, ContainerFairSpec,
         ContainerSpec, WatchSpec

(***************************************************************************)
(* The variables of every program on the machine keep their types.         *)
(***************************************************************************)
THEOREM MachineTypesHold == MachineSpec => []MachineTypes
<1>1. TypeOK /\ BurnerTypeOK /\ ContainerTypeOK /\ WatchTypeOK => MachineTypes
  BY DEF MachineTypes
<1> QED
  BY <1>1, MachineHasPrograms, RunnerTypeCorrect, BurnerTypeCorrect,
     ContainerTypeCorrect, WatchTypeCorrect, PTL
     DEF FairSpec, ContainerFairSpec
=============================================================================
