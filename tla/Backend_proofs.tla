--------------------------- MODULE Backend_proofs ---------------------------
(***************************************************************************)
(* Proofs about the parts of the backend that are not about jobs: its      *)
(* connection to a machine, for any number of calls; the tasks that        *)
(* prepare machines, for any fleet and any number of tasks; what a page    *)
(* shows, for any registry and any losses; and about the parts together.   *)
(***************************************************************************)
EXTENDS MCBackend, Workloads_proofs, FiniteSetTheorems, TLAPS

-----------------------------------------------------------------------------
(* The connection *)

LEMMA SshTypeCorrect == SshSpec => []SshTypeOK
<1> USE DEF SshTypeOK
<1>1. SshInit => SshTypeOK
  BY Zenon DEF SshInit
<1>2. SshTypeOK /\ [SshNext]_sshVars => SshTypeOK'
  <2> SUFFICES ASSUME SshTypeOK, [SshNext]_sshVars PROVE SshTypeOK'
    OBVIOUS
  <2>1. ASSUME NEW c \in Connects,
               AskConnect(c) \/ ConnectNot(c) \/ ConnectTold(c)
               \/ ConnectEnds(c)
        PROVE  SshTypeOK'
    BY <2>1 DEF AskConnect, ConnectNot, ConnectTold, ConnectEnds
  <2>2. ASSUME NEW c \in Connects, ConnectBegins(c) \/ ShakeFails(c)
        PROVE  SshTypeOK'
    BY <2>2 DEF ConnectBegins, ShakeFails
  <2>3. ASSUME NEW c \in Connects, ShakeDone(c) PROVE SshTypeOK'
    BY <2>3 DEF ShakeDone
  <2>4. ASSUME NEW c \in Connects, Dies(c) PROVE SshTypeOK'
    BY <2>4 DEF Dies
  <2>5. ASSUME NEW d \in Disconnects, DisconnectBegins(d) PROVE SshTypeOK'
    BY <2>5 DEF DisconnectBegins
  <2>6. ASSUME NEW d \in Disconnects, DisconnectCloses(d) PROVE SshTypeOK'
    BY <2>6 DEF DisconnectCloses
  <2>7. ASSUME NEW d \in Disconnects, DisconnectNone(d) \/ DisconnectEnds(d)
        PROVE  SshTypeOK'
    BY <2>7 DEF DisconnectNone, DisconnectEnds
  <2>8. CASE UNCHANGED sshVars
    BY <2>8 DEF sshVars
  <2> QED
    BY <2>1, <2>2, <2>3, <2>4, <2>5, <2>6, <2>7, <2>8 DEF SshNext
<1> QED
  BY <1>1, <1>2, PTL DEF SshSpec

Closing(d) == sshDisconnect[d] = "closing"

\* The lock lets one connect in at a time, and only where the machine does not
\* count as connected.
LockInv ==
  \A c \in Connects :
    /\ sshConnect[c] \in {"announcing", "shaking"} => sshStatus # "connected"
    /\ sshConnect[c] \in {"announcing", "shaking", "telling"} =>
         \A e \in Connects :
           e # c => sshConnect[e] \notin {"announcing", "shaking", "telling"}

\* What is stored counts as connected, and nothing is stored while an older
\* connection is waited for; what is open is stored or being waited for.
StoredInv ==
  /\ sshStored # NoConnection =>
       sshStatus = "connected" /\ \A d \in Disconnects : ~Closing(d)
  /\ sshStatus = "connected" =>
       sshStored # NoConnection \/ \E d \in Disconnects : Closing(d)
  /\ \A c \in sshOpen :
       c = sshStored \/ \E d \in Disconnects : Closing(d) /\ sshClosing[d] = c

SshInv == LockInv /\ (~sshCrossed => StoredInv)

LEMMA SshInductive == SshSpec => []SshInv
<1>1. SshInit => SshInv
  BY DEF SshInit, SshInv, LockInv, StoredInv
<1>2. SshTypeOK /\ SshInv /\ [SshNext]_sshVars => SshInv'
  <2> SUFFICES ASSUME SshTypeOK, SshInv, [SshNext]_sshVars PROVE SshInv'
    OBVIOUS
  <2> USE SshAssumption
      DEF SshTypeOK, SshInv, LockInv, StoredInv, Closing
  <2>1. ASSUME NEW c \in Connects,
               AskConnect(c) \/ ConnectNot(c) \/ ConnectTold(c)
               \/ ConnectEnds(c)
        PROVE  SshInv'
    BY <2>1 DEF AskConnect, ConnectNot, ConnectTold, ConnectEnds
  <2>2. ASSUME NEW c \in Connects, ConnectBegins(c) PROVE SshInv'
    BY <2>2 DEF ConnectBegins, LockFree, IsConnected
  <2>3. ASSUME NEW c \in Connects, ShakeFails(c) PROVE SshInv'
    BY <2>3 DEF ShakeFails
  <2>4. ASSUME NEW c \in Connects, ShakeDone(c) PROVE SshInv'
    <3>1. LockInv'
      BY <2>4 DEF ShakeDone
    <3>2. ASSUME ~sshCrossed' PROVE StoredInv'
      <4>1. ~sshCrossed /\ \A d \in Disconnects : ~Closing(d)
        BY <2>4, <3>2, Zenon DEF ShakeDone
      <4> QED
        BY <2>4, <4>1 DEF ShakeDone
    <3> QED
      BY <3>1, <3>2
  <2>5. ASSUME NEW c \in Connects, Dies(c) PROVE SshInv'
    BY <2>5 DEF Dies
  <2>6. ASSUME NEW d \in Disconnects, DisconnectBegins(d) PROVE SshInv'
    BY <2>6 DEF DisconnectBegins
  <2>7. ASSUME NEW d \in Disconnects, DisconnectCloses(d) PROVE SshInv'
    BY <2>7 DEF DisconnectCloses
  <2>8. ASSUME NEW d \in Disconnects, DisconnectNone(d) \/ DisconnectEnds(d)
        PROVE  SshInv'
    BY <2>8 DEF DisconnectNone, DisconnectEnds
  <2>9. CASE UNCHANGED sshVars
    BY <2>9 DEF sshVars
  <2> QED
    BY <2>1, <2>2, <2>3, <2>4, <2>5, <2>6, <2>7, <2>8, <2>9 DEF SshNext
<1> QED
  BY <1>1, <1>2, SshTypeCorrect, PTL DEF SshSpec

(***************************************************************************)
(* However many calls connect and disconnect a machine, its status tells   *)
(* whether it has a connection, and no connection is leaked, unless one    *)
(* was stored while an older one was waited for.                           *)
(***************************************************************************)
THEOREM ConnectionsAccountedHolds == SshSpec => []ConnectionsAccounted
<1>1. SshInv => ConnectionsAccounted
  BY DEF SshInv, StoredInv, ConnectionsAccounted, Closing
<1> QED
  BY <1>1, SshInductive, PTL

-----------------------------------------------------------------------------
(* The tasks *)

Places == {"off", "step", "finishing", "excepting", "failing"} \cup Results

\* Only a target of the latest task moves, and only while the flag is up; a
\* machine in a step has some left, and one that has finished has none.
MachinesInv ==
  /\ fleetTargets \subseteq FleetMachines
  /\ fleetAt \in [FleetMachines -> Places]
  /\ fleetSteps \in [FleetMachines -> Nat]
  /\ \A m \in FleetMachines :
       /\ fleetAt[m] # "off" => m \in fleetTargets
       /\ fleetAt[m] = "step" => fleetSteps[m] < StepsOf(m)
       /\ fleetAt[m] \in {"finishing", "zero"} => fleetSteps[m] = StepsOf(m)
  /\ QuietWhenClear

LEMMA StepsAreSome == \A m \in FleetMachines : StepsOf(m) \in {2, 5, 6}
  BY DEF StepsOf

LEMMA MachinesInductive == FleetSpec => []MachinesInv
<1> USE StepsAreSome DEF MachinesInv, QuietWhenClear, Places, Results
<1>1. FleetInit => MachinesInv
  BY DEF FleetInit
<1>2. MachinesInv /\ [FleetNext]_fleetVars => MachinesInv'
  <2> SUFFICES ASSUME MachinesInv, [FleetNext]_fleetVars PROVE MachinesInv'
    OBVIOUS
  <2>1. ASSUME NEW targets \in (SUBSET FleetMachines) \ {{}},
               ReserveFleet(targets)
        PROVE  MachinesInv'
    BY <2>1 DEF ReserveFleet, StepsOf
  <2>2. ASSUME NEW m \in FleetMachines, StepDone(m) PROVE MachinesInv'
    BY <2>2 DEF StepDone, Move, StepsOf
  <2>3. ASSUME NEW m \in FleetMachines,
               StepFails(m) \/ FinishTold(m) \/ FinishRaises(m) \/ LogTold(m)
               \/ FailTold(m) \/ ExceptRaises(m)
        PROVE  MachinesInv'
    BY <2>3 DEF StepFails, FinishTold, FinishRaises, LogTold, FailTold,
                ExceptRaises, Move, StepsOf
  <2>4. CASE Gathered
    BY <2>4 DEF Gathered, AllOver, LetGo, StepsOf
  <2>5. ASSUME NEW r \in Rounds,
               CompleteTold(r) \/ CompleteRaises(r) \/ WrapTold(r)
               \/ WrapRaises(r)
        PROVE  MachinesInv'
    BY <2>5 DEF CompleteTold, CompleteRaises, WrapTold, WrapRaises, Say,
                StepsOf
  <2>6. CASE UNCHANGED fleetVars
    BY <2>6 DEF fleetVars, StepsOf
  <2> QED
    BY <2>1, <2>2, <2>3, <2>4, <2>5, <2>6 DEF FleetNext
<1> QED
  BY <1>1, <1>2, PTL DEF FleetSpec

LEMMA FleetTypeCorrect == FleetSpec => []FleetTypeOK
<1> USE FleetAssumption, StepsAreSome DEF FleetTypeOK, Rounds, Results
<1>1. FleetInit => FleetTypeOK
  <2> SUFFICES ASSUME FleetInit PROVE FleetTypeOK
    OBVIOUS
  <2>1. \A m \in FleetMachines : fleetSteps[m] \in 0..StepsOf(m)
    BY DEF FleetInit
  <2>2. 0 \in 0..MaxRounds
    OBVIOUS
  <2> QED
    BY <2>1, <2>2, Zenon DEF FleetInit
<1>2. MachinesInv /\ FleetTypeOK /\ [FleetNext]_fleetVars => FleetTypeOK'
  <2> SUFFICES ASSUME MachinesInv, FleetTypeOK, [FleetNext]_fleetVars
               PROVE  FleetTypeOK'
    OBVIOUS
  <2>1. ASSUME NEW targets \in (SUBSET FleetMachines) \ {{}},
               ReserveFleet(targets)
        PROVE  FleetTypeOK'
    BY <2>1 DEF ReserveFleet, StepsOf
  <2>2. ASSUME NEW m \in FleetMachines, StepDone(m) PROVE FleetTypeOK'
    BY <2>2 DEF StepDone, Move, StepsOf, MachinesInv
  <2>3. ASSUME NEW m \in FleetMachines,
               StepFails(m) \/ FinishTold(m) \/ FinishRaises(m) \/ LogTold(m)
               \/ FailTold(m) \/ ExceptRaises(m)
        PROVE  FleetTypeOK'
    BY <2>3 DEF StepFails, FinishTold, FinishRaises, LogTold, FailTold,
                ExceptRaises, Move, StepsOf
  <2>4. CASE Gathered
    <3>1. fleetRound \in Rounds
      BY <2>4 DEF Gathered
    <3>2. \A m \in FleetMachines : fleetSteps'[m] \in 0..StepsOf(m)'
      BY <2>4 DEF Gathered, StepsOf
    <3>3. /\ fleetMain' \in [Rounds -> {"none", "gathering", "ok", "failed",
                                       "wrapping", "over"}]
          /\ fleetBuilt' \subseteq Rounds /\ fleetRaised' \subseteq Rounds
      BY <2>4, <3>1 DEF Gathered
    <3> QED
      BY <2>4, <3>2, <3>3, Zenon DEF Gathered, LetGo
  <2>5. ASSUME NEW r \in Rounds, NEW next \in {"over", "wrapping"},
               NEW code \in SUBSET {0, 1}, Say(r, code, next)
        PROVE  FleetTypeOK'
    BY <2>5 DEF Say, StepsOf
  <2>6. ASSUME NEW r \in Rounds,
               CompleteTold(r) \/ CompleteRaises(r) \/ WrapTold(r)
               \/ WrapRaises(r)
        PROVE  FleetTypeOK'
    BY <2>5, <2>6 DEF CompleteTold, CompleteRaises, WrapTold, WrapRaises
  <2>7. CASE UNCHANGED fleetVars
    BY <2>7 DEF fleetVars, StepsOf
  <2> QED
    BY <2>1, <2>2, <2>3, <2>4, <2>6, <2>7 DEF FleetNext
<1> QED
  BY <1>1, <1>2, MachinesInductive, PTL DEF FleetSpec

\* A task that is to announce 0, or has done so, has reason to.
Justified(r) ==
  r \in fleetBuilt \/ (fleetKind = "gpu" /\ r \in fleetRaised)

CodesInv ==
  /\ fleetRound \in 0..MaxRounds
  /\ fleetMain \in [Rounds -> {"none", "gathering", "ok", "failed", "wrapping",
                               "over"}]
  /\ fleetSaid \in [Rounds -> SUBSET {0, 1}]
  /\ \A r \in Rounds :
       fleetMain[r] = "ok" \/ 0 \in fleetSaid[r] => Justified(r)

LEMMA CodesInductive == FleetSpec => []CodesInv
<1> USE FleetAssumption DEF CodesInv, Rounds, Justified
<1>1. FleetInit => CodesInv
  BY DEF FleetInit
<1>2. MachinesInv /\ CodesInv /\ [FleetNext]_fleetVars => CodesInv'
  <2> SUFFICES ASSUME MachinesInv, CodesInv, [FleetNext]_fleetVars
               PROVE  CodesInv'
    OBVIOUS
  <2>1. ASSUME NEW targets \in (SUBSET FleetMachines) \ {{}},
               ReserveFleet(targets)
        PROVE  CodesInv'
    BY <2>1 DEF ReserveFleet
  <2>2. ASSUME NEW m \in FleetMachines, MachineEnds(m) PROVE CodesInv'
    BY <2>2 DEF MachineEnds, StepDone, StepFails, FinishTold, FinishRaises,
                LogTold, FailTold, ExceptRaises, Move
  <2>3. CASE Gathered
    <3>1. ASSUME ExitCode = 0
          PROVE  Justified(fleetRound)'
      <4>1. CASE fleetKind = "gpu" /\ Raised
        BY <2>3, <4>1 DEF Gathered
      <4>2. CASE ~(fleetKind = "gpu" /\ Raised)
        <5>1. \A m \in fleetTargets : fleetAt[m] = "zero"
          BY <3>1, <4>2 DEF ExitCode
        <5>2. \A m \in fleetTargets : fleetSteps[m] = StepsOf(m)
          BY <5>1 DEF MachinesInv, Places
        <5> QED
          BY <2>3, <5>2 DEF Gathered
      <4> QED
        BY <4>1, <4>2
    <3> QED
      BY <2>3, <3>1 DEF Gathered
  <2>4. ASSUME NEW r \in Rounds, NEW code \in SUBSET {0, 1},
               NEW next \in {"wrapping", "over"},
               Say(r, code, next),
               0 \in code => Justified(r)
        PROVE  CodesInv'
    BY <2>4 DEF Say
  <2>5. ASSUME NEW r \in Rounds,
               CompleteTold(r) \/ CompleteRaises(r) \/ WrapTold(r)
               \/ WrapRaises(r)
        PROVE  CodesInv'
    <3> DEFINE code == IF fleetMain[r] = "ok" THEN 0 ELSE 1
    <3>1. CASE CompleteTold(r)
      <4>1. \E next \in {"wrapping", "over"} : Say(r, {code}, next)
        BY <3>1 DEF CompleteTold
      <4>2. {code} \in SUBSET {0, 1} /\ (0 \in {code} => Justified(r))
        OBVIOUS
      <4> QED
        BY <4>1, <4>2, <2>4, Zenon
    <3>2. CASE CompleteRaises(r)
      <4>1. PICK said \in {{}, {code}} : Say(r, said, "wrapping")
        BY <3>2 DEF CompleteRaises
      <4>2. said \in SUBSET {0, 1} /\ (0 \in said => Justified(r))
        OBVIOUS
      <4> QED
        BY <4>1, <4>2, <2>4, Zenon
    <3>3. CASE WrapTold(r) \/ WrapRaises(r)
      <4>1. PICK said \in {{}, {1}} : Say(r, said, "over")
        BY <3>3 DEF WrapTold, WrapRaises
      <4> QED
        BY <4>1, <2>4
    <3> QED
      BY <2>5, <3>1, <3>2, <3>3
  <2>6. CASE UNCHANGED fleetVars
    BY <2>6 DEF fleetVars
  <2> QED
    BY <2>1, <2>2, <2>3, <2>5, <2>6 DEF FleetNext, MachineEnds
<1> QED
  BY <1>1, <1>2, MachinesInductive, PTL DEF FleetSpec

(***************************************************************************)
(* When the flag is down no machine of any fleet is in a step: a rebuild   *)
(* is never let in over another one.                                       *)
(***************************************************************************)
THEOREM QuietWhenClearHolds == FleetSpec => []QuietWhenClear
<1>1. MachinesInv => QuietWhenClear
  BY DEF MachinesInv
<1> QED
  BY <1>1, MachinesInductive, PTL

(***************************************************************************)
(* Exit code 0 is announced only for a fleet that went through every step, *)
(* or by a GPU setup whose machine's coroutine raised.                     *)
(***************************************************************************)
THEOREM AppliedMeansBuiltHolds == FleetSpec => []AppliedMeansBuilt
<1>1. CodesInv => AppliedMeansBuilt
  BY DEF CodesInv, Justified, AppliedMeansBuilt
<1> QED
  BY <1>1, CodesInductive, PTL
-----------------------------------------------------------------------------
(* What a browser shows *)

LEMMA LiveIsFinite ==
  /\ IsFiniteSet(ViewJobs) /\ IsFiniteSet(Live)
  /\ Cardinality(Live) \in 0..Cardinality(ViewJobs)
<1>1. IsFiniteSet(ViewJobs) /\ Live \subseteq ViewJobs
  BY ViewAssumption DEF Live
<1> QED
  BY <1>1, FS_Subset, FS_CardinalityType

LEMMA ListingsList ==
  ASSUME NEW J \in SUBSET ViewJobs, NEW slots \in Listings(J)
  PROVE  slots \in Seq(ViewJobs) /\ ToSet(slots) = J
<1>1. Cardinality(J) \in Nat
  BY ViewAssumption, FS_Subset, FS_CardinalityType
<1> QED
  BY <1>1 DEF Listings

LEMMA AppendAdds ==
  ASSUME NEW slots \in Seq(ViewJobs), NEW j \in ViewJobs
  PROVE  ToSet(Append(slots, j)) = ToSet(slots) \cup {j}
<1>1. /\ Len(Append(slots, j)) = Len(slots) + 1
      /\ \A i \in 1..Len(slots) : Append(slots, j)[i] = slots[i]
      /\ Append(slots, j)[Len(slots) + 1] = j
  OBVIOUS
<1>2. DOMAIN slots = 1..Len(slots)
  OBVIOUS
<1>3. DOMAIN Append(slots, j) = 1..(Len(slots) + 1)
  OBVIOUS
<1> QED
  BY <1>1, <1>2, <1>3 DEF ToSet

LEMMA ViewTypeCorrect == ViewSpec => []ViewTypeOK
<1>1. 0 \in 0..Cardinality(ViewJobs) /\ 0 \in 0..MaxConnections
  BY ViewAssumption, LiveIsFinite, FS_CardinalityType
<1>2. ViewInit => ViewTypeOK
  <2> SUFFICES ASSUME ViewInit PROVE ViewTypeOK
    OBVIOUS
  <2>1. viewSlots \in Seq(ViewJobs)
    BY ListingsList DEF ViewInit
  <2> QED
    BY <2>1, <1>1, Zenon DEF ViewInit, ViewTypeOK
<1>3. ViewTypeOK /\ [ViewNext]_viewVars => ViewTypeOK'
  <2> SUFFICES ASSUME ViewTypeOK, [ViewNext]_viewVars PROVE ViewTypeOK'
    OBVIOUS
  <2> USE DEF ViewTypeOK
  <2>1. ASSUME NEW j \in ViewJobs, RegisterShown(j) PROVE ViewTypeOK'
    <3>1. PICK slots \in {viewSlots} \cup Compacted :
            viewSlots' = Append(slots, j) /\ viewUnseen' \subseteq ViewJobs
      BY <2>1, Zenon DEF RegisterShown, Live
    <3>2. slots \in Seq(ViewJobs)
      BY <3>1, ListingsList DEF Compacted, Live
    <3>3. viewSlots' \in Seq(ViewJobs)
      BY <3>1, <3>2
    <3>4. viewAiring' \subseteq ViewEvents
      BY <2>1 DEF RegisterShown, ViewEvents
    <3>5. viewLife' \in [ViewJobs -> {"absent", "live", "ending", "gone"}]
      BY <2>1 DEF RegisterShown
    <3> QED
      BY <2>1, <3>1, <3>3, <3>4, <3>5, Zenon DEF RegisterShown
  <2>2. ASSUME NEW j \in ViewJobs, RetireShown(j) \/ AnnounceShown(j)
        PROVE  ViewTypeOK'
    BY <2>2 DEF RetireShown, AnnounceShown, ViewEvents
  <2>3. ASSUME NEW e \in ViewEvents, Air(e) \/ AirAborts(e)
        PROVE  ViewTypeOK'
    BY <2>3 DEF Air, AirAborts, Handle, Reduced, Loses, ViewEvents
  <2>4. CASE Connect
    BY <2>4, ViewAssumption DEF Connect
  <2>5. CASE SnapshotBegins
    BY <2>5, LiveIsFinite DEF SnapshotBegins
  <2>6. CASE SnapshotSends
    <3>1. PICK i \in Ahead : /\ viewAt' = i + 1
                             /\ Handle(<<"started", viewSlots[i]>>)
      BY <2>6, Zenon DEF SnapshotSends
    <3>2. i + 1 \in Nat /\ viewSlots[i] \in ViewJobs
      BY DEF Ahead, Live
    <3> QED
      BY <2>6, <3>1, <3>2 DEF SnapshotSends, Handle, Reduced
  <2>7. CASE SnapshotEnds
    BY <2>7, <1>1 DEF SnapshotEnds, NoIterator
  <2>8. CASE SnapshotBreaks \/ Broken
    <3>1. viewMissed' \subseteq ViewJobs /\ viewUnseen' \subseteq ViewJobs
      BY <2>8 DEF SnapshotBreaks, Broken, Loses
    <3> QED
      BY <2>8, <3>1, <1>1 DEF SnapshotBreaks, Broken, NoIterator
  <2>9. CASE AnswerSent
    <3>1. viewAnswers' \in [Answers -> SUBSET ViewJobs]
      BY <2>9 DEF AnswerSent, Live, Answers
    <3> QED
      BY <2>9, <3>1, ViewAssumption DEF AnswerSent, PageKeeps
  <2>10. CASE Answered \/ Loaded \/ LoadFails
    BY <2>10 DEF Answered, Loaded, LoadFails, PageKeeps, Answers
  <2>11. CASE MachinesSent \/ StatusSent
    <3>1. FirstJobs \subseteq ViewJobs /\ Live \subseteq ViewJobs
      BY DEF FirstJobs, Live
    <3> QED
      BY <2>11, <3>1 DEF MachinesSent, StatusSent, PageKeeps, Answers
  <2>12. CASE UNCHANGED viewVars
    BY <2>12 DEF viewVars
  <2> QED
    BY <2>1, <2>2, <2>3, <2>4, <2>5, <2>6, <2>7, <2>8, <2>9, <2>10,
       <2>11, <2>12 DEF ViewNext
<1> QED
  BY <1>2, <1>3, PTL DEF ViewSpec

StartUnderWay(j) == <<"started", j>> \in viewAiring
StopUnderWay(j) == <<"stopped", j>> \in viewAiring

\* Jobs that answers under way will have shown under their ids
ToBeShown == viewAnswers["status"] \cup viewAnswers["start"]

\* A job is shown, or will be, only from its start on, and what shows one that
\* is over has its burn_stopped behind it, or lost, or handled too early.
ShownInv ==
  \A j \in ViewJobs :
    /\ viewLife[j] = "absent" =>
         j \notin viewShown \cup ToBeShown /\ ~StartUnderWay(j)
    /\ j \in viewHeard \/ StopUnderWay(j) => viewLife[j] = "gone"
    /\ viewLife[j] = "gone" =>
         /\ j \in viewShown => StopUnderWay(j) \/ j \in viewMissed
         /\ j \in ToBeShown \/ StartUnderWay(j) =>
              StopUnderWay(j) \/ j \in viewHeard \cup viewMissed

\* A registered job is shown, or will be by the snapshot or by its start, or
\* was passed over.
SeenInv ==
  /\ Live \subseteq ToSet(viewSlots)
  /\ \A j \in Live :
       /\ viewLink = "snapshot" =>
            \/ j \in viewShown \cup viewUnseen \cup Beyond(viewSlots)
            \/ StartUnderWay(j)
       /\ viewLink = "up" => j \in viewShown \cup viewUnseen \/ StartUnderWay(j)

LEMMA ShownInductive == ViewSpec => []ShownInv
<1> USE DEF ShownInv, StartUnderWay, StopUnderWay, ToBeShown, Answers
<1>1. ViewInit => ShownInv
  BY DEF ViewInit
<1>2. ViewTypeOK /\ ShownInv /\ [ViewNext]_viewVars => ShownInv'
  <2> SUFFICES ASSUME ViewTypeOK, ShownInv, [ViewNext]_viewVars
               PROVE  ShownInv'
    OBVIOUS
  <2> USE DEF ViewTypeOK
  <2>1. ASSUME NEW j \in ViewJobs, RegisterShown(j) PROVE ShownInv'
    BY <2>1 DEF RegisterShown
  <2>2. ASSUME NEW j \in ViewJobs, RetireShown(j) PROVE ShownInv'
    BY <2>2 DEF RetireShown
  <2>3. ASSUME NEW j \in ViewJobs, AnnounceShown(j) PROVE ShownInv'
    BY <2>3 DEF AnnounceShown, Linked
  <2>4. ASSUME NEW e \in ViewEvents, Air(e) PROVE ShownInv'
    <3>1. PICK k \in ViewJobs : e = <<"started", k>> \/ e = <<"stopped", k>>
      BY DEF ViewEvents
    <3>2. CASE e = <<"started", k>>
      BY <2>4, <3>2 DEF Air, Handle, Reduced
    <3>3. CASE e = <<"stopped", k>>
      BY <2>4, <3>3 DEF Air, Handle, Reduced
    <3> QED
      BY <3>1, <3>2, <3>3
  <2>5. ASSUME NEW e \in ViewEvents, AirAborts(e) PROVE ShownInv'
    BY <2>5 DEF AirAborts, Loses, ViewEvents
  <2>6. CASE Connect \/ SnapshotBegins
    BY <2>6 DEF Connect, SnapshotBegins
  <2>7. CASE SnapshotSends
    <3>1. PICK i \in Ahead : Handle(<<"started", viewSlots[i]>>)
      BY <2>7, Zenon DEF SnapshotSends
    <3>2. viewLife[viewSlots[i]] = "live"
      BY DEF Ahead, Live
    <3>3. /\ viewShown' = viewShown \cup {viewSlots[i]}
          /\ viewHeard' = viewHeard
          /\ viewMissed \subseteq viewMissed'
          /\ UNCHANGED <<viewLife, viewAiring, viewAnswers>>
      BY <2>7, <3>1 DEF SnapshotSends, Handle, Reduced
    <3> QED
      BY <3>2, <3>3
  <2>8. CASE SnapshotEnds
    BY <2>8 DEF SnapshotEnds
  <2>9. CASE SnapshotBreaks \/ Broken
    BY <2>9 DEF SnapshotBreaks, Broken, Loses
  <2>10. CASE AnswerSent
    <3>1. PICK j \in Live :
            viewAnswers' = [viewAnswers EXCEPT !["start"] = @ \cup {j}]
      BY <2>10 DEF AnswerSent
    <3> QED
      BY <2>10, <3>1 DEF AnswerSent, PageKeeps, Live
  <2>11. CASE Answered \/ Loaded
    BY <2>11 DEF Answered, Loaded, PageKeeps
  <2>12. CASE MachinesSent \/ LoadFails
    BY <2>12 DEF MachinesSent, LoadFails, PageKeeps
  <2>13. CASE StatusSent
    BY <2>13 DEF StatusSent, PageKeeps, Live
  <2>14. CASE UNCHANGED viewVars
    BY <2>14 DEF viewVars
  <2> QED
    BY <2>1, <2>2, <2>3, <2>4, <2>5, <2>6, <2>7, <2>8, <2>9, <2>10, <2>11,
       <2>12, <2>13, <2>14 DEF ViewNext
<1> QED
  BY <1>1, <1>2, ViewTypeCorrect, PTL DEF ViewSpec

LEMMA SeenInductive == ViewSpec => []SeenInv
<1> USE DEF SeenInv, StartUnderWay, StopUnderWay
<1>1. ViewInit => SeenInv
  BY DEF ViewInit
<1>2. ViewTypeOK /\ ShownInv /\ SeenInv /\ [ViewNext]_viewVars => SeenInv'
  <2> SUFFICES ASSUME ViewTypeOK, ShownInv, SeenInv, [ViewNext]_viewVars
               PROVE  SeenInv'
    OBVIOUS
  <2> USE DEF ViewTypeOK
  <2>1. ASSUME NEW j \in ViewJobs, RegisterShown(j) PROVE SeenInv'
    <3>1. PICK slots \in {viewSlots} \cup Compacted :
            /\ viewSlots' = Append(slots, j)
            /\ viewUnseen' = viewUnseen \cup
                 {i \in Live : viewLink = "snapshot" /\ i \in Beyond(viewSlots)
                                  /\ i \notin Beyond(slots)}
      BY <2>1, Zenon DEF RegisterShown
    <3>2. slots \in Seq(ViewJobs) /\ Live \subseteq ToSet(slots)
      BY <3>1, ListingsList DEF Compacted, Live
    <3>3. /\ Live' = Live \cup {j}
          /\ viewAt' = viewAt /\ viewLink' = viewLink
          /\ viewShown' = viewShown
          /\ viewAiring' = IF Linked THEN viewAiring \cup {<<"started", j>>}
                           ELSE viewAiring
      BY <2>1 DEF RegisterShown, Live
    <3>4. Live' \subseteq ToSet(viewSlots')
      <4>1. ToSet(Append(slots, j)) = ToSet(slots) \cup {j}
        BY <3>2, AppendAdds
      <4> QED
        BY <3>1, <3>2, <3>3, <4>1
    <3>5. Beyond(slots) \subseteq Beyond(viewSlots)'
      BY <3>1, <3>2, <3>3 DEF Beyond
    <3> QED
      BY <3>1, <3>3, <3>4, <3>5 DEF Linked
  <2>2. ASSUME NEW j \in ViewJobs, RetireShown(j) PROVE SeenInv'
    BY <2>2 DEF RetireShown, Live, Beyond
  <2>3. ASSUME NEW j \in ViewJobs, AnnounceShown(j) PROVE SeenInv'
    BY <2>3 DEF AnnounceShown, Live, Beyond
  <2>4. ASSUME NEW e \in ViewEvents, Air(e) PROVE SeenInv'
    <3>1. /\ Live' = Live /\ Beyond(viewSlots)' = Beyond(viewSlots)
          /\ viewSlots' = viewSlots /\ viewLink' = viewLink
          /\ viewUnseen' = viewUnseen /\ viewAiring' = viewAiring \ {e}
          /\ e \in viewAiring /\ viewShown' = Reduced(viewShown, e)
      BY <2>4 DEF Air, Handle, Live, Beyond
    <3>2. PICK k \in ViewJobs : e = <<"started", k>> \/ e = <<"stopped", k>>
      BY DEF ViewEvents
    <3>3. CASE e = <<"started", k>>
      BY <3>1, <3>3 DEF Reduced
    <3>4. CASE e = <<"stopped", k>>
      <4>1. k \notin Live
        BY <3>1, <3>4 DEF ShownInv, Live
      <4> QED
        BY <3>1, <3>4, <4>1 DEF Reduced
    <3> QED
      BY <3>2, <3>3, <3>4
  <2>5. ASSUME NEW e \in ViewEvents, AirAborts(e) PROVE SeenInv'
    BY <2>5 DEF AirAborts, Loses, ViewEvents, Live, Beyond
  <2>6. CASE Connect \/ SnapshotBreaks \/ Broken
    BY <2>6 DEF Connect, SnapshotBreaks, Broken, Live
  <2>7. CASE SnapshotBegins
    <3>1. Live' = Live /\ Beyond(viewSlots)' = Live
      BY <2>7 DEF SnapshotBegins, Live, Beyond, ToSet
    <3> QED
      BY <2>7, <3>1 DEF SnapshotBegins
  <2>8. CASE SnapshotSends
    <3>1. PICK i \in Ahead : /\ \A k \in Ahead : i <= k
                             /\ viewAt' = i + 1
                             /\ Handle(<<"started", viewSlots[i]>>)
      BY <2>8, Zenon DEF SnapshotSends
    <3>2. /\ viewShown' = viewShown \cup {viewSlots[i]}
          /\ viewSlots' = viewSlots /\ viewLink' = viewLink /\ Live' = Live
          /\ viewUnseen' = viewUnseen /\ viewAiring' = viewAiring
          /\ viewLink = "snapshot"
      BY <2>8, <3>1 DEF SnapshotSends, Handle, Reduced, Live
    <3>3. Beyond(viewSlots) \subseteq
            Beyond(viewSlots)' \cup {viewSlots[i]}
      <4> SUFFICES ASSUME NEW k \in viewAt..Len(viewSlots),
                          viewSlots[k] \in Live, k # i
                   PROVE  viewSlots[k] \in Beyond(viewSlots)'
        BY DEF Beyond
      <4>1. k \in Ahead /\ i \in Nat /\ k \in Nat
        BY DEF Ahead
      <4>2. k \in (i + 1)..Len(viewSlots)
        BY <3>1, <4>1
      <4> QED
        BY <3>1, <3>2, <4>2 DEF Beyond
    <3>4. Live' \subseteq ToSet(viewSlots') /\ viewLink' = "snapshot"
      BY <3>2
    <3> HIDE DEF ViewTypeOK
    <3> QED
      BY <3>2, <3>3, <3>4
  <2>9. CASE SnapshotEnds
    <3>1. Beyond(viewSlots) = {}
      BY <2>9 DEF SnapshotEnds, Beyond, Ahead
    <3> QED
      BY <2>9, <3>1 DEF SnapshotEnds, Live
  <2>10. CASE \/ AnswerSent \/ Answered
              \/ MachinesSent \/ StatusSent \/ Loaded \/ LoadFails
    <3>1. UNCHANGED <<viewLife, viewSlots, viewLink, viewAt, viewAiring,
                      viewUnseen>> /\ viewShown \subseteq viewShown'
      BY <2>10 DEF AnswerSent, Answered, MachinesSent, StatusSent, Loaded,
                   LoadFails, PageKeeps
    <3> QED
      BY <3>1 DEF Live, Beyond
  <2>11. CASE UNCHANGED viewVars
    BY <2>11 DEF viewVars, Live, Beyond
  <2> QED
    BY <2>1, <2>2, <2>3, <2>4, <2>5, <2>6, <2>7, <2>8, <2>9, <2>10, <2>11
       DEF ViewNext
<1> QED
  BY <1>1, <1>2, ViewTypeCorrect, ShownInductive, PTL DEF ViewSpec

\* What is listed, and what is shown of it, is one job of each machine.
PinInv == OnePerMachine(viewAnswers["machines"]) /\ OnePerMachine(viewPinned)

LEMMA FirstOnePerMachine == ViewTypeOK => OnePerMachine(FirstJobs)
<1> SUFFICES ASSUME ViewTypeOK, NEW i \in FirstJobs, NEW j \in FirstJobs,
                    ViewMachine[i] = ViewMachine[j]
             PROVE  i = j
  BY DEF OnePerMachine
<1>1. PICK k \in DOMAIN viewSlots :
        /\ i = viewSlots[k] /\ viewSlots[k] \in Live
        /\ \A l \in 1..(k - 1) :
             viewSlots[l] \in Live =>
               ViewMachine[viewSlots[l]] # ViewMachine[viewSlots[k]]
  BY DEF FirstJobs
<1>2. PICK m \in DOMAIN viewSlots :
        /\ j = viewSlots[m] /\ viewSlots[m] \in Live
        /\ \A l \in 1..(m - 1) :
             viewSlots[l] \in Live =>
               ViewMachine[viewSlots[l]] # ViewMachine[viewSlots[m]]
  BY DEF FirstJobs
<1>3. DOMAIN viewSlots = 1..Len(viewSlots) /\ Len(viewSlots) \in Nat
  BY DEF ViewTypeOK
<1>4. k \notin 1..(m - 1) /\ m \notin 1..(k - 1)
  BY <1>1, <1>2
<1>5. k = m
  BY <1>3, <1>4
<1> QED
  BY <1>1, <1>2, <1>5

LEMMA PinInductive == ViewSpec => []PinInv
<1> USE DEF PinInv
<1>1. ViewInit => PinInv
  BY DEF ViewInit, Answers, OnePerMachine
<1>2. ViewTypeOK /\ PinInv /\ [ViewNext]_viewVars => PinInv'
  <2> SUFFICES ASSUME ViewTypeOK, PinInv, [ViewNext]_viewVars
               PROVE  PinInv'
    OBVIOUS
  <2>1. CASE MachinesSent
    <3>1. viewAnswers'["machines"] = FirstJobs /\ viewPinned' = viewPinned
      BY <2>1 DEF MachinesSent, ViewTypeOK, Answers
    <3> QED
      BY <3>1, FirstOnePerMachine DEF OnePerMachine
  <2>2. CASE Loaded \/ LoadFails
    <3>1. /\ viewAnswers'["machines"] = {}
          /\ viewPinned' \in {viewPinned, viewAnswers["machines"]}
      BY <2>2 DEF Loaded, LoadFails, ViewTypeOK, Answers
    <3> QED
      BY <3>1 DEF OnePerMachine
  <2>3. ASSUME viewAnswers'["machines"] = viewAnswers["machines"],
               viewPinned' = viewPinned
        PROVE  PinInv'
    BY <2>3 DEF OnePerMachine
  <2>4. ASSUME NEW j \in ViewJobs,
               RegisterShown(j) \/ RetireShown(j) \/ AnnounceShown(j)
        PROVE  PinInv'
    BY <2>3, <2>4 DEF RegisterShown, RetireShown, AnnounceShown
  <2>5. ASSUME NEW e \in ViewEvents, Air(e) \/ AirAborts(e) PROVE PinInv'
    BY <2>3, <2>5 DEF Air, AirAborts
  <2>6. CASE Connect \/ SnapshotBegins \/ SnapshotSends \/ SnapshotEnds
             \/ SnapshotBreaks \/ Broken
    BY <2>3, <2>6 DEF Connect, SnapshotBegins, SnapshotSends, SnapshotEnds,
                      SnapshotBreaks, Broken
  <2>7. CASE StatusSent \/ AnswerSent \/ Answered
    BY <2>3, <2>7 DEF StatusSent, AnswerSent, Answered, ViewTypeOK, Answers
  <2>8. CASE UNCHANGED viewVars
    BY <2>3, <2>8 DEF viewVars
  <2> QED
    BY <2>1, <2>2, <2>4, <2>5, <2>6, <2>7, <2>8 DEF ViewNext
<1> QED
  BY <1>1, <1>2, ViewTypeCorrect, PTL DEF ViewSpec

(***************************************************************************)
(* A page at rest shows the registered jobs under their ids, for any       *)
(* number of jobs, connections and answers, but for the ones whose events  *)
(* were lost or handled out of order, and those a snapshot passed over;    *)
(* what load() leaves under the ids of machines is one job of each.        *)
(***************************************************************************)
THEOREM ViewIsRegistryHolds == ViewSpec => []ViewIsRegistry
<1>1. ViewTypeOK /\ ShownInv /\ SeenInv /\ PinInv => ViewIsRegistry
  BY DEF ViewTypeOK, ShownInv, SeenInv, PinInv, ViewIsRegistry, Settled, Live,
         StartUnderWay, StopUnderWay, ToBeShown, Ending, Answers
<1> QED
  BY <1>1, ViewTypeCorrect, ShownInductive, SeenInductive, PinInductive, PTL
-----------------------------------------------------------------------------
(* The backend *)

(***************************************************************************)
(* In the backend as the runs have it, each part is what its own module    *)
(* says, whichever part the behaviour is about: what is proved of a part   *)
(* holds there too.                                                        *)
(***************************************************************************)
THEOREM BackendHasParts ==
  BackendSpec => WorkloadSpec /\ GpuSpec /\ FleetSpec /\ ViewSpec /\ SshSpec
<1>1. BackendInit =>
        WorkloadInit /\ GpuInit /\ FleetInit /\ ViewInit /\ SshInit
  BY DEF BackendInit
<1>2. [BackendNext]_backendVars =>
        /\ [WorkloadNext]_workloadVars /\ [GpuNext]_gpuVars
        /\ [FleetNext]_fleetVars /\ [ViewNext]_viewVars /\ [SshNext]_sshVars
  BY Zenon DEF BackendNext, backendVars
<1> QED
  BY <1>1, <1>2, PTL
     DEF BackendSpec, WorkloadSpec, GpuSpec, FleetSpec, ViewSpec, SshSpec

(***************************************************************************)
(* The variables of every part of the backend keep their types.            *)
(***************************************************************************)
THEOREM BackendTypesHold == BackendSpec => []BackendTypes
<1>1. WorkloadTypeOK /\ GpuTypeOK /\ FleetTypeOK /\ ViewTypeOK /\ SshTypeOK
        => BackendTypes
  BY DEF BackendTypes
<1> QED
  BY <1>1, BackendHasParts, WorkloadBasics, GpuTypeCorrect, FleetTypeCorrect,
     ViewTypeCorrect, SshTypeCorrect, PTL

(***************************************************************************)
(* In the backend as the runs have it, both workload controllers keep the  *)
(* promises of the job ledger.                                             *)
(***************************************************************************)
THEOREM BackendKeepsLedgers == BackendSpec => LedgersKept
  BY BackendHasParts, WorkloadsImplementLedger, GpuImplementsLedger
     DEF LedgersKept
=============================================================================
