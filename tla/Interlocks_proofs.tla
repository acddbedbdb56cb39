-------------------------- MODULE Interlocks_proofs --------------------------
(***************************************************************************)
(* Proofs about Interlocks, for any sets of requests and machines.         *)
(***************************************************************************)
EXTENDS Interlocks, TLAPS

\* Where an activity is, seen or not.
At(a) == pending[a] \cup listed[a]

(***************************************************************************)
(* The variables keep their types, and an id without a request is nowhere. *)
(***************************************************************************)
THEOREM InterlocksTypeCorrect == Spec => []TypeOK
<1>1. Init => TypeOK
  BY DEF Init, TypeOK
<1>2. TypeOK /\ [Next]_vars => TypeOK'
  <2> SUFFICES ASSUME TypeOK, [Next]_vars PROVE TypeOK'
    OBVIOUS
  <2>1. ASSUME NEW a \in Acts, NEW k \in Kinds, NEW hosts \in SUBSET Machines,
               NEW visible \in SUBSET Machines, Admitted(a, k, hosts, visible)
        PROVE  TypeOK'
    <3>1. k # "none"
      BY DEF Kinds
    <3>2. raced' \subseteq Acts \X Acts
      BY <2>1 DEF Admitted, Unseen, TypeOK
    <3>3. /\ kind' \in [Acts -> Kinds \cup {"none"}]
          /\ pending' \in [Acts -> SUBSET Machines]
          /\ listed' \in [Acts -> SUBSET Machines]
      BY <2>1 DEF Admitted, TypeOK
    <3>4. \A b \in Acts :
            kind'[b] = "none" => pending'[b] = {} /\ listed'[b] = {}
      BY <2>1, <3>1 DEF Admitted, TypeOK
    <3> QED
      BY <3>2, <3>3, <3>4 DEF TypeOK
  <2>2. ASSUME NEW a \in Acts, NEW hosts \in SUBSET Machines,
               StartBurn(a, hosts) \/ StartCpu(a, hosts)
               \/ ReserveSampling(a, hosts) \/ ReserveCpuSetup(a, hosts)
        PROVE  TypeOK'
    <3>1. CASE StartBurn(a, hosts)
      BY <2>1, <3>1 DEF StartBurn, Kinds
    <3>2. CASE StartCpu(a, hosts)
      BY <2>1, <3>2 DEF StartCpu, Kinds
    <3>3. CASE ReserveSampling(a, hosts)
      BY <2>1, <3>3 DEF ReserveSampling, Kinds
    <3>4. CASE ReserveCpuSetup(a, hosts)
      BY <2>1, <3>4 DEF ReserveCpuSetup, Kinds
    <3> QED
      BY <2>2, <3>1, <3>2, <3>3, <3>4
  <2>3. ASSUME NEW a \in Acts, NEW m \in Machines,
               StartGpu(a, m) \/ RequestUpdate(a, m) \/ ReserveGpuSetup(a, m)
        PROVE  TypeOK'
    BY <2>1, <2>3 DEF StartGpu, RequestUpdate, ReserveGpuSetup, Kinds
  <2>4. ASSUME NEW a \in Acts, NEW m \in Machines,
               Register(a, m) \/ RunUpdate(a, m) \/ GiveUp(a, m) \/ Leave(a, m)
        PROVE  TypeOK'
    BY <2>4 DEF TypeOK, Register, RunUpdate, GiveUp, Leave, PerHost
  <2>5. ASSUME NEW a \in Acts, Release(a) PROVE TypeOK'
    BY <2>5 DEF TypeOK, Release, Flagged
  <2>6. CASE UNCHANGED vars
    BY <2>6 DEF TypeOK, vars
  <2> QED
    BY <2>2, <2>3, <2>4, <2>5, <2>6 DEF Next
<1> QED
  BY <1>1, <1>2, PTL DEF Spec

-----------------------------------------------------------------------------
(* Racing *)

\* The strengthening of RivalsMeetOnlyByRacing: it speaks of activities that
\* are still on their way too, for these are what a later check overlooks.
MeetInv ==
  \A a, b \in Acts :
    a # b /\ Rivals(kind[a], kind[b]) /\ At(a) \cap At(b) # {}
    => <<a, b>> \in raced \/ <<b, a>> \in raced

\* A step that admits nothing and moves nobody to a new host.
Calm ==
  /\ kind' = kind
  /\ raced \subseteq raced'
  /\ \A a \in Acts : At(a)' \subseteq At(a)

LEMMA CalmStep == MeetInv /\ Calm => MeetInv'
  BY DEF MeetInv, Calm

\* An admission whose checks cover every rival kind of the newcomer.
LEMMA AdmissionMeets ==
  ASSUME TypeOK, MeetInv,
         NEW a \in Acts, NEW k \in Kinds, NEW hosts \in SUBSET Machines,
         NEW visible \in SUBSET hosts,
         Admitted(a, k, hosts, visible),
         \A b \in Acts : Rivals(k, kind[b]) => listed[b] \cap hosts = {}
  PROVE  MeetInv'
<1> SUFFICES ASSUME NEW c \in Acts, NEW d \in Acts, c # d,
                    Rivals(kind'[c], kind'[d]), (At(c) \cap At(d) # {})'
             PROVE  <<c, d>> \in raced' \/ <<d, c>> \in raced'
  BY DEF MeetInv
<1>1. /\ kind' = [kind EXCEPT ![a] = k]
      /\ raced' = raced \cup ({a} \X Unseen(hosts))
      /\ At(a)' = hosts
      /\ \A b \in Acts : b # a => At(b)' = At(b) /\ kind'[b] = kind[b]
  BY DEF Admitted, At, TypeOK
<1>2. kind'[a] = k
  BY <1>1 DEF TypeOK
<1>3. \A x, y : Rivals(x, y) <=> Rivals(y, x)
  BY DEF Rivals
<1>4. ASSUME NEW b \in Acts, b # a, Rivals(k, kind[b]),
             hosts \cap At(b) # {}
      PROVE  <<a, b>> \in raced'
  <2>1. pending[b] \cap hosts # {}
    BY <1>4 DEF At
  <2> QED
    BY <2>1, <1>1 DEF Unseen
<1>5. CASE c = a
  BY <1>1, <1>2, <1>4, <1>5
<1>6. CASE d = a
  BY <1>1, <1>2, <1>3, <1>4, <1>6
<1>7. CASE c # a /\ d # a
  BY <1>1, <1>7 DEF MeetInv
<1> QED
  BY <1>5, <1>6, <1>7

LEMMA MeetStep == TypeOK /\ MeetInv /\ [Next]_vars => MeetInv'
<1> SUFFICES ASSUME TypeOK, MeetInv, [Next]_vars PROVE MeetInv'
  OBVIOUS
<1>1. ASSUME NEW a \in Acts, NEW hosts \in SUBSET Machines, StartBurn(a, hosts)
      PROVE  MeetInv'
  <2>1. \A b \in Acts : Rivals("burn", kind[b]) => listed[b] \cap hosts = {}
    BY <1>1 DEF StartBurn, Quiet, Clear, Rivals
  <2> QED
    BY <1>1, <2>1, AdmissionMeets DEF StartBurn, Kinds
<1>2. ASSUME NEW a \in Acts, NEW hosts \in SUBSET Machines, StartCpu(a, hosts)
      PROVE  MeetInv'
  <2>1. \A b \in Acts : Rivals("cpu", kind[b]) => listed[b] \cap hosts = {}
    BY <1>2 DEF StartCpu, Quiet, Clear, Rivals
  <2> QED
    BY <1>2, <2>1, AdmissionMeets DEF StartCpu, Kinds
<1>3. ASSUME NEW a \in Acts, NEW hosts \in SUBSET Machines,
             ReserveSampling(a, hosts)
      PROVE  MeetInv'
  <2>1. \A b \in Acts : Rivals("sampling", kind[b]) => listed[b] \cap hosts = {}
    BY <1>3 DEF ReserveSampling, Quiet, Clear, Rivals
  <2> QED
    BY <1>3, <2>1, AdmissionMeets DEF ReserveSampling, Kinds
<1>4. ASSUME NEW a \in Acts, NEW hosts \in SUBSET Machines,
             ReserveCpuSetup(a, hosts)
      PROVE  MeetInv'
  <2>1. \A b \in Acts : Rivals("cpuSetup", kind[b]) => listed[b] \cap hosts = {}
    BY <1>4 DEF ReserveCpuSetup, Quiet, Clear, Rivals
  <2> QED
    BY <1>4, <2>1, AdmissionMeets DEF ReserveCpuSetup, Kinds
<1>5. ASSUME NEW a \in Acts, NEW m \in Machines, StartGpu(a, m) PROVE MeetInv'
  <2>1. \A b \in Acts : Rivals("gpu", kind[b]) => listed[b] \cap {m} = {}
    BY <1>5 DEF StartGpu, Quiet, Clear, Rivals
  <2> QED
    BY <1>5, <2>1, AdmissionMeets DEF StartGpu, Kinds
<1>6. ASSUME NEW a \in Acts, NEW m \in Machines, RequestUpdate(a, m)
      PROVE  MeetInv'
  <2>1. \A b \in Acts : Rivals("update", kind[b]) => listed[b] \cap {m} = {}
    BY <1>6 DEF RequestUpdate, Quiet, Clear, Rivals
  <2> QED
    BY <1>6, <2>1, AdmissionMeets DEF RequestUpdate, Kinds
<1>7. ASSUME NEW a \in Acts, NEW m \in Machines, ReserveGpuSetup(a, m)
      PROVE  MeetInv'
  <2>1. \A b \in Acts : Rivals("gpuSetup", kind[b]) => listed[b] \cap {m} = {}
    BY <1>7 DEF ReserveGpuSetup, Quiet, Clear, Rivals
  <2> QED
    BY <1>7, <2>1, AdmissionMeets DEF ReserveGpuSetup, Kinds
<1>8. ASSUME NEW a \in Acts, NEW m \in Machines,
             Register(a, m) \/ RunUpdate(a, m) \/ GiveUp(a, m) \/ Leave(a, m)
      PROVE  MeetInv'
  <2>1. Calm
    BY <1>8 DEF Calm, At, TypeOK, Register, RunUpdate, GiveUp, Leave
  <2> QED
    BY <2>1, CalmStep
<1>9. ASSUME NEW a \in Acts, Release(a) PROVE MeetInv'
  <2>1. Calm
    BY <1>9 DEF Calm, At, TypeOK, Release
  <2> QED
    BY <2>1, CalmStep
<1>10. CASE UNCHANGED vars
  BY <1>10 DEF vars, MeetInv, At
<1> QED
  BY <1>1, <1>2, <1>3, <1>4, <1>5, <1>6, <1>7, <1>8, <1>9, <1>10 DEF Next

(***************************************************************************)
(* Whatever is requested, fails or ends in whatever order, two activities  *)
(* whose handlers check each other share a machine only if one was on its  *)
(* way there, unregistered, when the other passed its checks.              *)
(***************************************************************************)
THEOREM RivalsMeetOnlyByRacingHolds == Spec => []RivalsMeetOnlyByRacing
<1>1. Init => MeetInv
  BY DEF Init, MeetInv, At
<1>2. MeetInv => RivalsMeetOnlyByRacing
  BY DEF MeetInv, RivalsMeetOnlyByRacing, At
<1> QED
  BY <1>1, <1>2, MeetStep, InterlocksTypeCorrect, PTL DEF Spec

-----------------------------------------------------------------------------
(* Flags *)

\* A flagged activity is never pending: it is listed from its first step.
FlagInv ==
  /\ FlagsAreExclusive
  /\ \A a \in Acts : kind[a] \in Flagged => pending[a] = {}

LEMMA FlagStep == TypeOK /\ FlagInv /\ [Next]_vars => FlagInv'
<1> SUFFICES ASSUME TypeOK, FlagInv, [Next]_vars PROVE FlagInv'
  OBVIOUS
<1> USE DEF FlagInv, FlagsAreExclusive, TypeOK, Flagged
<1>1. ASSUME NEW a \in Acts, NEW k \in PerHost, NEW hosts \in SUBSET Machines,
             Admitted(a, k, hosts, {})
      PROVE  FlagInv'
  BY <1>1 DEF Admitted, PerHost
<1>2. ASSUME NEW a \in Acts, NEW k \in Flagged, NEW hosts \in SUBSET Machines,
             Quiet({k}), Admitted(a, k, hosts, hosts)
      PROVE  FlagInv'
  BY <1>2 DEF Admitted, Quiet
<1>3. ASSUME NEW a \in Acts, NEW hosts \in SUBSET Machines,
             StartBurn(a, hosts) \/ StartCpu(a, hosts)
      PROVE  FlagInv'
  BY <1>1, <1>3 DEF StartBurn, StartCpu, PerHost
<1>4. ASSUME NEW a \in Acts, NEW m \in Machines,
             StartGpu(a, m) \/ RequestUpdate(a, m)
      PROVE  FlagInv'
  BY <1>1, <1>4 DEF StartGpu, RequestUpdate, PerHost
<1>5. ASSUME NEW a \in Acts, NEW hosts \in SUBSET Machines,
             ReserveSampling(a, hosts) \/ ReserveCpuSetup(a, hosts)
      PROVE  FlagInv'
  BY <1>2, <1>5 DEF ReserveSampling, ReserveCpuSetup, Quiet
<1>6. ASSUME NEW a \in Acts, NEW m \in Machines, ReserveGpuSetup(a, m)
      PROVE  FlagInv'
  BY <1>2, <1>6 DEF ReserveGpuSetup, Quiet
<1>7. ASSUME NEW a \in Acts, NEW m \in Machines,
             Register(a, m) \/ GiveUp(a, m) \/ Leave(a, m)
      PROVE  FlagInv'
  BY <1>7 DEF Register, GiveUp, Leave, PerHost
<1>8. ASSUME NEW a \in Acts, NEW m \in Machines, RunUpdate(a, m)
      PROVE  FlagInv'
  BY <1>8 DEF RunUpdate, Clear
<1>9. ASSUME NEW a \in Acts, Release(a) PROVE FlagInv'
  BY <1>9 DEF Release
<1>10. CASE UNCHANGED vars
  BY <1>10 DEF vars
<1> QED
  BY <1>3, <1>4, <1>5, <1>6, <1>7, <1>8, <1>9, <1>10 DEF Next

(***************************************************************************)
(* However requests queue up, the rebuild, each setup and the update of a  *)
(* machine never run twice at a time.                                      *)
(***************************************************************************)
THEOREM FlagsAreExclusiveHolds == Spec => []FlagsAreExclusive
<1>1. Init => FlagInv
  BY DEF Init, FlagInv, FlagsAreExclusive, Flagged
<1>2. FlagInv => FlagsAreExclusive
  BY DEF FlagInv
<1> QED
  BY <1>1, <1>2, FlagStep, InterlocksTypeCorrect, PTL DEF Spec
=============================================================================
