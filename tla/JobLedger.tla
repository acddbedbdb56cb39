------------------------------ MODULE JobLedger ------------------------------
(***************************************************************************)
(* What a job controller of the UI backend promises about each job id it   *)
(* hands out: the id enters job_registry at most once, leaves it for good, *)
(* and its departure is announced to the clients at most once.  The three  *)
(* controllers (burn, CPU workload, GPU workload) share this life cycle;   *)
(* BurnJobs, WorkloadJobs and GpuJobs are shown to implement it.           *)
(***************************************************************************)
EXTENDS Naturals

CONSTANT Jobs            \* the job ids (uuid4: never handed out twice)

VARIABLES ledger,        \* where each job id is in its life
          told           \* how many "stopped" events each id has produced

vars == <<ledger, told>>

Stages == {"absent", "live", "ending", "ended", "lost"}

TypeOK ==
  /\ ledger \in [Jobs -> Stages]
  /\ told \in [Jobs -> Nat]

Init ==
  /\ ledger = [j \in Jobs |-> "absent"]
  /\ told = [j \in Jobs |-> 0]

\* The start handler enters the job in job_registry.
Register(j) ==
  /\ ledger[j] = "absent"
  /\ ledger' = [ledger EXCEPT ![j] = "live"]
  /\ UNCHANGED told

\* A stop request or the completion timer pops it; whoever pops it owns it.
Retire(j) ==
  /\ ledger[j] = "live"
  /\ ledger' = [ledger EXCEPT ![j] = "ending"]
  /\ UNCHANGED told

\* The owner announces the end.
Announce(j) ==
  /\ ledger[j] = "ending"
  /\ ledger' = [ledger EXCEPT ![j] = "ended"]
  /\ told' = [told EXCEPT ![j] = @ + 1]

\* Owners can be cancelled, several at once, before they announced anything,
\* and an announcement can raise before every client has it.
Lose(K) ==
  /\ \A j \in K : ledger[j] = "ending"
  /\ ledger' = [j \in Jobs |-> IF j \in K THEN "lost" ELSE ledger[j]]
  /\ UNCHANGED told

Next ==
  \/ \E j \in Jobs : Register(j) \/ Retire(j) \/ Announce(j)
  \/ \E K \in SUBSET Jobs : Lose(K)

Spec == Init /\ [][Next]_vars

\* Nobody stays half ended for ever.  Nothing is promised of the ids that are
\* registered: an id whose start could not be announced has no timer.
Fairness == \A j \in Jobs : WF_vars(Announce(j) \/ Lose({j}))

FairSpec == Spec /\ Fairness

(***************************************************************************)
(* Exactly the ended ids have been announced, each of them once.           *)
(***************************************************************************)
ToldOnce ==
  \A j \in Jobs : told[j] = IF ledger[j] = "ended" THEN 1 ELSE 0

(* An id that left the registry never comes back to it. *)
NoReturn ==
  [][\A j \in Jobs :
       ledger[j] \in {"ending", "ended", "lost"} => ledger'[j] # "live"]_vars
=============================================================================
