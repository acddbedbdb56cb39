----------------------------- MODULE Interlocks -----------------------------
(***************************************************************************)
(* UI/backend: what keeps burns, workloads, updates, sampling rebuilds and *)
(* workload setups off each other's machines.                              *)
(*                                                                         *)
(* Every endpoint of main.py first asks the controllers what they are      *)
(* running and answers 409 on a conflict.  The answers come from the job   *)
(* registries and the "running" flags, which the start handlers fill only  *)
(* after their awaits: a request that passed its checks is invisible to    *)
(* the checks of every other request until its jobs are registered.        *)
(*                                                                         *)
(* An activity is one accepted request.  A host of it is pending while the *)
(* request's coroutines work towards it, and listed while a registry entry *)
(* or a flag shows it to the others.  Requests that are refused change     *)
(* nothing.  Whether a machine is connected is left out: it only refuses   *)
(* more.  Jobs of one kind on one machine are kept apart by their time     *)
(* windows (BurnJobs), not by these checks.                                *)
(***************************************************************************)
EXTENDS FiniteSets

CONSTANTS
  Acts,        \* identities of accepted requests
  Machines     \* machine ids of config.toml

VARIABLES
  kind,        \* what each activity is; "none" before its request
  pending,     \* hosts an activity is still on its way to
  listed,      \* hosts on which the other requests can see it
  raced        \* history: <<a, b>> if b was pending on a host of a when a was
               \* admitted

vars == <<kind, pending, listed, raced>>

Kinds == {"burn", "cpu", "gpu", "update", "sampling", "cpuSetup", "gpuSetup"}

\* Kinds with an entry per host (job_registry, UpdateController._running),
\* and kinds with one flag for all of their hosts.
PerHost == {"burn", "cpu", "gpu", "update"}
Flagged == {"sampling", "cpuSetup", "gpuSetup"}

TypeOK ==
  /\ kind \in [Acts -> Kinds \cup {"none"}]
  /\ pending \in [Acts -> SUBSET Machines]
  /\ listed \in [Acts -> SUBSET Machines]
  /\ raced \subseteq Acts \X Acts
  /\ \A a \in Acts : kind[a] = "none" => pending[a] = {} /\ listed[a] = {}

Init ==
  /\ kind = [a \in Acts |-> "none"]
  /\ pending = [a \in Acts |-> {}]
  /\ listed = [a \in Acts |-> {}]
  /\ raced = {}

-----------------------------------------------------------------------------
(* The checks *)

\* is_running() of the update controller, _running and _setup_running: no
\* activity of these kinds is listed anywhere.
Quiet(K) == \A b \in Acts : kind[b] \in K => listed[b] = {}

\* has_jobs: no activity of these kinds is listed on any of these hosts.
Clear(K, hosts) ==
  \A b \in Acts : kind[b] \in K => listed[b] \cap hosts = {}

\* What is on its way to these hosts, and so escapes every check.
Unseen(hosts) == {b \in Acts : pending[b] \cap hosts # {}}

\* An accepted request goes to work; listed says where it is visible at once.
Admitted(a, k, hosts, visible) ==
  /\ kind[a] = "none"
  /\ hosts # {}
  /\ kind' = [kind EXCEPT ![a] = k]
  /\ pending' = [pending EXCEPT ![a] = hosts \ visible]
  /\ listed' = [listed EXCEPT ![a] = visible]
  /\ raced' = raced \cup ({a} \X Unseen(hosts))

-----------------------------------------------------------------------------
(* Requests *)

\* POST /api/burn/start: neither updates nor setups are asked about.
StartBurn(a, hosts) ==
  /\ Quiet({"sampling"})
  /\ Clear({"cpu", "gpu"}, hosts)
  /\ Admitted(a, "burn", hosts, {})

\* POST /api/workloads/start.
StartCpu(a, hosts) ==
  /\ Quiet({"sampling", "update", "cpuSetup"})
  /\ Clear({"gpu", "burn"}, hosts)
  /\ Admitted(a, "cpu", hosts, {})

\* POST /api/gpu-workloads/start, for one machine.
StartGpu(a, m) ==
  /\ Quiet({"sampling", "update", "gpuSetup"})
  /\ Clear({"burn", "cpu", "gpu"}, {m})
  /\ Admitted(a, "gpu", {m}, {})

\* POST /api/update/{machine_id}: a background task is queued.
RequestUpdate(a, m) ==
  /\ Quiet({"sampling"})
  /\ Clear({"burn", "cpu", "gpu"}, {m})
  /\ Admitted(a, "update", {m}, {})

\* Mutant: the burn check of reserve_apply is gone.
ReserveSampling_mutant(a, hosts) ==
  /\ Quiet({"update", "sampling"})
  /\ Clear({"cpu", "gpu"}, hosts)
  /\ Admitted(a, "sampling", hosts, hosts)

\* POST /api/sampling/apply: reserve_apply sets the flag without an await.
ReserveSampling(a, hosts) ==
  /\ Quiet({"update", "sampling"})
  /\ Clear({"cpu", "gpu", "burn"}, hosts)
  /\ Admitted(a, "sampling", hosts, hosts)

\* POST /api/workloads/setup and its reserve_setup.
ReserveCpuSetup(a, hosts) ==
  /\ Quiet({"sampling", "update", "cpuSetup"})
  /\ Clear({"gpu", "burn", "cpu"}, hosts)
  /\ Admitted(a, "cpuSetup", hosts, hosts)

\* POST /api/gpu-workloads/setup and its reserve_setup, for one machine.
ReserveGpuSetup(a, m) ==
  /\ Quiet({"sampling", "update", "gpuSetup"})
  /\ Clear({"burn", "cpu", "gpu"}, {m})
  /\ Admitted(a, "gpuSetup", {m}, {m})

-----------------------------------------------------------------------------
(* Work *)

\* _start_single: a job's pid is back and the job enters its registry.  More
\* jobs of the request may be on their way to the same host.
Register(a, m) ==
  /\ kind[a] \in {"burn", "cpu", "gpu"}
  /\ m \in pending[a]
  /\ listed' = [listed EXCEPT ![a] = @ \cup {m}]
  /\ \/ pending' = [pending EXCEPT ![a] = @ \ {m}]
     \/ pending' = pending /\ kind[a] # "gpu"
  /\ UNCHANGED <<kind, raced>>

\* Mutant: a second update of the machine is not noticed.
RunUpdate_mutant(a, m) ==
  /\ kind[a] = "update"
  /\ m \in pending[a]
  /\ Clear({"burn"}, {m})
  /\ pending' = [pending EXCEPT ![a] = @ \ {m}]
  /\ listed' = [listed EXCEPT ![a] = @ \cup {m}]
  /\ UNCHANGED <<kind, raced>>

\* run_update, once the background task gets to run: burns and other updates
\* of the machine are asked about again, nothing else is.
RunUpdate(a, m) ==
  /\ kind[a] = "update"
  /\ m \in pending[a]
  /\ Clear({"burn", "update"}, {m})
  /\ pending' = [pending EXCEPT ![a] = @ \ {m}]
  /\ listed' = [listed EXCEPT ![a] = @ \cup {m}]
  /\ UNCHANGED <<kind, raced>>

\* Mutant: the request is forgotten with its last host.
GiveUp_mutant(a, m) ==
  /\ m \in pending[a]
  /\ pending' = [pending EXCEPT ![a] = @ \ {m}]
  /\ kind' = [kind EXCEPT ![a] = "none"]
  /\ UNCHANGED <<listed, raced>>

\* A copy or a start command fails, or run_update raises its conflict.  What
\* becomes of the request's other hosts is left open (BurnJobs follows it).
GiveUp(a, m) ==
  /\ m \in pending[a]
  /\ kind[a] = "update" => ~Clear({"burn", "update"}, {m})
  /\ pending' = [pending EXCEPT ![a] = @ \ {m}]
  /\ UNCHANGED <<kind, listed, raced>>

\* The last job on a host is popped by a stop or by its timer; an update ends.
Leave(a, m) ==
  /\ kind[a] \in PerHost
  /\ m \in listed[a]
  /\ listed' = [listed EXCEPT ![a] = @ \ {m}]
  /\ UNCHANGED <<kind, pending, raced>>

\* The finally clause of a rebuild or a setup releases the flag, and with it
\* all of its hosts.
Release(a) ==
  /\ kind[a] \in Flagged
  /\ listed[a] # {}
  /\ listed' = [listed EXCEPT ![a] = {}]
  /\ UNCHANGED <<kind, pending, raced>>

Next ==
  \E a \in Acts :
    \/ \E hosts \in SUBSET Machines :
         \/ StartBurn(a, hosts)
         \/ StartCpu(a, hosts)
         \/ ReserveSampling(a, hosts)
         \/ ReserveCpuSetup(a, hosts)
    \/ \E m \in Machines :
         \/ StartGpu(a, m)
         \/ RequestUpdate(a, m)
         \/ ReserveGpuSetup(a, m)
         \/ Register(a, m)
         \/ RunUpdate(a, m)
         \/ GiveUp(a, m)
         \/ Leave(a, m)
    \/ Release(a)

Spec == Init /\ [][Next]_vars

-----------------------------------------------------------------------------
(* Properties *)

\* The kinds that refuse each other, whichever of the two comes second.
Rivals(k, l) ==
  \/ {k, l} = {"burn", "sampling"} \/ {k, l} = {"burn", "cpu"}
  \/ {k, l} = {"burn", "gpu"}      \/ {k, l} = {"cpu", "gpu"}
  \/ {k, l} = {"cpu", "sampling"}  \/ {k, l} = {"gpu", "sampling"}
  \/ {k, l} = {"update", "sampling"}
  \/ {k, l} = {"update", "cpu"}    \/ {k, l} = {"update", "gpu"}
  \/ {k, l} = {"cpu", "cpuSetup"}  \/ {k, l} = {"gpu", "gpuSetup"}
  \/ {k, l} = {"gpu"}

(***************************************************************************)
(* Two rival activities are on one machine only if one was already on its  *)
(* way there when the other was admitted: the gap between a handler's      *)
(* checks and its registration is the only way past the interlock, in each *)
(* of the twelve pairs of kinds that check each other in both directions.  *)
(***************************************************************************)
RivalsMeetOnlyByRacing ==
  \A a, b \in Acts :
    a # b /\ Rivals(kind[a], kind[b]) /\ listed[a] \cap listed[b] # {}
    => <<a, b>> \in raced \/ <<b, a>> \in raced

(***************************************************************************)
(* At most one sampling rebuild, one workload setup and one GPU setup run  *)
(* at any time, and at most one update per machine: these four claim their *)
(* flag in the very step that checks it (run_update, reserve_apply, the    *)
(* two reserve_setup), although update requests queue up behind it.        *)
(***************************************************************************)
FlagsAreExclusive ==
  \A a, b \in Acts :
    /\ a # b
    /\ kind[a] = kind[b]
    /\ kind[a] \in Flagged \cup {"update"}
    => IF kind[a] = "update" THEN listed[a] \cap listed[b] = {}
       ELSE listed[a] = {} \/ listed[b] = {}

(***************************************************************************)
(* UI/README.md:65: burns and updates are blocked while a sampling rebuild *)
(* is running, so none of them is at work on a machine being rebuilt.      *)
(***************************************************************************)
RebuildBlocksBurnAndUpdate ==
  \A a, b \in Acts :
    /\ kind[a] = "sampling"
    /\ kind[b] \in {"burn", "update"}
    => listed[a] \cap listed[b] = {}
=============================================================================
