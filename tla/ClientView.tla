----------------------------- MODULE ClientView -----------------------------
(***************************************************************************)
(* What one browser shows of job_registry: main.py's WebSocketHub and the  *)
(* snapshot a new connection gets, and the frontend's load() and reducer.  *)
(* The three registries are shown alike, but for what GET /api/machines    *)
(* has of burn jobs; this module has the one of burn jobs.                 *)
(*                                                                         *)
(* The hub sends an event to the connections there were when its broadcast *)
(* began, one after the other; broadcasts overtake each other, and one     *)
(* that raises at another client's socket never gets to this one.  The     *)
(* snapshot walks over the registry between awaits.  A browser that was    *)
(* away connects again and keeps what it shows.                            *)
(*                                                                         *)
(* What is sent to the connection is handled at once here: the connection  *)
(* keeps the order, and what is on it when it breaks counts as not sent.   *)
(***************************************************************************)
EXTENDS Naturals, Sequences, FiniteSets, SequencesExt

CONSTANTS
  ViewJobs,         \* job ids
  ViewMachine,      \* the machine of each
  MaxConnections,   \* bound: connections of this browser in all
  MaxAnswers        \* bound: answers to requests for a job

ASSUME ViewAssumption ==
  /\ IsFiniteSet(ViewJobs)
  /\ {MaxConnections, MaxAnswers} \subseteq Nat

VARIABLES
  viewLife,     \* each job's: absent, registered, being stopped, announced
  viewSlots,    \* the entries of the dict job_registry, removed ones included
  viewLink,     \* the connection
  viewTimes,    \* connections so far
  viewAt,       \* where the snapshot's iterator is
  viewSize,     \* the size of job_registry when it was made
  viewAiring,   \* events that broadcasts have still to send to the connection
  viewLoad,     \* the page's load(), once
  viewAnswers,  \* the jobs in REST answers that are under way
  viewLeft,     \* how many more requests for a job there are
  viewShown,    \* jobs the page shows under their own ids: burnJobs
  viewPinned,   \* jobs it shows under the id of their machine
  viewHeard,    \* jobs whose stop it has handled
  viewMissed,   \* jobs whose stop was lost, or handled before a start of them
  viewUnseen    \* jobs whose start was lost, or that a snapshot passed over

viewVars == <<viewLife, viewSlots, viewLink, viewTimes, viewAt, viewSize,
              viewAiring, viewLoad, viewAnswers, viewLeft, viewShown,
              viewPinned, viewHeard, viewMissed, viewUnseen>>

ViewEvents == {"started", "stopped"} \X ViewJobs

\* GET /api/machines and /api/burn/status of load(), POST /api/burn/start
Answers == {"machines", "status", "start"}

ViewTypeOK ==
  /\ viewLife \in [ViewJobs -> {"absent", "live", "ending", "gone"}]
  /\ viewSlots \in Seq(ViewJobs)
  /\ viewLink \in {"down", "greeting", "snapshot", "up"}
  /\ viewTimes \in 0..MaxConnections
  /\ viewAt \in Nat
  /\ viewSize \in 0..Cardinality(ViewJobs)
  /\ viewAiring \subseteq ViewEvents
  /\ viewLoad \in {"asked", "listed", "answered", "both", "over"}
  /\ viewAnswers \in [Answers -> SUBSET ViewJobs]
  /\ viewLeft \in 0..MaxAnswers
  /\ {viewShown, viewPinned, viewHeard, viewMissed, viewUnseen}
       \subseteq SUBSET ViewJobs

Live == {j \in ViewJobs : viewLife[j] = "live"}

\* The orders in which a dict can have the jobs of J
Listings(J) == {slots \in [1..Cardinality(J) -> J] : ToSet(slots) = J}

\* The page is opened when there are these jobs, and others are over; its
\* load() is on its way, or has failed.
ViewInit ==
  /\ viewSlots \in UNION {Listings(J) : J \in SUBSET ViewJobs}
  /\ viewLife \in [ViewJobs -> {"absent", "live", "gone"}]
  /\ Live = ToSet(viewSlots)
  /\ viewLink = "down"
  /\ viewTimes = 0
  /\ viewAt = 0
  /\ viewSize = 0
  /\ viewAiring = {}
  /\ viewLoad \in {"asked", "over"}
  /\ viewAnswers = [a \in Answers |-> {}]
  /\ viewLeft \in 0..MaxAnswers
  /\ viewShown = {}
  /\ viewPinned = {}
  /\ viewHeard = {}
  /\ viewMissed = {}
  /\ viewUnseen = {}

-----------------------------------------------------------------------------
(* The registry and its broadcasts *)

\* Mutant: a connection joins the hub when it has its snapshot.
Linked_mutant == viewLink = "up"

\* WebSocketHub._connections holds the connection: from connect on.
Linked == viewLink \in {"greeting", "snapshot", "up"}

\* The jobs that the snapshot's iterator has before it
Beyond(slots) == {slots[i] : i \in viewAt..Len(slots)} \cap Live

\* The entries without the ones that were removed: the dict made anew
Compacted ==
  {slots \in Listings(Live) :
     \A k, l \in DOMAIN slots : k < l =>
       \E m, n \in DOMAIN viewSlots :
         m < n /\ viewSlots[m] = slots[k] /\ viewSlots[n] = slots[l]}

\* A job is registered and its start broadcast.  The dict may be made anew
\* then, under a running iterator.
RegisterShown(j) ==
  /\ viewLife[j] = "absent"
  /\ viewLife' = [viewLife EXCEPT ![j] = "live"]
  /\ \E slots \in {viewSlots} \cup Compacted :
       /\ viewSlots' = Append(slots, j)
       /\ viewUnseen' = viewUnseen \cup
            {i \in Live : viewLink = "snapshot" /\ i \in Beyond(viewSlots)
                             /\ i \notin Beyond(slots)}
  /\ viewAiring' = IF Linked THEN viewAiring \cup {<<"started", j>>}
                   ELSE viewAiring
  /\ UNCHANGED <<viewLink, viewTimes, viewAt, viewSize, viewLoad, viewAnswers,
                 viewLeft, viewPinned, viewShown, viewHeard, viewMissed>>

\* _stop_single or _auto_complete pops it,
RetireShown(j) ==
  /\ viewLife[j] = "live"
  /\ viewLife' = [viewLife EXCEPT ![j] = "ending"]
  /\ viewUnseen' = viewUnseen \ {j}
  /\ UNCHANGED <<viewSlots, viewLink, viewTimes, viewAt, viewSize, viewAiring,
                 viewLoad, viewAnswers, viewLeft, viewPinned, viewShown,
                 viewHeard, viewMissed>>

\* and, unless it is cancelled first, broadcasts the end.
AnnounceShown(j) ==
  /\ viewLife[j] = "ending"
  /\ viewLife' = [viewLife EXCEPT ![j] = "gone"]
  /\ viewAiring' = IF Linked THEN viewAiring \cup {<<"stopped", j>>}
                   ELSE viewAiring
  /\ viewMissed' = IF viewLink = "down"
                   THEN viewMissed \cup {j} ELSE viewMissed
  /\ UNCHANGED <<viewSlots, viewLink, viewTimes, viewAt, viewSize, viewLoad,
                 viewAnswers, viewLeft, viewPinned, viewShown, viewHeard,
                 viewUnseen>>

\* The reducer's burnStarted and burnStopped
Reduced(shown, e) ==
  IF e[1] = "started" THEN shown \cup {e[2]} ELSE shown \ {e[2]}

\* onmessage
Handle(e) ==
  /\ viewShown' = Reduced(viewShown, e)
  /\ viewHeard' = IF e[1] = "stopped" THEN viewHeard \cup {e[2]}
                  ELSE viewHeard
  /\ viewMissed' = IF e[1] = "started" /\ e[2] \in viewHeard
                   THEN viewMissed \cup {e[2]} ELSE viewMissed

\* A broadcast gets to the connection; a stop's may overtake its start's.
Air(e) ==
  /\ e \in viewAiring
  /\ viewAiring' = viewAiring \ {e}
  /\ Handle(e)
  /\ UNCHANGED <<viewLife, viewSlots, viewLink, viewTimes, viewAt, viewSize,
                 viewLoad, viewAnswers, viewLeft, viewPinned, viewUnseen>>

\* What a lost event does.
Loses(E) ==
  /\ viewMissed' = viewMissed \cup {j \in ViewJobs : <<"stopped", j>> \in E}
  /\ viewUnseen' = viewUnseen \cup {j \in ViewJobs : <<"started", j>> \in E}

\* Or it raises before it gets there.
AirAborts(e) ==
  /\ e \in viewAiring
  /\ viewAiring' = viewAiring \ {e}
  /\ Loses({e})
  /\ UNCHANGED <<viewLife, viewSlots, viewLink, viewTimes, viewAt, viewSize,
                 viewLoad, viewAnswers, viewLeft, viewPinned, viewShown,
                 viewHeard>>

-----------------------------------------------------------------------------
(* The connection *)

\* The browser connects, 1.5 s after it lost its last connection.
Connect ==
  /\ viewLink = "down"
  /\ viewTimes < MaxConnections
  /\ viewLink' = "greeting"
  /\ viewTimes' = viewTimes + 1
  /\ UNCHANGED <<viewLife, viewSlots, viewAt, viewSize, viewAiring, viewLoad,
                 viewAnswers, viewLeft, viewPinned, viewShown, viewHeard,
                 viewMissed, viewUnseen>>

\* The machines are sent; the iterator over job_registry is made.  This
\* snapshot makes good what was not seen of a start before it.
SnapshotBegins ==
  /\ viewLink = "greeting"
  /\ viewLink' = "snapshot"
  /\ viewAt' = 1
  /\ viewSize' = Cardinality(Live)
  /\ viewUnseen' = {}
  /\ UNCHANGED <<viewLife, viewSlots, viewTimes, viewAiring, viewLoad,
                 viewAnswers, viewLeft, viewPinned, viewShown, viewHeard,
                 viewMissed>>

\* The next entry of the iterator that is not a removed one
Ahead == {i \in viewAt..Len(viewSlots) : viewSlots[i] \in Live}

SameSize == Cardinality(Live) = viewSize

\* The iterator's next job, whose burn_started is sent to this connection
SnapshotSends ==
  /\ viewLink = "snapshot"
  /\ SameSize
  /\ \E i \in Ahead :
       /\ \A k \in Ahead : i <= k
       /\ viewAt' = i + 1
       /\ Handle(<<"started", viewSlots[i]>>)
  /\ UNCHANGED <<viewLife, viewSlots, viewLink, viewTimes, viewSize,
                 viewAiring, viewLoad, viewAnswers, viewLeft, viewPinned,
                 viewUnseen>>

NoIterator == viewAt' = 0 /\ viewSize' = 0

\* The snapshot is over.
SnapshotEnds ==
  /\ viewLink = "snapshot"
  /\ SameSize
  /\ Ahead = {}
  /\ viewLink' = "up"
  /\ NoIterator
  /\ UNCHANGED <<viewLife, viewSlots, viewTimes, viewAiring, viewLoad,
                 viewAnswers, viewLeft, viewPinned, viewShown, viewHeard,
                 viewMissed, viewUnseen>>

\* RuntimeError: dictionary changed size during iteration.  The server closes
\* the connection.
SnapshotBreaks ==
  /\ viewLink = "snapshot"
  /\ ~SameSize
  /\ viewLink' = "down"
  /\ NoIterator
  /\ viewAiring' = {}
  /\ Loses(viewAiring)
  /\ UNCHANGED <<viewLife, viewSlots, viewTimes, viewLoad, viewAnswers,
                 viewLeft, viewPinned, viewShown, viewHeard>>

\* The network breaks, and what was under way is lost.
Broken ==
  /\ viewLink # "down"
  /\ viewLink' = "down"
  /\ NoIterator
  /\ viewAiring' = {}
  /\ Loses(viewAiring)
  /\ UNCHANGED <<viewLife, viewSlots, viewTimes, viewLoad, viewAnswers,
                 viewLeft, viewPinned, viewShown, viewHeard>>

-----------------------------------------------------------------------------
(* The page *)

\* list_machines: of each machine's registered jobs the first
FirstJobs ==
  {viewSlots[i] : i \in
     {k \in DOMAIN viewSlots :
        /\ viewSlots[k] \in Live
        /\ \A l \in 1..(k - 1) :
             viewSlots[l] \in Live =>
               ViewMachine[viewSlots[l]] # ViewMachine[viewSlots[k]]}}

PageKeeps == UNCHANGED <<viewLife, viewSlots, viewLink, viewTimes, viewAt,
                         viewSize, viewAiring, viewUnseen>>

\* The server answers what load() asks, the machines
MachinesSent ==
  /\ viewLoad \in {"asked", "answered"}
  /\ viewLoad' = IF viewLoad = "asked" THEN "listed" ELSE "both"
  /\ viewAnswers' = [viewAnswers EXCEPT !["machines"] = FirstJobs]
  /\ PageKeeps
  /\ UNCHANGED <<viewLeft, viewShown, viewPinned, viewHeard, viewMissed>>

\* and the registry, in any order.
StatusSent ==
  /\ viewLoad \in {"asked", "listed"}
  /\ viewLoad' = IF viewLoad = "asked" THEN "answered" ELSE "both"
  /\ viewAnswers' = [viewAnswers EXCEPT !["status"] = Live]
  /\ PageKeeps
  /\ UNCHANGED <<viewLeft, viewShown, viewPinned, viewHeard, viewMissed>>

\* load() has all its answers: setMachines puts a machine's job under the
\* machine's id, and every job is dispatched as started, under its own.
Loaded ==
  /\ viewLoad = "both"
  /\ viewLoad' = "over"
  /\ viewShown' = viewShown \cup viewAnswers["status"]
  /\ viewPinned' = viewAnswers["machines"]
  /\ viewMissed' = viewMissed \cup (viewAnswers["status"] \cap viewHeard)
  /\ viewAnswers' = [viewAnswers EXCEPT !["machines"] = {}, !["status"] = {}]
  /\ PageKeeps
  /\ UNCHANGED <<viewLeft, viewHeard>>

\* One of its requests fails, and the page uses none of the answers.
LoadFails ==
  /\ viewLoad # "over"
  /\ viewLoad' = "over"
  /\ viewAnswers' = [viewAnswers EXCEPT !["machines"] = {}, !["status"] = {}]
  /\ PageKeeps
  /\ UNCHANGED <<viewLeft, viewShown, viewPinned, viewHeard, viewMissed>>

\* The server answers the page's request for a job with that job.
AnswerSent ==
  /\ viewLeft > 0
  /\ viewLeft' = viewLeft - 1
  /\ \E j \in Live :
       viewAnswers' = [viewAnswers EXCEPT !["start"] = @ \cup {j}]
  /\ PageKeeps
  /\ UNCHANGED <<viewLoad, viewShown, viewPinned, viewHeard, viewMissed>>

\* Such answers have come; their jobs are shown.
Answered ==
  /\ viewAnswers["start"] # {}
  /\ viewShown' = viewShown \cup viewAnswers["start"]
  /\ viewMissed' = viewMissed \cup (viewAnswers["start"] \cap viewHeard)
  /\ viewAnswers' = [viewAnswers EXCEPT !["start"] = {}]
  /\ PageKeeps
  /\ UNCHANGED <<viewLoad, viewLeft, viewPinned, viewHeard>>

-----------------------------------------------------------------------------

ViewNext ==
  \/ \E j \in ViewJobs :
       RegisterShown(j) \/ RetireShown(j) \/ AnnounceShown(j)
  \/ \E e \in ViewEvents : Air(e) \/ AirAborts(e)
  \/ Connect \/ SnapshotBegins \/ SnapshotSends \/ SnapshotEnds
  \/ SnapshotBreaks \/ Broken
  \/ MachinesSent \/ StatusSent \/ Loaded \/ LoadFails
  \/ AnswerSent \/ Answered

ViewSpec == ViewInit /\ [][ViewNext]_viewVars

-----------------------------------------------------------------------------
(* Properties *)

\* The connection has its snapshot, and nothing is under way to the page.
Settled ==
  /\ viewLink = "up"
  /\ viewAiring = {}
  /\ \A a \in Answers : viewAnswers[a] = {}

\* Whose end is not announced yet
Ending == {j \in ViewJobs : viewLife[j] = "ending"}

OnePerMachine(J) ==
  \A i, j \in J : ViewMachine[i] = ViewMachine[j] => i = j

(***************************************************************************)
(* A page at rest shows the registered jobs under their ids.  A job that   *)
(* is over is among these only while its end is not announced yet, or for  *)
(* ever if burn_stopped was lost or came before a burn_started or a REST   *)
(* answer that has it.  A registered job is not among them only if its     *)
(* burn_started was lost, or a snapshot passed over it, on the connection  *)
(* there is now.  What the page shows besides it shows for ever, however   *)
(* well the events come: the job that load() put under the id of its       *)
(* machine, which no burn_stopped removes; that is one for a machine.      *)
(***************************************************************************)
ViewIsRegistry ==
  /\ Settled =>
       /\ viewShown \ Live \subseteq viewMissed \cup Ending
       /\ Live \ viewShown \subseteq viewUnseen
  /\ OnePerMachine(viewPinned)
=============================================================================
