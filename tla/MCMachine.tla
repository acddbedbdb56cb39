------------------------------ MODULE MCMachine ------------------------------
(***************************************************************************)
(* The programs that run on a machine, one of them per behaviour: they     *)
(* share nothing but the machine, and the backend meets each alone.        *)
(***************************************************************************)
EXTENDS WorkloadRunner, BurnerRun, GpuContainer, PowerWatch

VARIABLE program     \* which of them this behaviour is about

machineVars == <<vars, burnerVars, containerVars, watchVars, program>>

\* Periods of 8 and a full load of 4: a sawtooth that wraps before its first
\* point, one with a point at each end, and one that needs clamping.
MCCurves ==
  { <<[x |-> 2, y |-> 4], [x |-> 5, y |-> 1]>>,
    <<[x |-> 0, y |-> 1], [x |-> 3, y |-> 3], [x |-> 8, y |-> 2]>>,
    <<[x |-> 1, y |-> -2], [x |-> 6, y |-> 7]>> }

MCTasks == <<"gpu", "video">>

MachineInit ==
  /\ program \in {"workload", "burner", "container", "watcher"}
  /\ Init /\ BurnerInit /\ ContainerInit /\ WatchInit
  /\ program # "burner" =>
       /\ at = "waiting" /\ missing = {}
       /\ curve = CHOOSE d \in {FromCsv(c) : c \in MCCurves} : TRUE
  /\ program # "container" => local
  /\ program # "watcher" => \A z \in Zones : energy[z] = 0

MachineNext ==
  /\ \/ /\ program = "workload" /\ Next
        /\ UNCHANGED <<burnerVars, containerVars, watchVars>>
     \/ /\ program = "burner" /\ BurnerNext
        /\ UNCHANGED <<vars, containerVars, watchVars>>
     \/ /\ program = "container" /\ ContainerNext
        /\ UNCHANGED <<vars, burnerVars, watchVars>>
     \/ /\ program = "watcher" /\ WatchNext
        /\ UNCHANGED <<vars, burnerVars, containerVars>>
  /\ UNCHANGED program

\* A program that is not there has nothing enabled that is fair.
MachineSpec ==
  /\ MachineInit
  /\ [][MachineNext]_machineVars
  /\ Fairness /\ ContainerFairness

-----------------------------------------------------------------------------

(***************************************************************************)
(* The types of the state of every program.                                *)
(***************************************************************************)
MachineTypes == TypeOK /\ BurnerTypeOK /\ ContainerTypeOK /\ WatchTypeOK
=============================================================================
