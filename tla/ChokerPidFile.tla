---------------------------- MODULE ChokerPidFile ----------------------------
(***************************************************************************)
(* choker/runtime.py and choker/cli.py: how `choker run`, `choker start`   *)
(* and `choker stop` use the pid file.                                     *)
(*                                                                         *)
(* Every command is a process of its own and nothing locks the file: a     *)
(* command reads the status, and what it does about it comes later.  A     *)
(* status is one observation; each write, removal and signal is a step.    *)
(* Opening the file for writing truncates it and closing it delivers the   *)
(* pid, so the file is a name for an inode, and an inode can be empty.     *)
(***************************************************************************)
EXTENDS ChokerProcesses

CONSTANTS
  Commands,    \* `choker start` and `choker stop` commands
  Serial       \* is each command over before the next is given?

ASSUME PidFileAssumption ==
  /\ None \notin Daemons
  /\ Serial \in BOOLEAN

VARIABLES
  path,        \* the inode the pid file's path leads to, named by its creator
  text,        \* the pid in each inode
  handle,      \* the inode each daemon has open for writing
  proc,        \* how far each daemon is
  cmd,         \* how far each command is
  target,      \* the daemon a stop command waits for
  asked        \* daemons that received SIGTERM

pidVars == <<path, text, handle, proc, cmd, target, asked>>

ProcStates == {"idle", "checking", "clearing", "opening", "writing", "up",
               "releasing", "unlinking", "exited", "refused", "killed"}
CmdStates == {"idle", "clearing", "spawning", "waiting", "removing", "done"}

PidTypeOK ==
  /\ path \in Daemons \cup {None}
  /\ text \in [Daemons -> Daemons \cup {None}]
  /\ handle \in [Daemons -> Daemons \cup {None}]
  /\ proc \in [Daemons -> ProcStates]
  /\ cmd \in [Commands -> CmdStates]
  /\ target \in [Commands -> Daemons \cup {None}]
  /\ asked \in [Daemons -> BOOLEAN]
  /\ \A d \in Daemons : proc[d] = "writing" => handle[d] # None
  /\ \A c \in Commands : cmd[c] = "waiting" => target[c] # None

PidInit ==
  /\ path = None
  /\ text = [d \in Daemons |-> None]
  /\ handle = [d \in Daemons |-> None]
  /\ proc = [d \in Daemons |-> "idle"]
  /\ cmd = [c \in Commands |-> "idle"]
  /\ target = [c \in Commands |-> None]
  /\ asked = [d \in Daemons |-> FALSE]

-----------------------------------------------------------------------------
(* Reading the file *)

\* is_pid_alive and is_choker_process
Alive(d) == proc[d] \notin {"idle", "exited", "refused", "killed"}

\* Does the file hold this daemon's pid?
Names(d) == path # None /\ text[path] = d

\* read_pid_status
Running == \E d \in Daemons : Names(d) /\ Alive(d)
Stopped == path = None
StaleOrInvalid == ~Running /\ ~Stopped

\* Nothing is under way that an operator would wait for.
Quiescent ==
  /\ \A c \in Commands : cmd[c] \in {"idle", "done"}
  /\ \A d \in Daemons :
       proc[d] \notin {"checking", "clearing", "opening", "writing"}

MayBegin == Serial => Quiescent

-----------------------------------------------------------------------------
(* choker run *)

\* A user runs the daemon in the foreground.
Run(d) ==
  /\ MayBegin
  /\ proc[d] = "idle"
  /\ proc' = [proc EXCEPT ![d] = "checking"]
  /\ UNCHANGED <<path, text, handle, cmd, target, asked>>

\* Mutant: acquire goes on although a daemon is running.
Check_mutant(d) ==
  /\ proc[d] = "checking"
  /\ proc' = [proc EXCEPT ![d] = IF Stopped THEN "opening" ELSE "clearing"]
  /\ UNCHANGED <<path, text, handle, cmd, target, asked>>

\* PidFile.acquire: the status decides, RuntimeError if a daemon is running.
Check(d) ==
  /\ proc[d] = "checking"
  /\ proc' = [proc EXCEPT ![d] =
                IF Running THEN "refused"
                ELSE IF Stopped THEN "opening" ELSE "clearing"]
  /\ UNCHANGED <<path, text, handle, cmd, target, asked>>

\* remove_pid_file, whatever is there by now
ClearStale(d) ==
  /\ proc[d] = "clearing"
  /\ path' = None
  /\ proc' = [proc EXCEPT ![d] = "opening"]
  /\ UNCHANGED <<text, handle, cmd, target, asked>>

\* write_pid_file opens the path for writing,
OpenFile(d) ==
  /\ proc[d] = "opening"
  /\ path' = IF path = None THEN d ELSE path
  /\ text' = [text EXCEPT ![path'] = None]
  /\ handle' = [handle EXCEPT ![d] = path']
  /\ proc' = [proc EXCEPT ![d] = "writing"]
  /\ UNCHANGED <<cmd, target, asked>>

\* and delivers the pid when it closes it.
WriteFile(d) ==
  /\ proc[d] = "writing"
  /\ text' = [text EXCEPT ![handle[d]] = d]
  /\ proc' = [proc EXCEPT ![d] = "up"]
  /\ UNCHANGED <<path, handle, cmd, target, asked>>

\* The daemon's loop is over: PidFile.release begins.
LeaveLoop(d) ==
  /\ proc[d] = "up"
  /\ proc' = [proc EXCEPT ![d] = "releasing"]
  /\ UNCHANGED <<path, text, handle, cmd, target, asked>>

\* release reads the file,
ReleaseRead(d) ==
  /\ proc[d] = "releasing"
  /\ proc' = [proc EXCEPT ![d] = IF Names(d) THEN "unlinking" ELSE "exited"]
  /\ UNCHANGED <<path, text, handle, cmd, target, asked>>

\* and removes it if it was its own.
Unlink(d) ==
  /\ proc[d] = "unlinking"
  /\ path' = None
  /\ proc' = [proc EXCEPT ![d] = "exited"]
  /\ UNCHANGED <<text, handle, cmd, target, asked>>

\* SIGKILL, a crash, or a SIGTERM before the handlers are installed.
KillDaemon(d) ==
  /\ Alive(d)
  /\ proc' = [proc EXCEPT ![d] = "killed"]
  /\ UNCHANGED <<path, text, handle, cmd, target, asked>>

-----------------------------------------------------------------------------
(* choker start *)

BeginStart(c) ==
  /\ MayBegin
  /\ cmd[c] = "idle"
  /\ cmd' = [cmd EXCEPT ![c] =
               IF Running THEN "done"
               ELSE IF Stopped THEN "spawning" ELSE "clearing"]
  /\ UNCHANGED <<path, text, handle, proc, target, asked>>

StartClears(c) ==
  /\ cmd[c] = "clearing"
  /\ path' = None
  /\ cmd' = [cmd EXCEPT ![c] = "spawning"]
  /\ UNCHANGED <<text, handle, proc, target, asked>>

\* Popen of a `choker run`; what is left of start only reads.
Spawn(c, d) ==
  /\ cmd[c] = "spawning"
  /\ proc[d] = "idle"
  /\ cmd' = [cmd EXCEPT ![c] = "done"]
  /\ proc' = [proc EXCEPT ![d] = "checking"]
  /\ UNCHANGED <<path, text, handle, target, asked>>

-----------------------------------------------------------------------------
(* choker stop *)

\* The pid in the file, if its process runs, gets a SIGTERM.
BeginStop(c) ==
  /\ MayBegin
  /\ cmd[c] = "idle"
  /\ \/ /\ Stopped
        /\ cmd' = [cmd EXCEPT ![c] = "done"]
        /\ UNCHANGED <<target, asked>>
     \/ /\ StaleOrInvalid
        /\ cmd' = [cmd EXCEPT ![c] = "removing"]
        /\ UNCHANGED <<target, asked>>
     \/ \E d \in Daemons :
          /\ Names(d) /\ Alive(d)
          /\ cmd' = [cmd EXCEPT ![c] = "waiting"]
          /\ target' = [target EXCEPT ![c] = d]
          /\ asked' = [asked EXCEPT ![d] = TRUE]
  /\ UNCHANGED <<path, text, handle, proc>>

\* terminate_process sees it gone, or runs out of time.
StopWaited(c) ==
  /\ cmd[c] = "waiting"
  /\ cmd' = [cmd EXCEPT ![c] =
               IF Alive(target[c]) THEN "done" ELSE "removing"]
  /\ UNCHANGED <<path, text, handle, proc, target, asked>>

\* remove_pid_file: whoever's pid is in the file by now
StopRemoves(c) ==
  /\ cmd[c] = "removing"
  /\ path' = None
  /\ cmd' = [cmd EXCEPT ![c] = "done"]
  /\ UNCHANGED <<text, handle, proc, target, asked>>

\* What a command does next.
CommandStep(c) ==
  \/ BeginStart(c)
  \/ StartClears(c)
  \/ \E d \in Daemons : Spawn(c, d)
  \/ BeginStop(c)
  \/ StopWaited(c)
  \/ StopRemoves(c)

\* What a daemon does before its loop and after it.
AcquireStep(d) == Check(d) \/ ClearStale(d) \/ OpenFile(d) \/ WriteFile(d)
ReleaseStep(d) == ReleaseRead(d) \/ Unlink(d)
=============================================================================
