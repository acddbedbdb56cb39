----------------------------- MODULE SshManager -----------------------------
(***************************************************************************)
(* UI/backend/ssh_manager.py: the connection to one machine.  connect()    *)
(* runs under the machine's lock, disconnect() does not.  Setting a status *)
(* broadcasts it, which is awaited and may raise; the status is set by     *)
(* then.                                                                   *)
(***************************************************************************)
EXTENDS Naturals

CONSTANTS
  Connects,      \* POST .../connect calls; each makes at most one connection
  Disconnects,   \* POST .../disconnect calls
  NoConnection

ASSUME SshAssumption == NoConnection \notin Connects

VARIABLES
  sshConnect,     \* how far each connect() is
  sshDisconnect,  \* how far each disconnect() is
  sshClosing,     \* the connection each disconnect() has popped
  sshStored,      \* _connections
  sshStatus,      \* _statuses
  sshOpen,        \* connections that are open
  sshCrossed      \* a connection was stored while an older one was waited for

sshVars == <<sshConnect, sshDisconnect, sshClosing, sshStored, sshStatus,
             sshOpen, sshCrossed>>

SshTypeOK ==
  /\ sshConnect \in [Connects -> {"idle", "waiting", "announcing", "shaking",
                                  "telling", "over"}]
  /\ sshDisconnect \in [Disconnects -> {"idle", "closing", "telling", "over"}]
  /\ sshClosing \in [Disconnects -> Connects \cup {NoConnection}]
  /\ sshStored \in Connects \cup {NoConnection}
  /\ sshStatus \in {"disconnected", "connecting", "connected", "error"}
  /\ sshOpen \subseteq Connects
  /\ sshCrossed \in BOOLEAN

SshInit ==
  /\ sshConnect = [c \in Connects |-> "idle"]
  /\ sshDisconnect = [d \in Disconnects |-> "idle"]
  /\ sshClosing = [d \in Disconnects |-> NoConnection]
  /\ sshStored = NoConnection
  /\ sshStatus = "disconnected"
  /\ sshOpen = {}
  /\ sshCrossed = FALSE

-----------------------------------------------------------------------------
(* connect *)

LockFree ==
  \A c \in Connects : sshConnect[c] \notin {"announcing", "shaking", "telling"}

AskConnect(c) ==
  /\ sshConnect[c] = "idle"
  /\ sshConnect' = [sshConnect EXCEPT ![c] = "waiting"]
  /\ UNCHANGED <<sshDisconnect, sshClosing, sshStored, sshStatus, sshOpen,
                 sshCrossed>>

\* Mutant: a connected machine is connected once more.
IsConnected_mutant == FALSE

IsConnected == sshStatus = "connected"

\* The lock is taken; a machine that counts as connected is left alone, ...
ConnectNot(c) ==
  /\ sshConnect[c] = "waiting"
  /\ LockFree
  /\ IsConnected
  /\ sshConnect' = [sshConnect EXCEPT ![c] = "over"]
  /\ UNCHANGED <<sshDisconnect, sshClosing, sshStored, sshStatus, sshOpen,
                 sshCrossed>>

\* ... any other is announced to be connecting.
ConnectBegins(c) ==
  /\ sshConnect[c] = "waiting"
  /\ LockFree
  /\ ~IsConnected
  /\ sshConnect' = [sshConnect EXCEPT ![c] = "announcing"]
  /\ sshStatus' = "connecting"
  /\ UNCHANGED <<sshDisconnect, sshClosing, sshStored, sshOpen, sshCrossed>>

\* asyncssh.connect is called.
ConnectTold(c) ==
  /\ sshConnect[c] = "announcing"
  /\ sshConnect' = [sshConnect EXCEPT ![c] = "shaking"]
  /\ UNCHANGED <<sshDisconnect, sshClosing, sshStored, sshStatus, sshOpen,
                 sshCrossed>>

\* It raises; what is stored is forgotten, and not closed.
ShakeFails(c) ==
  /\ sshConnect[c] = "shaking"
  /\ sshConnect' = [sshConnect EXCEPT ![c] = "telling"]
  /\ sshStored' = NoConnection
  /\ sshStatus' = "error"
  /\ UNCHANGED <<sshDisconnect, sshClosing, sshOpen, sshCrossed>>

\* It returns; the connection is stored in the place of an older one.
ShakeDone(c) ==
  /\ sshConnect[c] = "shaking"
  /\ sshConnect' = [sshConnect EXCEPT ![c] = "telling"]
  /\ sshStored' = c
  /\ sshStatus' = "connected"
  /\ sshOpen' = (sshOpen \ {sshStored}) \cup {c}
  /\ sshCrossed' =
       (sshCrossed \/ \E d \in Disconnects : sshDisconnect[d] = "closing")
  /\ UNCHANGED <<sshDisconnect, sshClosing>>

\* The lock is let go when the status has been told, or telling it raised.
ConnectEnds(c) ==
  /\ sshConnect[c] \in {"announcing", "telling"}
  /\ sshConnect' = [sshConnect EXCEPT ![c] = "over"]
  /\ UNCHANGED <<sshDisconnect, sshClosing, sshStored, sshStatus, sshOpen,
                 sshCrossed>>

-----------------------------------------------------------------------------
(* disconnect *)

\* The connection is popped and closed, and its end is awaited.
DisconnectBegins(d) ==
  /\ sshDisconnect[d] = "idle"
  /\ sshStored # NoConnection
  /\ sshDisconnect' = [sshDisconnect EXCEPT ![d] = "closing"]
  /\ sshClosing' = [sshClosing EXCEPT ![d] = sshStored]
  /\ sshStored' = NoConnection
  /\ UNCHANGED <<sshConnect, sshStatus, sshOpen, sshCrossed>>

\* It has ended.
DisconnectCloses(d) ==
  /\ sshDisconnect[d] = "closing"
  /\ sshDisconnect' = [sshDisconnect EXCEPT ![d] = "telling"]
  /\ sshOpen' = sshOpen \ {sshClosing[d]}
  /\ sshStatus' = "disconnected"
  /\ UNCHANGED <<sshConnect, sshClosing, sshStored, sshCrossed>>

\* There is no connection to pop.
DisconnectNone(d) ==
  /\ sshDisconnect[d] = "idle"
  /\ sshStored = NoConnection
  /\ sshDisconnect' = [sshDisconnect EXCEPT ![d] = "telling"]
  /\ sshStatus' = "disconnected"
  /\ UNCHANGED <<sshConnect, sshClosing, sshStored, sshOpen, sshCrossed>>

DisconnectEnds(d) ==
  /\ sshDisconnect[d] = "telling"
  /\ sshDisconnect' = [sshDisconnect EXCEPT ![d] = "over"]
  /\ UNCHANGED <<sshConnect, sshClosing, sshStored, sshStatus, sshOpen,
                 sshCrossed>>

-----------------------------------------------------------------------------

\* A connection dies by itself; nobody is told.
Dies(c) ==
  /\ c \in sshOpen
  /\ sshOpen' = sshOpen \ {c}
  /\ UNCHANGED <<sshConnect, sshDisconnect, sshClosing, sshStored, sshStatus,
                 sshCrossed>>

SshNext ==
  \/ \E c \in Connects :
       \/ AskConnect(c) \/ ConnectNot(c) \/ ConnectBegins(c) \/ ConnectTold(c)
       \/ ShakeFails(c) \/ ShakeDone(c) \/ ConnectEnds(c) \/ Dies(c)
  \/ \E d \in Disconnects :
       \/ DisconnectBegins(d) \/ DisconnectCloses(d) \/ DisconnectNone(d)
       \/ DisconnectEnds(d)

SshSpec == SshInit /\ [][SshNext]_sshVars

-----------------------------------------------------------------------------
(* Properties *)

(***************************************************************************)
(* While no disconnect waits for a connection to end, a machine counts as  *)
(* connected exactly if it has a stored connection, and that is the only   *)
(* one that is open: none is leaked, whatever failed.  Except after a      *)
(* connect stored a new connection while a disconnect was waiting for an   *)
(* old one, which a second disconnect lets happen: the first one, when it  *)
(* wakes up, says that the machine is disconnected.                        *)
(***************************************************************************)
ConnectionsAccounted ==
  ~sshCrossed /\ (\A d \in Disconnects : sshDisconnect[d] # "closing") =>
    /\ (sshStatus = "connected") <=> (sshStored # NoConnection)
    /\ sshOpen \subseteq {sshStored}
=============================================================================
