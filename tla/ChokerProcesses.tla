--------------------------- MODULE ChokerProcesses ---------------------------
(* What the modules about choker share: the processes and the absent value. *)
CONSTANTS
  Daemons,     \* `choker run` processes
  None         \* no daemon, no sample, no intensity set yet
=============================================================================
