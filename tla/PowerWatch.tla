----------------------------- MODULE PowerWatch -----------------------------
(***************************************************************************)
(* The watcher: watcher_core.py and watcher_cli.py.  CPU power is the      *)
(* difference of RAPL energy counters, which wrap and any of which may     *)
(* fail to be read; a row is written per sample, and shown.                *)
(*                                                                         *)
(* Powers are represented by the energy they are computed from; the clock  *)
(* is monotonic and moves between samples.                                 *)
(***************************************************************************)
EXTENDS Integers, FiniteSetsExt

CONSTANTS
  Zones,       \* the energy_uj files
  Turn,        \* a counter starts again from 0 here
  Draws,       \* bound: what a zone may use at a time
  MaxUse,      \* bound: use between two good readings that is followed
  MaxSamples   \* --samples

ASSUME WatchAssumption ==
  /\ IsFiniteSet(Zones)
  /\ {Turn, MaxSamples} \subseteq Nat \ {0}
  /\ Draws \cup {MaxUse} \subseteq Nat

Blank == -1      \* None, an empty field

VARIABLES
  energy,      \* the counters
  used,        \* what each zone has used since the last good reading
  previous,    \* _previous_energy_uj, or Blank
  source,      \* the zones that reading was made of
  cpu, gpu,    \* the values of the last sample
  truth,       \* what its zones had really used
  whole,       \* was it made of the same zones as the reading before?
  watch,       \* where run_watcher is
  rows,        \* samples taken: each is a row of the file once written
  display,     \* has the TUI taken over the terminal?
  cutOff       \* did the program end where no clause cleans up?

watchVars == <<energy, used, previous, source, cpu, gpu, truth, whole, watch,
               rows, display, cutOff>>

WatchTypeOK ==
  /\ energy \in [Zones -> 0..(Turn - 1)]
  /\ used \in [Zones -> 0..MaxUse]
  /\ {previous, cpu, gpu} \subseteq Nat \cup {Blank}
  /\ source \subseteq Zones
  /\ truth \in Nat
  /\ watch \in {"opening", "sampling", "writing", "showing", "sleeping",
                 "gone"}
  /\ rows \in 0..MaxSamples
  /\ {whole, display, cutOff} \subseteq BOOLEAN

\* The counters are anywhere when the TUI starts.
WatchInit ==
  /\ energy \in [Zones -> 0..(Turn - 1)]
  /\ used = [z \in Zones |-> 0]
  /\ previous = Blank
  /\ source = {}
  /\ cpu = Blank
  /\ gpu = Blank
  /\ truth = 0
  /\ whole = FALSE
  /\ watch = "opening"
  /\ rows = 0
  /\ display = TRUE
  /\ cutOff = FALSE

Total(f, S) == MapThenSumSet(LAMBDA z : f[z], S)

\* The machine uses energy: what it uses between two samples is counted in
\* the pause between them.
Draw(z, d) ==
  /\ watch = "sleeping"
  /\ used[z] + d <= MaxUse
  /\ used' = [used EXCEPT ![z] = @ + d]
  /\ energy' = [energy EXCEPT ![z] = (@ + d) % Turn]
  /\ UNCHANGED <<previous, source, cpu, gpu, truth, whole, watch, rows,
                 display, cutOff>>

\* The output file is opened after the TUI has started, outside the try.
Open ==
  /\ watch = "opening"
  /\ watch' = "sampling"
  /\ UNCHANGED <<energy, used, previous, source, cpu, gpu, truth, whole, rows,
                 display, cutOff>>

OpenFails ==
  /\ watch = "opening"
  /\ watch' = "gone"
  /\ cutOff' = TRUE
  /\ UNCHANGED <<energy, used, previous, source, cpu, gpu, truth, whole, rows,
                 display>>

\* nvidia-smi: missing, failing, or with a line that is no number, or good.
GpuReading == {Blank, 1}

\* Mutant: a negative difference is taken for a value.
Difference_mutant(e) == IF previous = Blank THEN Blank ELSE e - previous + Turn

\* A negative difference is no value: some counter has wrapped.
Difference(e) ==
  IF previous = Blank \/ e < previous THEN Blank ELSE e - previous

\* RaplSampler.sample when some zones can be read,
Sample(readable) ==
  /\ watch = "sampling"
  /\ readable # {}
  /\ cpu' = Difference(Total(energy, readable))
  /\ previous' = Total(energy, readable)
  /\ truth' = Total(used, readable)
  /\ whole' = (readable = source)
  /\ source' = readable
  /\ used' = [z \in Zones |-> 0]
  /\ gpu' \in GpuReading
  /\ rows' = rows + 1
  /\ watch' = "writing"
  /\ UNCHANGED <<energy, display, cutOff>>

\* and when none can.
SampleNothing ==
  /\ watch = "sampling"
  /\ cpu' = Blank
  /\ gpu' \in GpuReading
  /\ rows' = rows + 1
  /\ watch' = "writing"
  /\ UNCHANGED <<energy, used, previous, source, truth, whole, display,
                 cutOff>>

WriteRow ==
  /\ watch = "writing"
  /\ watch' = "showing"
  /\ UNCHANGED <<energy, used, previous, source, cpu, gpu, truth, whole, rows,
                 display, cutOff>>

\* The last of --samples ends the loop.
Show ==
  /\ watch = "showing"
  /\ watch' = IF rows = MaxSamples THEN "gone" ELSE "sleeping"
  /\ display' = (rows < MaxSamples)
  /\ UNCHANGED <<energy, used, previous, source, cpu, gpu, truth, whole, rows,
                 cutOff>>

WakeUp ==
  /\ watch = "sleeping"
  /\ watch' = "sampling"
  /\ UNCHANGED <<energy, used, previous, source, cpu, gpu, truth, whole, rows,
                 display, cutOff>>

\* Mutant: the terminal is given back after the last sample only.
CtrlC_mutant ==
  /\ watch # "gone"
  /\ watch' = "gone"
  /\ cutOff' = (watch = "opening")
  /\ UNCHANGED <<energy, used, previous, source, cpu, gpu, truth, whole, rows,
                 display>>

\* KeyboardInterrupt: the finally clause closes the TUI.
CtrlC ==
  /\ watch # "gone"
  /\ watch' = "gone"
  /\ display' = (watch = "opening")
  /\ cutOff' = (watch = "opening")
  /\ UNCHANGED <<energy, used, previous, source, cpu, gpu, truth, whole, rows>>

\* SIGTERM has no handler: the program is ended as it is.
Sigterm ==
  /\ watch # "gone"
  /\ watch' = "gone"
  /\ cutOff' = TRUE
  /\ UNCHANGED <<energy, used, previous, source, cpu, gpu, truth, whole, rows,
                 display>>

WatchNext ==
  \/ \E z \in Zones, d \in Draws : Draw(z, d)
  \/ Open \/ OpenFails
  \/ \E readable \in SUBSET Zones : Sample(readable)
  \/ SampleNothing \/ WriteRow \/ Show \/ WakeUp \/ CtrlC \/ Sigterm

WatchSpec == WatchInit /\ [][WatchNext]_watchVars

-----------------------------------------------------------------------------
(* Properties *)

(***************************************************************************)
(* docs/watcher.md: missing data is an empty field.  A CPU value that is   *)
(* written is the energy that was used, however often readings failed in   *)
(* between and counters wrapped, if both of its readings are made of the   *)
(* same zones and less than a whole turn of a counter was used: a wrap     *)
(* then shows as a gap and never as a value.                               *)
(***************************************************************************)
EnergyIsTrue == cpu # Blank /\ whole /\ truth < Turn => cpu = truth

(***************************************************************************)
(* docs/watcher.md: Ctrl-C stops sampling cleanly.  The TUI gives the      *)
(* terminal back when the watcher ends, unless it is killed, or ends       *)
(* before its output file is open.                                         *)
(***************************************************************************)
TerminalRestored == watch = "gone" /\ display => cutOff
=============================================================================
