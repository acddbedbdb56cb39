---------------------------- MODULE MCInterlocks ----------------------------
(* Interlocks on a small instance. *)
EXTENDS Interlocks, TLC

\* Activities and machines are interchangeable.
Symmetry == Permutations(Acts) \cup Permutations(Machines)
=============================================================================
