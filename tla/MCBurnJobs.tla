----------------------------- MODULE MCBurnJobs -----------------------------
(* Instances of BurnJobs for TLC. *)
EXTENDS BurnJobs, TLC

Symmetry ==
  Permutations(Machines) \cup Permutations(Jobs) \cup Permutations(Requests)
=============================================================================
