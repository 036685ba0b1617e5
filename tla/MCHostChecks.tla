----------------------------- MODULE MCHostChecks -----------------------------
(* TLC's view of HostChecks: hosts and workers are interchangeable. *)
EXTENDS HostChecks, TLC

Symmetry == Permutations(Hosts) \cup Permutations(Workers)

===============================================================================
