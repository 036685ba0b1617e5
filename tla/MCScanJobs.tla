------------------------------ MODULE MCScanJobs ------------------------------
(* TLC's view of ScanJobs: scans are interchangeable. *)
EXTENDS ScanJobs, TLC

Symmetry == Permutations(Scans)

===============================================================================
