---------------------------- MODULE MCReportStore ----------------------------
(* Small instance of ReportStore for TLC. *)
EXTENDS ReportStore, TLC

\* Writers run the same code.
Symmetry == Permutations(Writers)

==============================================================================
